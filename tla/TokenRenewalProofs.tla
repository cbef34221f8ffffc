------------------------- MODULE TokenRenewalProofs -------------------------
(***************************************************************************)
(* Theorems of TokenRenewal for every set of processes and requests, every *)
(* bound and every timing that TimingAssumption admits.                    *)
(***************************************************************************)
EXTENDS TokenRenewal, TLAPS

LEMMA UnsentType == Unsent \in SentRecord
  BY TimingAssumption DEF Unsent, SentRecord, Kind, NoPair

LEMMA AbsentType == Absent \in ExchangeRecord
  BY DEF Absent, ExchangeRecord, NoPair

LEMMA AfterType ==
  ASSUME NEW k \in Kind, NEW n \in {NoPair} \cup Pair
  PROVE  /\ StageAfter(k, n) \in Stage
         /\ TokenAfter(k, n) \in {NoPair, n}
         /\ SetAfter(k, n) \in {NoPair, n}
  BY DEF StageAfter, TokenAfter, SetAfter, Stage

LEMMA EntryType ==
  ASSUME exchange \in [Process -> [Pair -> ExchangeRecord]],
         NEW p \in Process, NEW t \in Pair, NEW e \in ExchangeRecord
  PROVE  [exchange EXCEPT ![p][t] = e] \in [Process -> [Pair -> ExchangeRecord]]
  OBVIOUS

(* TypeOK is inductive. *)
LEMMA TypeStep == TypeOK /\ [Next]_vars => TypeOK'
<1> SUFFICES ASSUME TypeOK, [Next]_vars PROVE TypeOK'
  OBVIOUS
<1> USE TimingAssumption, UnsentType, AbsentType DEF TypeOK
<1>0. NoPair \in {NoPair} \cup Pair /\ now \in Nat /\ minted + 1 \in Nat
  BY DEF Pair
<1>1. ASSUME NEW r \in Request, NEW b \in Browser, NEW k \in Kind,
             NEW p \in Process, Send(r, b, k, p)
      PROVE TypeOK'
  BY <1>1 DEF Send, issuerVars, SentRecord, Stage
<1>2. ASSUME NEW r \in Request, Deliver(r) PROVE TypeOK'
  BY <1>2 DEF Deliver, issuerVars, Stage
<1>3. ASSUME NEW r \in Request, RefreshOnce(r), sent[r].carried # NoPair,
             UNCHANGED <<now, issuerVars, jar, sent>>
      PROVE TypeOK'
  <2> DEFINE p == sent[r].proc
             t == sent[r].carried
             k == sent[r].kind
  <2>1. p \in Process /\ t \in Pair /\ k \in Kind
    BY <1>3 DEF SentRecord
  <2>2. exchange[p][t] \in ExchangeRecord
    BY <2>1
  <2>3. exchange[p][t].pair \in {NoPair} \cup Pair
    BY <2>2 DEF ExchangeRecord
  <2>4. CASE exchange[p][t].status = "kept"
    <3> HIDE DEF p, t, k
    <3>1. /\ StageAfter(k, exchange[p][t].pair) \in Stage
          /\ TokenAfter(k, exchange[p][t].pair) \in {NoPair} \cup Pair
          /\ SetAfter(k, exchange[p][t].pair) \in {NoPair} \cup Pair
      BY <2>1, <2>3, AfterType
    <3>2. /\ stage' = [stage EXCEPT ![r] = StageAfter(k, exchange[p][t].pair)]
          /\ token' = [token EXCEPT ![r] = TokenAfter(k, exchange[p][t].pair)]
          /\ set' = [set EXCEPT ![r] = SetAfter(k, exchange[p][t].pair)]
          /\ UNCHANGED exchange
      BY <2>4, <1>3 DEF RefreshOnce, p, t, k
    <3>3. /\ stage' \in [Request -> Stage]
          /\ token' \in [Request -> {NoPair} \cup Pair]
          /\ set' \in [Request -> {NoPair} \cup Pair]
      BY <3>1, <3>2
    <3>4. UNCHANGED <<now, minted, mintedAt, root, rotatedAt, revoked, assured, jar, sent>>
      BY <1>3 DEF issuerVars
    <3> QED
      BY <3>2, <3>3, <3>4
  <2>5. CASE exchange[p][t].status # "kept"
    <3> DEFINE e == [status |-> "asked", pair |-> NoPair, since |-> now]
    <3>1. e \in ExchangeRecord
      BY DEF ExchangeRecord
    <3>2. stage' = [stage EXCEPT ![r] = "exchanging"] /\ UNCHANGED <<token, set>>
      BY <2>5, <1>3 DEF RefreshOnce
    <3>3. exchange' = exchange \/ exchange' = [exchange EXCEPT ![p][t] = e]
      BY <2>5, <1>3 DEF RefreshOnce
    <3>4. exchange' \in [Process -> [Pair -> ExchangeRecord]]
      <4>1. exchange \in [Process -> [Pair -> ExchangeRecord]]
        BY DEF TypeOK
      <4> HIDE DEF e, p, t, TypeOK
      <4>2. [exchange EXCEPT ![p][t] = e] \in [Process -> [Pair -> ExchangeRecord]]
        BY ONLY <4>1, <3>1, <2>1, EntryType
      <4> QED
        BY ONLY <4>1, <4>2, <3>3
    <3>5. stage' \in [Request -> Stage]
      BY <3>2 DEF Stage
    <3>6. /\ token' = token /\ set' = set /\ now' = now /\ minted' = minted
          /\ mintedAt' = mintedAt /\ root' = root /\ rotatedAt' = rotatedAt
          /\ revoked' = revoked /\ assured' = assured /\ jar' = jar /\ sent' = sent
      BY <3>2, <1>3 DEF issuerVars
    <3> HIDE DEF e, p, t
    <3> QED
      BY <3>4, <3>5, <3>6
  <2> QED
    BY <2>4, <2>5
<1>4. ASSUME NEW r \in Request, HandleGuard(r) PROVE TypeOK'
  <2>1. CASE /\ Unspent(sent[r].carried)
             /\ token' = [token EXCEPT ![r] = TokenAfter("guard", sent[r].carried)]
             /\ stage' = [stage EXCEPT ![r] = "answering"]
             /\ UNCHANGED <<set, exchange>>
    BY <2>1, <1>4, AfterType DEF HandleGuard, issuerVars, SentRecord, Stage, Kind
  <2>2. CASE sent[r].carried # NoPair /\ RefreshOnce(r)
    BY <2>2, <1>3, <1>4 DEF HandleGuard
  <2>3. CASE /\ stage' = [stage EXCEPT ![r] = "answering"]
             /\ UNCHANGED <<token, set, exchange>>
    BY <2>3, <1>4 DEF HandleGuard, issuerVars, Stage
  <2> QED
    BY <1>4, <2>1, <2>2, <2>3 DEF HandleGuard
<1>5. ASSUME NEW r \in Request, HandleRelay(r) PROVE TypeOK'
  <2>1. CASE /\ token' = [token EXCEPT ![r] = sent[r].carried]
             /\ stage' = [stage EXCEPT ![r] = "forwarding"]
             /\ UNCHANGED <<set, exchange>>
    BY <2>1, <1>5 DEF HandleRelay, issuerVars, SentRecord, Stage
  <2>2. CASE sent[r].carried # NoPair /\ RefreshOnce(r)
    BY <2>2, <1>3, <1>5 DEF HandleRelay
  <2>3. CASE /\ stage' = [stage EXCEPT ![r] = "answering"]
             /\ UNCHANGED <<token, set, exchange>>
    BY <2>3, <1>5 DEF HandleRelay, issuerVars, Stage
  <2> QED
    BY <1>5, <2>1, <2>2, <2>3 DEF HandleRelay
<1>6. ASSUME NEW r \in Request, HandleCallback(r) PROVE TypeOK'
  <2>1. CASE UNCHANGED <<minted, mintedAt, root, assured, set>>
    BY <2>1, <1>6 DEF HandleCallback, Stage
  <2>2. CASE ~UNCHANGED <<minted, mintedAt, root, assured, set>>
    <3>1. minted + 1 \in Pair /\ minted + 1 \in 0..MaxPairs
      BY <2>2, <1>6 DEF HandleCallback, Pair
    <3>2. /\ minted' = minted + 1
          /\ mintedAt' = [mintedAt EXCEPT ![minted + 1] = now]
          /\ root' = [root EXCEPT ![minted + 1] = minted + 1]
          /\ assured' \in {assured, assured \cup {minted + 1}}
          /\ stage' = [stage EXCEPT ![r] = "answering"]
          /\ set' = [set EXCEPT ![r] = minted + 1]
      BY <2>2, <1>6 DEF HandleCallback
    <3>3. UNCHANGED <<now, rotatedAt, revoked, jar, sent, token, exchange>>
      BY <1>6 DEF HandleCallback
    <3> QED
      BY <3>1, <3>2, <3>3 DEF Stage
  <2> QED
    BY <2>1, <2>2
<1>7. ASSUME NEW r \in Request, HandleLogout(r) PROVE TypeOK'
  BY <1>7 DEF HandleLogout, issuerVars, Stage
<1>8. ASSUME NEW r \in Request, Upstream(r) PROVE TypeOK'
  BY <1>8 DEF Upstream, UpstreamAnswers, UpstreamFails, issuerVars, Stage
<1>9. ASSUME NEW p \in Process, NEW t \in Pair, IssuerAnswers(p, t) PROVE TypeOK'
  <2>1. exchange[p][t].since \in Nat
    BY DEF ExchangeRecord
  <2>2. CASE minted < MaxPairs /\ minted' = minted + 1
    <3>1. minted + 1 \in Pair /\ minted + 1 \in 0..MaxPairs
      BY <2>2 DEF Pair
    <3>2. [status |-> "answered", pair |-> minted + 1,
           since |-> exchange[p][t].since] \in ExchangeRecord
      BY <2>1, <3>1 DEF ExchangeRecord
    <3>3. exchange' \in [Process -> [Pair -> ExchangeRecord]]
      <4> DEFINE e == [status |-> "answered", pair |-> minted + 1,
                       since |-> exchange[p][t].since]
      <4>0. minted # minted + 1
        BY DEF Pair
      <4>1. exchange' = [exchange EXCEPT ![p][t] = e]
        BY ONLY <4>0, <2>2, <1>9 DEF IssuerAnswers
      <4>2. e \in ExchangeRecord
        BY <3>2
      <4>3. exchange \in [Process -> [Pair -> ExchangeRecord]]
        OBVIOUS
      <4> HIDE DEF e
      <4> QED
        BY ONLY <4>1, <4>2, <4>3, EntryType, p \in Process, t \in Pair
    <3>4. mintedAt' \in [Pair -> Nat] /\ root' \in [Pair -> Pair]
      <4>0. minted # minted + 1 /\ root[t] \in Pair
        BY DEF Pair
      <4>1. /\ mintedAt' = [mintedAt EXCEPT ![minted + 1] = now]
            /\ root' = [root EXCEPT ![minted + 1] = root[t]]
        BY ONLY <4>0, <2>2, <1>9 DEF IssuerAnswers
      <4> QED
        BY <4>0, <4>1
    <3>5. rotatedAt' \in [Pair -> SUBSET Nat] /\ revoked' \subseteq Pair
      BY <2>2, <3>1, <1>9 DEF IssuerAnswers
    <3>6. /\ minted' = minted + 1 /\ now' = now /\ assured' = assured /\ jar' = jar
          /\ stage' = stage /\ sent' = sent /\ token' = token /\ set' = set
      BY <2>2, <1>9 DEF IssuerAnswers, requestVars
    <3> QED
      BY <3>1, <3>3, <3>4, <3>5, <3>6
  <2>3. CASE UNCHANGED <<minted, mintedAt, root, rotatedAt>>
    <3>1. [status |-> "answered", pair |-> NoPair,
           since |-> exchange[p][t].since] \in ExchangeRecord
      BY <2>1 DEF ExchangeRecord
    <3>2. minted \in Nat /\ minted # minted + 1
      BY DEF Pair
    <3>3. exchange' \in [Process -> [Pair -> ExchangeRecord]]
      <4> DEFINE e == [status |-> "answered", pair |-> NoPair,
                       since |-> exchange[p][t].since]
      <4>1. exchange' = [exchange EXCEPT ![p][t] = e]
        BY <2>3, <3>2, <1>9 DEF IssuerAnswers
      <4>2. e \in ExchangeRecord
        BY <3>1
      <4>3. exchange \in [Process -> [Pair -> ExchangeRecord]]
        OBVIOUS
      <4> HIDE DEF e
      <4> QED
        BY ONLY <4>1, <4>2, <4>3, EntryType, p \in Process, t \in Pair
    <3>4. revoked' \subseteq Pair
      BY <1>9 DEF IssuerAnswers
    <3>6. /\ now' = now /\ assured' = assured /\ jar' = jar
          /\ stage' = stage /\ sent' = sent /\ token' = token /\ set' = set
      BY <1>9 DEF IssuerAnswers, requestVars
    <3> QED
      BY <2>3, <3>3, <3>4, <3>6
  <2> QED
    BY <1>9, <2>2, <2>3 DEF IssuerAnswers
<1>10. ASSUME NEW p \in Process, NEW t \in Pair, NEW n \in {NoPair} \cup Pair,
              Resolve(p, t, n)
       PROVE TypeOK'
  <2>1. \A r \in Request : sent[r].kind \in Kind
    BY DEF SentRecord
  <2>2. n # NoPair => [status |-> "kept", pair |-> n, since |-> now] \in ExchangeRecord
    BY DEF ExchangeRecord
  <2>3. exchange' \in [Process -> [Pair -> ExchangeRecord]]
    BY <1>10, <2>2 DEF Resolve
  <2>4. \A r \in Request :
          /\ StageAfter(sent[r].kind, n) \in Stage
          /\ TokenAfter(sent[r].kind, n) \in {NoPair} \cup Pair
          /\ SetAfter(sent[r].kind, n) \in {NoPair} \cup Pair
    BY <2>1, AfterType
  <2>5. /\ stage' \in [Request -> Stage]
        /\ token' \in [Request -> {NoPair} \cup Pair]
        /\ set' \in [Request -> {NoPair} \cup Pair]
    BY <1>10, <2>4 DEF Resolve
  <2> QED
    BY <1>10, <2>3, <2>5 DEF Resolve, issuerVars
<1>11. ASSUME NEW p \in Process, NEW t \in Pair, Forget(p, t) PROVE TypeOK'
  BY <1>11 DEF Forget, issuerVars, requestVars
<1>12. ASSUME NEW p \in Process, NEW t \in Pair, Exchange(p, t) PROVE TypeOK'
  <2>1. exchange[p][t].pair \in {NoPair} \cup Pair
    BY DEF ExchangeRecord
  <2> QED
    BY <2>1, <1>10, <1>12 DEF Exchange, Settle, ExchangeFails
<1>13. CASE Tick
  BY <1>13 DEF Tick, issuerVars, requestVars
<1>14. CASE UNCHANGED vars
  BY <1>14 DEF vars, issuerVars, requestVars
<1> QED
  BY <1>1, <1>2, <1>4, <1>5, <1>6, <1>7, <1>8, <1>9, <1>11, <1>12, <1>13, <1>14
     DEF Next, Handle

LEMMA TypeInit == Init => TypeOK
  BY TimingAssumption, UnsentType, AbsentType DEF Init, TypeOK, Pair, Stage

(* Every variable keeps its type. *)
THEOREM TypeCorrect == Spec => []TypeOK
  BY TypeInit, TypeStep, PTL DEF Spec

-----------------------------------------------------------------------------
(* What the steps have in common. *)

(* A step of the server side: neither the browser's nor the clock's.         *)
Work ==
  \/ \E r \in Request : Handle(r) \/ Upstream(r)
  \/ \E p \in Process, t \in Pair :
       IssuerAnswers(p, t) \/ Exchange(p, t) \/ Forget(p, t)

LEMMA NextCases ==
  ASSUME [Next]_vars
  PROVE  \/ \E r \in Request, b \in Browser, k \in Kind, p \in Process :
               Send(r, b, k, p)
         \/ \E r \in Request : Deliver(r)
         \/ Work
         \/ Tick
         \/ UNCHANGED vars
  BY DEF Next, Work

(* The server side leaves the clock, the jar and the requests' identities    *)
(* alone, and neither creates nor ends a request.                            *)
LEMMA WorkFrame ==
  ASSUME TypeOK, Work
  PROVE  /\ now' = now /\ jar' = jar /\ sent' = sent
         /\ \A r \in Request : stage'[r] = "idle" <=> stage[r] = "idle"
<1> USE DEF TypeOK
<1>1. ASSUME NEW r \in Request, stage[r] # "idle", NEW v, v # "idle",
             stage' = [stage EXCEPT ![r] = v]
      PROVE \A s \in Request : stage'[s] = "idle" <=> stage[s] = "idle"
  BY <1>1
<1>2. \A k, n : StageAfter(k, n) # "idle"
  BY DEF StageAfter
<1>3. ASSUME NEW r \in Request, Handle(r)
      PROVE /\ now' = now /\ jar' = jar /\ sent' = sent
            /\ \A s \in Request : stage'[s] = "idle" <=> stage[s] = "idle"
  <2>1. now' = now /\ jar' = jar /\ sent' = sent /\ stage[r] = "arriving"
    BY <1>3 DEF Handle, HandleGuard, HandleRelay, HandleCallback, HandleLogout
  <2>2. RefreshOnce(r) => \E v : v # "idle" /\ stage' = [stage EXCEPT ![r] = v]
    BY <1>2 DEF RefreshOnce
  <2>3. RefreshOnce(r) \/ \E v : v # "idle" /\ stage' = [stage EXCEPT ![r] = v]
    BY <1>3 DEF Handle, HandleGuard, HandleRelay, HandleCallback, HandleLogout
  <2> QED
    BY <1>1, <2>1, <2>2, <2>3
<1>4. ASSUME NEW r \in Request, Upstream(r)
      PROVE /\ now' = now /\ jar' = jar /\ sent' = sent
            /\ \A s \in Request : stage'[s] = "idle" <=> stage[s] = "idle"
  BY <1>1, <1>4 DEF Upstream, UpstreamAnswers, UpstreamFails
<1>5. ASSUME NEW p \in Process, NEW t \in Pair, IssuerAnswers(p, t) \/ Forget(p, t)
      PROVE /\ now' = now /\ jar' = jar /\ sent' = sent /\ stage' = stage
  BY <1>5 DEF IssuerAnswers, Forget, requestVars
<1>6. ASSUME NEW p \in Process, NEW t \in Pair, Exchange(p, t)
      PROVE /\ now' = now /\ jar' = jar /\ sent' = sent
            /\ \A s \in Request : stage'[s] = "idle" <=> stage[s] = "idle"
  BY <1>2, <1>6 DEF Exchange, Settle, ExchangeFails, Resolve, Waits
<1> QED
  BY <1>3, <1>4, <1>5, <1>6 DEF Work

(* Minting never touches a pair minted before.                               *)
LEMMA MintFrame ==
  ASSUME TypeOK, [Next]_vars
  PROVE  /\ minted' \in {minted, minted + 1}
         /\ \A n \in Pair : n <= minted => mintedAt'[n] = mintedAt[n] /\ root'[n] = root[n]
<1> USE DEF TypeOK, Pair
<1>1. CASE UNCHANGED <<minted, mintedAt, root>>
  BY <1>1
<1>2. ASSUME NEW r \in Request, HandleCallback(r)
      PROVE /\ minted' \in {minted, minted + 1}
            /\ \A n \in Pair : n <= minted => mintedAt'[n] = mintedAt[n] /\ root'[n] = root[n]
  <2>1. \/ /\ minted' = minted + 1
           /\ mintedAt' = [mintedAt EXCEPT ![minted + 1] = now]
           /\ root' = [root EXCEPT ![minted + 1] = minted + 1]
        \/ UNCHANGED <<minted, mintedAt, root>>
    BY <1>2 DEF HandleCallback
  <2>2. \A n \in Pair : n <= minted => n # minted + 1
    OBVIOUS
  <2>3. ASSUME NEW n \in Pair, n <= minted
        PROVE mintedAt'[n] = mintedAt[n] /\ root'[n] = root[n]
    BY ONLY <2>1, <2>2, <2>3, mintedAt \in [Pair -> Nat], root \in [Pair -> Pair]
  <2> QED
    BY <2>1, <2>3
<1>3. ASSUME NEW p \in Process, NEW t \in Pair, IssuerAnswers(p, t)
      PROVE /\ minted' \in {minted, minted + 1}
            /\ \A n \in Pair : n <= minted => mintedAt'[n] = mintedAt[n] /\ root'[n] = root[n]
  <2>1. \/ /\ minted' = minted + 1
           /\ mintedAt' = [mintedAt EXCEPT ![minted + 1] = now]
           /\ root' = [root EXCEPT ![minted + 1] = root[t]]
        \/ UNCHANGED <<minted, mintedAt, root>>
    BY <1>3 DEF IssuerAnswers
  <2>2. \A n \in Pair : n <= minted => n # minted + 1
    OBVIOUS
  <2>3. ASSUME NEW n \in Pair, n <= minted
        PROVE mintedAt'[n] = mintedAt[n] /\ root'[n] = root[n]
    BY ONLY <2>1, <2>2, <2>3, mintedAt \in [Pair -> Nat], root \in [Pair -> Pair]
  <2> QED
    BY <2>1, <2>3
<1>4. ASSUME NEW r \in Request, Handle(r) \/ Upstream(r) \/ Deliver(r)
      PROVE HandleCallback(r) \/ UNCHANGED <<minted, mintedAt, root>>
  BY <1>4 DEF Handle, HandleGuard, HandleRelay, HandleLogout, Upstream, UpstreamAnswers,
              UpstreamFails, Deliver, issuerVars
<1>5. ASSUME NEW p \in Process, NEW t \in Pair, Exchange(p, t) \/ Forget(p, t)
      PROVE UNCHANGED <<minted, mintedAt, root>>
  BY <1>5 DEF Exchange, Settle, ExchangeFails, Resolve, Forget, issuerVars
<1>6. ASSUME NEW r \in Request, NEW b \in Browser, NEW k \in Kind,
             NEW p \in Process, Send(r, b, k, p)
      PROVE UNCHANGED <<minted, mintedAt, root>>
  BY <1>6 DEF Send, issuerVars
<1>7. Tick \/ UNCHANGED vars => UNCHANGED <<minted, mintedAt, root>>
  BY DEF Tick, vars, issuerVars
<1> QED
  BY <1>1, <1>2, <1>3, <1>4, <1>5, <1>6, <1>7 DEF Next

(* Where a token that a request is served with comes from.                   *)
Source(r) == exchange[sent[r].proc][sent[r].carried]

TokenStep(r) ==
  \/ token'[r] = token[r]
  \/ token'[r] = NoPair
  \/ /\ stage[r] = "arriving"
     /\ Unspent(sent[r].carried)
     /\ token'[r] = sent[r].carried
  \/ /\ stage[r] \in {"arriving", "exchanging"}
     /\ sent[r].carried \in Pair
     /\ Source(r).status \in {"kept", "answered"}
     /\ token'[r] = Source(r).pair

LEMMA TokenFrame ==
  ASSUME TypeOK, Work, NEW r \in Request
  PROVE  TokenStep(r)
<1> USE DEF TypeOK
<1>1. \A k, n : TokenAfter(k, n) \in {n, NoPair}
  BY DEF TokenAfter
<1>2. sent[r].carried # NoPair => sent[r].carried \in Pair
  BY DEF SentRecord
<1>3. ASSUME NEW s \in Request, RefreshOnce(s), stage[s] = "arriving",
             sent[s].carried # NoPair
      PROVE  \/ token'[r] = token[r]
             \/ token'[r] = NoPair
             \/ /\ stage[r] = "arriving"
                /\ sent[r].carried # NoPair
                /\ Source(r).status = "kept"
                /\ token'[r] = Source(r).pair
  BY <1>1, <1>3 DEF RefreshOnce, Source
<1>4. ASSUME NEW s \in Request, HandleGuard(s) PROVE TokenStep(r)
  BY <1>1, <1>2, <1>3, <1>4 DEF HandleGuard, TokenStep
<1>5. ASSUME NEW s \in Request, HandleRelay(s) PROVE TokenStep(r)
  BY <1>2, <1>3, <1>5 DEF HandleRelay, TokenStep
<1>6. ASSUME NEW s \in Request, HandleCallback(s) \/ HandleLogout(s) \/ Upstream(s)
      PROVE TokenStep(r)
  BY <1>6 DEF HandleCallback, HandleLogout, Upstream, UpstreamAnswers, UpstreamFails, TokenStep
<1>7. ASSUME NEW p \in Process, NEW t \in Pair, IssuerAnswers(p, t) \/ Forget(p, t)
      PROVE TokenStep(r)
  BY <1>7 DEF IssuerAnswers, Forget, requestVars, TokenStep
<1>8. ASSUME NEW p \in Process, NEW t \in Pair, NEW n, Resolve(p, t, n),
             \/ n = NoPair
             \/ exchange[p][t].status = "answered" /\ n = exchange[p][t].pair
      PROVE TokenStep(r)
  BY <1>1, <1>8 DEF Resolve, Waits, Source, TokenStep
<1>9. ASSUME NEW p \in Process, NEW t \in Pair, Exchange(p, t) PROVE TokenStep(r)
  BY <1>8, <1>9 DEF Exchange, Settle, ExchangeFails
<1> QED
  BY <1>4, <1>5, <1>6, <1>7, <1>9 DEF Work, Handle

-----------------------------------------------------------------------------
(* The inductive invariant. *)

(* The pairs somebody holds were minted.                                     *)
MintedInv ==
  /\ \A b \in Browser : jar[b] <= minted
  /\ \A r \in Request :
       sent[r].carried <= minted /\ token[r] <= minted /\ set[r] <= minted
  /\ \A p \in Process, t \in Pair : exchange[p][t].pair <= minted

(* No request outlives MaxFlight.                                            *)
FlightInv ==
  \A r \in Request :
    stage[r] # "idle" => sent[r].at <= now /\ now <= sent[r].at + MaxFlight

(* An exchange under way has a request waiting on it that was sent before it *)
(* started, and answers with a pair minted since.                            *)
AskedInv ==
  \A p \in Process, t \in Pair :
    exchange[p][t].status \in {"asked", "answered"} =>
      /\ exchange[p][t].since <= now
      /\ \E r \in Request : Waits(r, p, t) /\ sent[r].at <= exchange[p][t].since
      /\ exchange[p][t].pair # NoPair =>
           exchange[p][t].since <= mintedAt[exchange[p][t].pair]

(* A kept answer was minted at most MaxFlight before it settled, and is kept *)
(* no longer than Retain.                                                    *)
KeptInv ==
  \A p \in Process, t \in Pair :
    exchange[p][t].status = "kept" =>
      /\ exchange[p][t].pair # NoPair
      /\ exchange[p][t].since <= mintedAt[exchange[p][t].pair] + MaxFlight
      /\ now <= exchange[p][t].since + Retain

(* A token served is live for as long as the request may last.               *)
ServedInv ==
  \A r \in Request :
    token[r] # NoPair =>
      /\ stage[r] # "idle"
      /\ sent[r].at + MaxFlight < mintedAt[token[r]] + AccessTtl

IInv == TypeOK /\ MintedInv /\ FlightInv /\ AskedInv /\ KeptInv /\ ServedInv

(* What a request's response sets: nothing, the token it is served with, or  *)
(* the pair just minted for it.                                              *)
LEMMA SetFrame ==
  ASSUME TypeOK, Work, NEW r \in Request
  PROVE  set'[r] \in {set[r], NoPair, token[r], token'[r], minted'}
<1> USE DEF TypeOK
<1>1. \A k, n : SetAfter(k, n) \in {NoPair, TokenAfter(k, n)}
  BY DEF SetAfter
<1>2. ASSUME NEW s \in Request, RefreshOnce(s)
      PROVE set'[r] \in {set[r], NoPair, token[r], token'[r], minted'}
  BY <1>1, <1>2 DEF RefreshOnce
<1>3. ASSUME NEW s \in Request, Handle(s) \/ Upstream(s)
      PROVE set'[r] \in {set[r], NoPair, token[r], token'[r], minted'}
  BY <1>2, <1>3 DEF Handle, HandleGuard, HandleRelay, HandleCallback, HandleLogout,
                    Upstream, UpstreamAnswers, UpstreamFails
<1>4. ASSUME NEW p \in Process, NEW t \in Pair, IssuerAnswers(p, t) \/ Forget(p, t)
      PROVE set'[r] = set[r]
  BY <1>4 DEF IssuerAnswers, Forget, requestVars
<1>5. ASSUME NEW p \in Process, NEW t \in Pair, Exchange(p, t)
      PROVE set'[r] \in {set[r], NoPair, token[r], token'[r], minted'}
  BY <1>1, <1>5 DEF Exchange, Settle, ExchangeFails, Resolve
<1> QED
  BY <1>3, <1>4, <1>5 DEF Work

(* What a step of the server side does to an exchange.                       *)
ExchangeStep(p, t) ==
  LET e == exchange[p][t]
      f == exchange'[p][t]
  IN \/ f = e
     \/ f = Absent
     \/ /\ e.status = "absent"
        /\ f = [status |-> "asked", pair |-> NoPair, since |-> now]
        /\ \E r \in Request :
             /\ sent[r].proc = p /\ sent[r].carried = t
             /\ stage[r] = "arriving" /\ stage'[r] = "exchanging"
     \/ /\ e.status = "asked"
        /\ f.status = "answered" /\ f.since = e.since
        /\ \/ f.pair = NoPair
           \/ f.pair = minted + 1 /\ minted' = minted + 1 /\ mintedAt'[minted + 1] = now
     \/ /\ e.status = "answered" /\ e.pair # NoPair
        /\ f = [status |-> "kept", pair |-> e.pair, since |-> now]

LEMMA ExchangeFrame ==
  ASSUME TypeOK, Work, NEW p \in Process, NEW t \in Pair
  PROVE  ExchangeStep(p, t)
<1> USE DEF TypeOK
<1>1. ASSUME NEW r \in Request, RefreshOnce(r), stage[r] = "arriving",
             sent[r].carried # NoPair
      PROVE ExchangeStep(p, t)
  <2>1. sent[r].proc \in Process /\ sent[r].carried \in Pair
    BY <1>1 DEF SentRecord
  <2>2. CASE UNCHANGED exchange
    BY <2>2 DEF ExchangeStep
  <2>3. CASE /\ exchange[sent[r].proc][sent[r].carried].status = "absent"
             /\ stage' = [stage EXCEPT ![r] = "exchanging"]
             /\ exchange' = [exchange EXCEPT ![sent[r].proc][sent[r].carried] =
                               [status |-> "asked", pair |-> NoPair, since |-> now]]
    <3>1. CASE p = sent[r].proc /\ t = sent[r].carried
      BY <1>1, <2>1, <2>3, <3>1 DEF ExchangeStep
    <3>2. CASE ~(p = sent[r].proc /\ t = sent[r].carried)
      BY <2>1, <2>3, <3>2 DEF ExchangeStep
    <3> QED
      BY <3>1, <3>2
  <2> QED
    BY <1>1, <2>2, <2>3 DEF RefreshOnce
<1>2. ASSUME NEW r \in Request, Handle(r) \/ Upstream(r)
      PROVE (RefreshOnce(r) /\ stage[r] = "arriving" /\ sent[r].carried # NoPair) \/ UNCHANGED exchange
  BY <1>2 DEF Handle, HandleGuard, HandleRelay, HandleCallback, HandleLogout,
                    Upstream, UpstreamAnswers, UpstreamFails
<1>3. UNCHANGED exchange => ExchangeStep(p, t)
  BY DEF ExchangeStep
<1>4. ASSUME NEW q \in Process, NEW u \in Pair, IssuerAnswers(q, u)
      PROVE ExchangeStep(p, t)
  <2>1. CASE p = q /\ t = u
    <3>1. CASE /\ minted < MaxPairs
               /\ minted' = minted + 1
               /\ mintedAt' = [mintedAt EXCEPT ![minted + 1] = now]
               /\ exchange' = [exchange EXCEPT ![q][u] =
                          [status |-> "answered", pair |-> minted + 1,
                           since |-> exchange[q][u].since]]
      <4>0. mintedAt \in [Pair -> Nat] /\ minted \in 0..MaxPairs
        BY DEF TypeOK
      <4>1. minted + 1 \in Pair
        BY ONLY <4>0, <3>1, TimingAssumption, SMTT(30) DEF Pair
      <4>1a. mintedAt'[minted + 1] = now
        BY ONLY <3>1, <4>0, <4>1
      <4>2. exchange'[p][t] = [status |-> "answered", pair |-> minted + 1,
                               since |-> exchange[p][t].since]
        BY <2>1, <3>1
      <4> QED
        BY <2>1, <3>1, <4>1a, <4>2, <1>4 DEF ExchangeStep, IssuerAnswers
    <3>2. CASE exchange' = [exchange EXCEPT ![q][u] =
                          [status |-> "answered", pair |-> NoPair,
                           since |-> exchange[q][u].since]]
      <4>2. exchange'[p][t] = [status |-> "answered", pair |-> NoPair,
                               since |-> exchange[p][t].since]
        BY <2>1, <3>2
      <4> QED
        BY <2>1, <4>2, <1>4 DEF ExchangeStep, IssuerAnswers
    <3> QED
      BY <3>1, <3>2, <1>4 DEF IssuerAnswers
  <2>2. CASE ~(p = q /\ t = u)
    <3>1. exchange'[p][t] = exchange[p][t]
      <4>1. \E e : exchange' = [exchange EXCEPT ![q][u] = e]
        BY <1>4 DEF IssuerAnswers
      <4> QED
        BY <2>2, <4>1
    <3> QED
      BY <3>1 DEF ExchangeStep
  <2> QED
    BY <2>1, <2>2
<1>5. ASSUME NEW q \in Process, NEW u \in Pair, Exchange(q, u) \/ Forget(q, u)
      PROVE ExchangeStep(p, t)
  <2>1. \/ exchange' = [exchange EXCEPT ![q][u] = Absent]
        \/ /\ exchange[q][u].status = "answered" /\ exchange[q][u].pair # NoPair
           /\ exchange' = [exchange EXCEPT ![q][u] =
                 [status |-> "kept", pair |-> exchange[q][u].pair, since |-> now]]
    BY <1>5 DEF Exchange, Settle, ExchangeFails, Resolve, Forget
  <2> QED
    BY <2>1 DEF ExchangeStep
<1> QED
  BY <1>1, <1>2, <1>3, <1>4, <1>5 DEF Work

(* A request keeps waiting as long as its exchange is under way.             *)
LEMMA WaitFrame ==
  ASSUME TypeOK, Work, NEW p \in Process, NEW t \in Pair, NEW r \in Request,
         Waits(r, p, t), exchange'[p][t].status \in {"asked", "answered"}
  PROVE  Waits(r, p, t)'
<1> USE DEF TypeOK
<1>1. sent' = sent
  BY WorkFrame
<1>2. ASSUME NEW s \in Request, Handle(s) \/ Upstream(s) PROVE stage'[r] = stage[r]
  <2>1. stage[s] # "exchanging" /\ \E v : stage' = [stage EXCEPT ![s] = v]
    BY <1>2 DEF Handle, HandleGuard, HandleRelay, HandleCallback, HandleLogout, RefreshOnce,
                Upstream, UpstreamAnswers, UpstreamFails
  <2> QED
    BY <2>1 DEF Waits
<1>3. ASSUME NEW q \in Process, NEW u \in Pair, IssuerAnswers(q, u) \/ Forget(q, u)
      PROVE stage'[r] = stage[r]
  BY <1>3 DEF IssuerAnswers, Forget, requestVars
<1>4. ASSUME NEW q \in Process, NEW u \in Pair, Exchange(q, u) PROVE stage'[r] = stage[r]
  <2>1. \/ exchange' = [exchange EXCEPT ![q][u] = Absent]
        \/ exchange' = [exchange EXCEPT ![q][u] =
              [status |-> "kept", pair |-> exchange[q][u].pair, since |-> now]]
    BY <1>4 DEF Exchange, Settle, ExchangeFails, Resolve
  <2>2. exchange'[q][u].status \notin {"asked", "answered"}
    BY <2>1 DEF Absent
  <2>3. ~Waits(r, q, u)
    BY <2>2 DEF Waits
  <2> QED
    BY <1>4, <2>3 DEF Exchange, Settle, ExchangeFails, Resolve
<1> QED
  BY <1>1, <1>2, <1>3, <1>4 DEF Work, Waits

LEMMA PairType ==
  /\ Pair \subseteq Nat /\ NoPair \in Nat /\ NoPair \notin Pair
  /\ \A n \in Nat : NoPair <= n
  BY TimingAssumption DEF Pair, NoPair

LEMMA MintedStep == IInv /\ [Next]_vars => MintedInv'
<1> SUFFICES ASSUME IInv, [Next]_vars PROVE MintedInv'
  OBVIOUS
<1> USE DEF IInv, MintedInv
<1>a. TypeOK /\ TypeOK'
  BY TypeStep
<1>0. minted \in Nat /\ minted' \in Nat /\ minted <= minted'
  BY <1>a, MintFrame, PairType DEF TypeOK
<1>b. ASSUME NEW n \in {NoPair} \cup Pair, n <= minted PROVE n <= minted'
  BY <1>b, <1>0, PairType
<1>d. NoPair <= minted' /\ minted' <= minted'
  BY <1>0, PairType
<1>c. \A r \in Request : /\ sent[r].carried \in {NoPair} \cup Pair
                        /\ token[r] \in {NoPair} \cup Pair
                        /\ set[r] \in {NoPair} \cup Pair
  BY <1>a DEF TypeOK, SentRecord
<1>1. ASSUME NEW r \in Request, NEW b \in Browser, NEW k \in Kind,
             NEW p \in Process, Send(r, b, k, p)
      PROVE MintedInv'
  BY <1>1, <1>a DEF Send, issuerVars, TypeOK
<1>2. ASSUME NEW r \in Request, Deliver(r) PROVE MintedInv'
  BY <1>2, <1>a, <1>0, PairType DEF Deliver, issuerVars, TypeOK, Unsent
<1>3. CASE Work
  <2>1. ASSUME NEW b \in Browser PROVE jar'[b] <= minted'
    BY <1>a, <1>b, <1>3, WorkFrame DEF TypeOK
  <2>2. ASSUME NEW r \in Request
        PROVE sent'[r].carried <= minted' /\ token'[r] <= minted' /\ set'[r] <= minted'
    <3>1. sent'[r].carried <= minted'
      BY <1>a, <1>b, <1>c, <1>3, WorkFrame
    <3>2. token'[r] <= minted'
      <4>1. ASSUME sent[r].carried \in Pair
            PROVE  Source(r).pair \in {NoPair} \cup Pair /\ Source(r).pair <= minted
        <5>1. sent[r].proc \in Process
          BY <1>a DEF TypeOK, SentRecord
        <5>2. Source(r) \in ExchangeRecord /\ Source(r).pair <= minted
          BY <4>1, <5>1, <1>a DEF Source, TypeOK
        <5> QED
          BY <5>2 DEF ExchangeRecord
      <4>2. TokenStep(r)
        BY <1>a, <1>3, TokenFrame
      <4>3. NoPair <= minted'
        BY <1>0, PairType
      <4>4. token[r] <= minted' /\ sent[r].carried <= minted'
        BY <1>b, <1>c
      <4>5. sent[r].carried \in Pair => Source(r).pair <= minted'
        BY <4>1, <1>b
      <4> QED
        BY <4>2, <4>3, <4>4, <4>5 DEF TokenStep
    <3>3. set'[r] <= minted'
      <4>1. set'[r] \in {set[r], NoPair, token[r], token'[r], minted'}
        BY <1>a, <1>3, SetFrame
      <4>2. set[r] <= minted' /\ token[r] <= minted' /\ NoPair <= minted' /\ minted' <= minted'
        <5>1. set[r] <= minted /\ token[r] <= minted
          OBVIOUS
        <5> QED
          BY <5>1, <1>b, <1>c, <1>d, Zenon
      <4> QED
        BY <4>1, <4>2, <3>2
    <3> QED
      BY <3>1, <3>2, <3>3
  <2>3. ASSUME NEW p \in Process, NEW t \in Pair
        PROVE exchange'[p][t].pair <= minted'
    <3>1. exchange[p][t].pair \in {NoPair} \cup Pair /\ exchange[p][t].pair <= minted
      BY <1>a DEF TypeOK, ExchangeRecord
    <3>2. exchange[p][t].pair <= minted' /\ NoPair <= minted' /\ minted' <= minted'
      BY <3>1, <1>b, <1>d, Zenon
    <3>3. ExchangeStep(p, t)
      BY <1>a, <1>3, ExchangeFrame
    <3>4. exchange'[p][t].pair \in {exchange[p][t].pair, NoPair, minted'}
      BY <3>3 DEF ExchangeStep, Absent
    <3> QED
      BY <3>2, <3>4
  <2> QED
    BY <2>1, <2>2, <2>3
<1>4. CASE Tick
  BY <1>4 DEF Tick, issuerVars, requestVars
<1>5. CASE UNCHANGED vars
  BY <1>5 DEF vars, issuerVars, requestVars
<1> QED
  BY <1>1, <1>2, <1>3, <1>4, <1>5, NextCases

LEMMA FlightStep == IInv /\ [Next]_vars => FlightInv'
<1> SUFFICES ASSUME IInv, [Next]_vars PROVE FlightInv'
  OBVIOUS
<1> USE TimingAssumption DEF IInv, FlightInv, TypeOK
<1>1. ASSUME NEW r \in Request, NEW b \in Browser, NEW k \in Kind,
             NEW p \in Process, Send(r, b, k, p)
      PROVE FlightInv'
  BY <1>1 DEF Send
<1>2. ASSUME NEW r \in Request, Deliver(r) PROVE FlightInv'
  BY <1>2 DEF Deliver
<1>3. CASE Work
  BY <1>3, WorkFrame
<1>4. CASE Tick
  BY <1>4 DEF Tick, requestVars, SentRecord
<1>5. CASE UNCHANGED vars
  BY <1>5 DEF vars, requestVars
<1> QED
  BY <1>1, <1>2, <1>3, <1>4, <1>5, NextCases

LEMMA AskedStep == IInv /\ [Next]_vars => AskedInv'
<1> SUFFICES ASSUME IInv, [Next]_vars,
                    NEW p \in Process, NEW t \in Pair,
                    exchange'[p][t].status \in {"asked", "answered"}
             PROVE  /\ exchange'[p][t].since <= now'
                    /\ \E r \in Request : /\ Waits(r, p, t)'
                                           /\ sent'[r].at <= exchange'[p][t].since
                    /\ exchange'[p][t].pair # NoPair =>
                         exchange'[p][t].since <= mintedAt'[exchange'[p][t].pair]
  BY DEF AskedInv
<1> DEFINE e == exchange[p][t]
           f == exchange'[p][t]
<1>0. /\ TypeOK /\ e \in ExchangeRecord /\ e.pair <= minted /\ now \in Nat
      /\ e.since \in Nat /\ e.pair \in {NoPair} \cup Pair
  BY DEF IInv, TypeOK, MintedInv, ExchangeRecord
<1>a. ASSUME e.status \in {"asked", "answered"}
      PROVE  /\ e.since <= now
             /\ \E r \in Request : Waits(r, p, t) /\ sent[r].at <= e.since
             /\ e.pair # NoPair => e.since <= mintedAt[e.pair]
  BY <1>a DEF IInv, AskedInv
<1>1. ASSUME UNCHANGED <<exchange, mintedAt>>, now' \in {now, now + 1},
             \A r \in Request : Waits(r, p, t) => Waits(r, p, t)' /\ sent'[r] = sent[r]
      PROVE  /\ f.since <= now'
             /\ \E r \in Request : Waits(r, p, t)' /\ sent'[r].at <= f.since
             /\ f.pair # NoPair => f.since <= mintedAt'[f.pair]
  <2>1. f = e /\ f.status \in {"asked", "answered"}
    BY <1>1
  <2>2. PICK r \in Request : Waits(r, p, t) /\ sent[r].at <= e.since
    BY <2>1, <1>a
  <2>3. Waits(r, p, t)' /\ sent'[r].at <= f.since
    BY <2>1, <2>2, <1>1
  <2>4. e.since <= now'
    BY <1>0, <1>1, <1>a, <2>1
  <2>5. e.pair # NoPair => e.since <= mintedAt'[e.pair]
    BY <1>1, <1>a, <2>1
  <2> QED
    BY <2>1, <2>3, <2>4, <2>5
<1>2. ASSUME NEW r \in Request, NEW b \in Browser, NEW k \in Kind,
             NEW q \in Process, Send(r, b, k, q)
      PROVE  /\ UNCHANGED <<exchange, mintedAt, now>>
             /\ \A s \in Request : Waits(s, p, t) => Waits(s, p, t)' /\ sent'[s] = sent[s]
  BY <1>0, <1>2 DEF Send, issuerVars, Waits, TypeOK
<1>3. ASSUME NEW r \in Request, Deliver(r)
      PROVE  /\ UNCHANGED <<exchange, mintedAt, now>>
             /\ \A s \in Request : Waits(s, p, t) => Waits(s, p, t)' /\ sent'[s] = sent[s]
  BY <1>0, <1>3 DEF Deliver, issuerVars, Waits, TypeOK
<1>4. CASE Tick
  BY <1>1, <1>4 DEF Tick, issuerVars, requestVars, Waits
<1>5. CASE UNCHANGED vars
  BY <1>1, <1>5 DEF vars, issuerVars, requestVars, Waits
<1>6. CASE Work
  <2>1. now' = now /\ sent' = sent /\ ExchangeStep(p, t)
    BY <1>0, <1>6, WorkFrame, ExchangeFrame
  <2>a. f.status \in {"asked", "answered"}
    OBVIOUS
  <2>2. CASE f = e \/ (e.status = "asked" /\ f.status = "answered" /\ f.since = e.since)
    <3>0. e.status \in {"asked", "answered"} /\ f.since = e.since
      BY <2>2, <2>a
    <3>1. PICK r \in Request : Waits(r, p, t) /\ sent[r].at <= e.since
      BY <3>0, <1>a
    <3>2. Waits(r, p, t)'
      BY <3>1, <1>0, <1>6, <2>a, WaitFrame
    <3>3. e.since <= now /\ (e.pair # NoPair => e.since <= mintedAt[e.pair])
      BY <3>0, <1>a
    <3>4. ASSUME f = e, f.pair # NoPair PROVE f.since <= mintedAt'[f.pair]
      <4>1. e.pair \in Pair /\ mintedAt'[e.pair] = mintedAt[e.pair]
        BY <3>4, <1>0, MintFrame
      <4> QED
        BY <3>3, <3>4, <4>1
    <3>5. ASSUME f # e, f.pair # NoPair PROVE f.since <= mintedAt'[f.pair]
      <4>1. e.status = "asked" /\ f.status = "answered"
        BY <2>2, <3>5
      <4>2. f.pair = minted + 1 /\ mintedAt'[minted + 1] = now
        BY <2>1, <3>5, <4>1 DEF ExchangeStep, Absent
      <4> QED
        BY <3>0, <3>3, <4>2
    <3>6. f.since <= now' /\ sent'[r].at <= f.since
      BY <2>1, <3>0, <3>1, <3>3
    <3> QED
      BY <3>2, <3>4, <3>5, <3>6
  <2>3. CASE f = [status |-> "asked", pair |-> NoPair, since |-> now] /\ e.status = "absent"
    <3>1. PICK r \in Request : sent[r].proc = p /\ sent[r].carried = t
                               /\ stage[r] = "arriving" /\ stage'[r] = "exchanging"
      BY <2>1, <2>3 DEF ExchangeStep, Absent
    <3>2. sent[r].at <= now
      BY <3>1 DEF IInv, FlightInv
    <3>3. Waits(r, p, t)'
      BY <2>1, <3>1 DEF Waits
    <3>4. f.since = now /\ f.pair = NoPair /\ now <= now
      BY <2>3, <1>0
    <3> QED
      BY <2>1, <3>2, <3>3, <3>4
  <2> QED
    BY <2>1, <2>2, <2>3 DEF ExchangeStep, Absent
<1> QED
  BY <1>1, <1>2, <1>3, <1>4, <1>5, <1>6, NextCases

LEMMA KeptStep == IInv /\ [Next]_vars => KeptInv'
<1> SUFFICES ASSUME IInv, [Next]_vars,
                    NEW p \in Process, NEW t \in Pair,
                    exchange'[p][t].status = "kept"
             PROVE  /\ exchange'[p][t].pair # NoPair
                    /\ exchange'[p][t].since <= mintedAt'[exchange'[p][t].pair] + MaxFlight
                    /\ now' <= exchange'[p][t].since + Retain
  BY DEF KeptInv
<1> DEFINE e == exchange[p][t]
           f == exchange'[p][t]
<1>0. /\ TypeOK /\ e.pair <= minted /\ now \in Nat /\ e.since \in Nat
      /\ e.pair \in {NoPair} \cup Pair
      /\ \A n \in Pair : mintedAt[n] \in Nat
  BY DEF IInv, TypeOK, MintedInv, ExchangeRecord
<1>1. ASSUME f = e, mintedAt' = mintedAt \/ Work, now' = now \/ Tick
      PROVE  /\ f.pair # NoPair
             /\ f.since <= mintedAt'[f.pair] + MaxFlight
             /\ now' <= f.since + Retain
  <2>1. e.pair # NoPair /\ e.since <= mintedAt[e.pair] + MaxFlight /\ now <= e.since + Retain
    BY <1>1 DEF IInv, KeptInv
  <2>2. mintedAt'[e.pair] = mintedAt[e.pair]
    BY <2>1, <1>0, MintFrame
  <2>3. now' <= e.since + Retain
    <3>1. CASE Tick
      <4>1. now < e.since + Retain /\ now' = now + 1
        BY <3>1, <1>1 DEF Tick
      <4> QED
        BY <4>1, <1>0, TimingAssumption
    <3> QED
      BY <3>1, <2>1, <1>1
  <2> QED
    BY <2>1, <2>2, <2>3, <1>1
<1>2. CASE Work
  <2>1. now' = now /\ ExchangeStep(p, t)
    BY <1>0, <1>2, WorkFrame, ExchangeFrame
  <2>2. CASE f = [status |-> "kept", pair |-> e.pair, since |-> now]
             /\ e.status = "answered" /\ e.pair # NoPair
    <3>1. PICK r \in Request : Waits(r, p, t) /\ sent[r].at <= e.since
      BY <2>2 DEF IInv, AskedInv
    <3>2. e.since <= mintedAt[e.pair]
      BY <2>2 DEF IInv, AskedInv
    <3>3. now <= sent[r].at + MaxFlight
      BY <3>1 DEF IInv, FlightInv, Waits
    <3>4. e.pair \in Pair /\ mintedAt'[e.pair] = mintedAt[e.pair]
      BY <2>2, <1>0, MintFrame
    <3>5. sent[r].at \in Nat
      BY <1>0 DEF TypeOK, SentRecord
    <3>6. mintedAt[e.pair] \in Nat
      BY <3>4, <1>0
    <3>7. now <= mintedAt[e.pair] + MaxFlight
      BY <3>1, <3>2, <3>3, <3>5, <3>6, <1>0, TimingAssumption
    <3>8. now <= now + Retain
      BY <1>0, TimingAssumption
    <3> QED
      BY <2>1, <2>2, <3>4, <3>7, <3>8
  <2> QED
    BY <2>1, <2>2, <1>1, <1>2 DEF ExchangeStep, Absent
<1>3. ASSUME NEW r \in Request, NEW b \in Browser, NEW k \in Kind,
             NEW q \in Process, Send(r, b, k, q)
      PROVE f = e /\ mintedAt' = mintedAt /\ now' = now
  BY <1>3 DEF Send, issuerVars
<1>4. ASSUME NEW r \in Request, Deliver(r)
      PROVE f = e /\ mintedAt' = mintedAt /\ now' = now
  BY <1>4 DEF Deliver, issuerVars
<1>5. CASE Tick
  BY <1>1, <1>5 DEF Tick, issuerVars
<1>6. CASE UNCHANGED vars
  BY <1>1, <1>6 DEF vars, issuerVars
<1> QED
  BY <1>1, <1>2, <1>3, <1>4, <1>5, <1>6, NextCases

LEMMA ServedStep == IInv /\ [Next]_vars => ServedInv'
<1> SUFFICES ASSUME IInv, [Next]_vars, NEW r \in Request, token'[r] # NoPair
             PROVE  /\ stage'[r] # "idle"
                    /\ sent'[r].at + MaxFlight < mintedAt'[token'[r]] + AccessTtl
  BY DEF ServedInv
<1>0. /\ TypeOK /\ TypeOK' /\ now \in Nat /\ sent[r].at \in Nat
      /\ sent[r].proc \in Process /\ sent[r].carried \in {NoPair} \cup Pair
      /\ sent[r].carried <= minted /\ token[r] <= minted
      /\ token[r] \in {NoPair} \cup Pair
      /\ \A n \in Pair : mintedAt[n] \in Nat
  BY TypeStep DEF IInv, TypeOK, MintedInv, SentRecord
<1>1. ASSUME token[r] # NoPair, token'[r] = token[r], sent'[r] = sent[r],
             stage[r] # "idle" => stage'[r] # "idle"
      PROVE  /\ stage'[r] # "idle"
             /\ sent'[r].at + MaxFlight < mintedAt'[token'[r]] + AccessTtl
  <2>1. stage[r] # "idle" /\ sent[r].at + MaxFlight < mintedAt[token[r]] + AccessTtl
    BY <1>1 DEF IInv, ServedInv
  <2>2. mintedAt'[token[r]] = mintedAt[token[r]]
    BY <1>0, <1>1, MintFrame
  <2> QED
    BY <1>1, <2>1, <2>2
<1>2. ASSUME NEW s \in Request, NEW b \in Browser, NEW k \in Kind,
             NEW q \in Process, Send(s, b, k, q)
      PROVE token'[r] = token[r] /\ sent'[r] = sent[r] /\ stage'[r] = stage[r]
  <2>1. r # s
    BY <1>2 DEF Send, IInv, ServedInv
  <2> QED
    BY <1>0, <1>2, <2>1 DEF Send, TypeOK
<1>3. ASSUME NEW s \in Request, Deliver(s)
      PROVE token'[r] = token[r] /\ sent'[r] = sent[r] /\ stage'[r] = stage[r]
  BY <1>0, <1>3 DEF Deliver, TypeOK
<1>4. CASE Tick \/ UNCHANGED vars
  BY <1>1, <1>4 DEF Tick, vars, requestVars
<1>5. CASE Work
  <2>1. /\ now' = now /\ sent' = sent /\ (stage'[r] = "idle" <=> stage[r] = "idle")
        /\ TokenStep(r)
    BY <1>0, <1>5, WorkFrame, TokenFrame
  <2>2. CASE token'[r] = token[r]
    BY <1>1, <2>1, <2>2
  <2>3. CASE stage[r] = "arriving" /\ Unspent(sent[r].carried) /\ token'[r] = sent[r].carried
    <3>1. now + Skew < mintedAt[sent[r].carried] + AccessTtl /\ sent[r].carried \in Pair
      BY <1>0, <2>3 DEF Unspent
    <3>2. mintedAt'[sent[r].carried] = mintedAt[sent[r].carried]
          /\ mintedAt[sent[r].carried] \in Nat
      BY <1>0, <3>1, MintFrame
    <3>3. sent[r].at <= now
      BY <2>3 DEF IInv, FlightInv
    <3>4. sent[r].at + MaxFlight < mintedAt[sent[r].carried] + AccessTtl
      BY <1>0, <3>1, <3>2, <3>3, TimingAssumption
    <3> QED
      BY <2>1, <2>3, <3>2, <3>4
  <2>4. CASE /\ stage[r] \in {"arriving", "exchanging"}
             /\ sent[r].carried \in Pair
             /\ Source(r).status \in {"kept", "answered"}
             /\ token'[r] = Source(r).pair
    <3> DEFINE n == Source(r).pair
    <3>1. /\ n \in Pair /\ n <= minted /\ Source(r).since \in Nat
      BY <1>0, <2>4 DEF Source, TypeOK, ExchangeRecord, IInv, MintedInv
    <3>2. mintedAt'[n] = mintedAt[n] /\ mintedAt[n] \in Nat
      BY <1>0, <3>1, MintFrame
    <3>3. sent[r].at <= now
      BY <2>4 DEF IInv, FlightInv
    <3>4. CASE Source(r).status = "kept"
      <4>1. Source(r).since <= mintedAt[n] + MaxFlight /\ now <= Source(r).since + Retain
        BY <1>0, <2>4, <3>4 DEF Source, IInv, KeptInv
      <4>2. sent[r].at + MaxFlight < mintedAt[n] + AccessTtl
        BY <1>0, <3>1, <3>2, <3>3, <4>1, TimingAssumption
      <4> QED
        BY <2>1, <2>4, <3>2, <4>2
    <3>5. CASE Source(r).status = "answered"
      <4>1. PICK s \in Request : Waits(s, sent[r].proc, sent[r].carried)
                                 /\ sent[s].at <= Source(r).since
        BY <1>0, <2>4, <3>5 DEF Source, IInv, AskedInv
      <4>2. Source(r).since <= mintedAt[n]
        BY <1>0, <2>4, <3>5 DEF Source, IInv, AskedInv
      <4>3. now <= sent[s].at + MaxFlight
        BY <4>1 DEF IInv, FlightInv, Waits
      <4>4. sent[s].at \in Nat
        BY <1>0 DEF TypeOK, SentRecord
      <4>5. sent[r].at + MaxFlight < mintedAt[n] + AccessTtl
        BY <1>0, <3>1, <3>2, <3>3, <4>1, <4>2, <4>3, <4>4, TimingAssumption
      <4> QED
        BY <2>1, <2>4, <3>2, <4>5
    <3> QED
      BY <2>4, <3>4, <3>5
  <2> QED
    BY <2>1, <2>2, <2>3, <2>4 DEF TokenStep
<1> QED
  BY <1>1, <1>2, <1>3, <1>4, <1>5, NextCases

LEMMA IInvInit == Init => IInv
<1> SUFFICES ASSUME Init PROVE IInv
  OBVIOUS
<1>1. TypeOK
  BY TypeInit
<1>2. MintedInv
  <2>1. minted = 0 /\ NoPair <= 0 /\ \A b \in Browser : jar[b] = NoPair
    BY DEF Init, NoPair
  <2>2. \A r \in Request :
          sent[r].carried = NoPair /\ token[r] = NoPair /\ set[r] = NoPair
    BY DEF Init, Unsent
  <2>3. \A p \in Process, t \in Pair : exchange[p][t].pair = NoPair
    BY DEF Init, Absent
  <2> QED
    BY <2>1, <2>2, <2>3 DEF MintedInv
<1>3. FlightInv /\ AskedInv /\ KeptInv /\ ServedInv
  BY DEF Init, FlightInv, AskedInv, KeptInv, ServedInv, Absent
<1> QED
  BY <1>1, <1>2, <1>3 DEF IInv

LEMMA IInvStep == IInv /\ [Next]_vars => IInv'
  BY TypeStep, MintedStep, FlightStep, AskedStep, KeptStep, ServedStep DEF IInv

LEMMA Inductive == Spec => []IInv
  BY IInvInit, IInvStep, PTL DEF Spec

(* A request is served on a token that stays unexpired for as long as the    *)
(* request lasts, also when the token is another request's kept answer       *)
(* (createSessionGuard, relay, refreshOnce).                                 *)
THEOREM ServedTokensAreLive == Spec => []ServedTokenLive
<1>1. IInv => ServedTokenLive
  <2> SUFFICES ASSUME IInv, NEW r \in Request, token[r] # NoPair
               PROVE  now < mintedAt[token[r]] + AccessTtl
    BY DEF ServedTokenLive
  <2>1. token[r] \in Pair /\ mintedAt[token[r]] \in Nat /\ sent[r].at \in Nat /\ now \in Nat
    BY DEF IInv, TypeOK, SentRecord
  <2>2. stage[r] # "idle" /\ sent[r].at + MaxFlight < mintedAt[token[r]] + AccessTtl
    BY DEF IInv, ServedInv
  <2>3. now <= sent[r].at + MaxFlight
    BY <2>2 DEF IInv, FlightInv
  <2> QED
    BY <2>1, <2>2, <2>3, TimingAssumption
<1> QED
  BY <1>1, Inductive, PTL

-----------------------------------------------------------------------------
(* Every chain keeps to itself, and the gate to its floor. *)

(* What an exchange answered descends from the token it was asked for.       *)
DescendsInv ==
  \A p \in Process, t \in Pair :
    exchange[p][t].pair # NoPair =>
      t <= minted /\ root[exchange[p][t].pair] = root[t]

ChainInv == IInv /\ DescendsInv /\ SameChain

(* A pair that enters an exchange was minted for its token.                  *)
LEMMA RootFrame ==
  ASSUME TypeOK, Work, NEW p \in Process, NEW t \in Pair,
         exchange'[p][t].pair # exchange[p][t].pair, exchange'[p][t].pair # NoPair
  PROVE  /\ exchange[p][t].status = "asked"
         /\ root'[exchange'[p][t].pair] = root[t]
<1>1. ExchangeStep(p, t)
  BY ExchangeFrame
<1>2. exchange[p][t].status = "asked" /\ exchange'[p][t].pair = minted + 1
  BY <1>1 DEF ExchangeStep, Absent
<1>3. ASSUME NEW q \in Process, NEW u \in Pair, IssuerAnswers(q, u)
      PROVE  root'[minted + 1] = root[t]
  <2>1. \E e : exchange' = [exchange EXCEPT ![q][u] = e]
    BY <1>3 DEF IssuerAnswers
  <2>2. q = p /\ u = t
    BY <2>1 DEF TypeOK
  <2>3. minted + 1 \in Pair /\ minted + 1 # NoPair
    <3>1. exchange'[p][t] \in ExchangeRecord
      BY TypeStep DEF Work, Next, TypeOK
    <3> QED
      BY <1>2, <3>1 DEF ExchangeRecord
  <2>4. exchange' # [exchange EXCEPT ![q][u] = [status |-> "answered", pair |-> NoPair,
                                               since |-> exchange[q][u].since]]
    BY <2>2 DEF TypeOK
  <2>5. root' = [root EXCEPT ![minted + 1] = root[u]]
    BY <1>3, <2>4 DEF IssuerAnswers
  <2> QED
    BY <2>2, <2>3, <2>5 DEF TypeOK
<1>4. ASSUME NEW r \in Request, Handle(r) \/ Upstream(r)
      PROVE  RefreshOnce(r) \/ exchange' = exchange
  BY <1>4 DEF Handle, HandleGuard, HandleRelay, HandleCallback, HandleLogout, Upstream,
              UpstreamAnswers, UpstreamFails
<1>5. ASSUME NEW r \in Request, RefreshOnce(r)
      PROVE  \/ exchange' = exchange
             \/ exchange' = [exchange EXCEPT ![sent[r].proc][sent[r].carried] =
                               [status |-> "asked", pair |-> NoPair, since |-> now]]
  BY <1>5 DEF RefreshOnce
<1>6. ASSUME NEW r \in Request, Handle(r) \/ Upstream(r)
      PROVE  FALSE
  <2> DEFINE e == [status |-> "asked", pair |-> NoPair, since |-> now]
  <2>1. exchange' = exchange \/ \E q, u : exchange' = [exchange EXCEPT ![q][u] = e]
    BY <1>4, <1>5, <1>6
  <2>2. e.pair = NoPair
    OBVIOUS
  <2>3. exchange \in [Process -> [Pair -> ExchangeRecord]]
    BY DEF TypeOK
  <2> HIDE DEF e
  <2>4. exchange'[p][t] \in {exchange[p][t], e}
    BY ONLY <2>1, <2>3, p \in Process, t \in Pair
  <2> QED
    BY <2>2, <2>4
<1>7. ASSUME NEW q \in Process, NEW u \in Pair, Exchange(q, u) \/ Forget(q, u)
      PROVE  FALSE
  <2>1. \/ exchange' = [exchange EXCEPT ![q][u] = Absent]
        \/ exchange' = [exchange EXCEPT ![q][u] =
              [status |-> "kept", pair |-> exchange[q][u].pair, since |-> now]]
    BY <1>7 DEF Exchange, Settle, ExchangeFails, Resolve, Forget
  <2> QED
    BY <2>1 DEF TypeOK, Absent
<1> QED
  BY <1>2, <1>3, <1>6, <1>7 DEF Work

LEMMA DescendsStep == ChainInv /\ [Next]_vars => DescendsInv'
<1> SUFFICES ASSUME ChainInv, [Next]_vars PROVE DescendsInv'
  OBVIOUS
<1>1. TypeOK /\ TypeOK' /\ MintedInv /\ AskedInv /\ DescendsInv
  BY TypeStep DEF ChainInv, IInv
<1>2. /\ minted \in Nat /\ minted' \in Nat /\ minted <= minted'
      /\ \A n \in Pair : n <= minted => root'[n] = root[n]
  BY <1>1, MintFrame, PairType DEF TypeOK
<1>3. SUFFICES ASSUME NEW p \in Process, NEW t \in Pair, exchange'[p][t].pair # NoPair
               PROVE  t <= minted' /\ root'[exchange'[p][t].pair] = root'[t]
  BY DEF DescendsInv
<1>4. CASE exchange'[p][t].pair = exchange[p][t].pair
  <2>1. /\ t <= minted /\ root[exchange[p][t].pair] = root[t]
        /\ exchange[p][t].pair \in Pair /\ exchange[p][t].pair <= minted
    BY <1>1, <1>3, <1>4 DEF DescendsInv, MintedInv, TypeOK, ExchangeRecord
  <2>2. t <= minted'
    <3>1. t \in Nat /\ t <= minted
      BY <2>1, PairType
    <3> QED
      BY ONLY <3>1, <1>2
  <2>3. root'[t] = root[t] /\ root'[exchange[p][t].pair] = root[exchange[p][t].pair]
    BY <1>2, <2>1
  <2> QED
    BY <1>4, <2>1, <2>2, <2>3
<1>5. CASE exchange'[p][t].pair # exchange[p][t].pair
  <2>1. Work
    BY <1>5, NextCases DEF Send, Deliver, Tick, vars
  <2>2. exchange[p][t].status = "asked" /\ root'[exchange'[p][t].pair] = root[t]
    BY <1>1, <1>3, <1>5, <2>1, RootFrame
  <2>3. PICK r \in Request : Waits(r, p, t)
    BY <1>1, <2>2 DEF AskedInv
  <2>4. t <= minted /\ t \in Nat
    BY <1>1, <2>3, PairType DEF Waits, MintedInv
  <2> QED
    BY <1>2, <2>2, <2>4
<1> QED
  BY <1>4, <1>5

LEMMA ChainStep == ChainInv /\ [Next]_vars => SameChain'
<1> SUFFICES ASSUME ChainInv, [Next]_vars, NEW r \in Request, token'[r] # NoPair
             PROVE  sent'[r].carried # NoPair /\ root'[token'[r]] = root'[sent'[r].carried]
  BY DEF SameChain
<1>1. /\ TypeOK /\ MintedInv /\ DescendsInv /\ SameChain /\ ServedInv
      /\ sent[r].proc \in Process
  BY DEF ChainInv, IInv, TypeOK, SentRecord
<1>2. \A n \in Pair : n <= minted => root'[n] = root[n]
  BY <1>1, MintFrame
<1>3. /\ token[r] \in {NoPair} \cup Pair /\ token[r] <= minted
      /\ sent[r].carried \in {NoPair} \cup Pair /\ sent[r].carried <= minted
  BY <1>1 DEF TypeOK, SentRecord, MintedInv
<1>4. CASE token'[r] = token[r] /\ sent'[r] = sent[r]
  <2>1. sent[r].carried # NoPair /\ root[token[r]] = root[sent[r].carried]
    BY <1>1, <1>4 DEF SameChain
  <2> QED
    BY <1>2, <1>3, <1>4, <2>1
<1>5. ASSUME NEW s \in Request, NEW b \in Browser, NEW k \in Kind,
             NEW p \in Process, Send(s, b, k, p)
      PROVE  token'[r] = token[r] /\ sent'[r] = sent[r]
  <2>1. token' = token /\ stage[s] = "idle" /\ \E e : sent' = [sent EXCEPT ![s] = e]
    BY <1>5 DEF Send
  <2>2. s # r
    BY <1>1, <2>1 DEF ServedInv
  <2> QED
    BY <1>1, <2>1, <2>2 DEF TypeOK
<1>6. ASSUME NEW s \in Request, Deliver(s)
      PROVE  token'[r] = token[r] /\ sent'[r] = sent[r]
  BY <1>1, <1>6 DEF Deliver, TypeOK
<1>7. CASE Tick \/ UNCHANGED vars
  BY <1>4, <1>7 DEF Tick, vars, requestVars
<1>8. CASE Work
  <2>1. sent' = sent /\ TokenStep(r)
    BY <1>1, <1>8, WorkFrame, TokenFrame
  <2>2. CASE token'[r] = token[r]
    BY <1>4, <2>1, <2>2
  <2>3. CASE Unspent(sent[r].carried) /\ token'[r] = sent[r].carried
    BY <2>1, <2>3 DEF Unspent
  <2>4. CASE /\ sent[r].carried \in Pair /\ token'[r] = Source(r).pair
    <3>1. /\ root[Source(r).pair] = root[sent[r].carried] /\ Source(r).pair <= minted
          /\ Source(r).pair \in Pair
      BY <1>1, <2>4 DEF Source, DescendsInv, MintedInv, TypeOK, ExchangeRecord
    <3>2. sent[r].carried # NoPair
      BY <2>4, PairType
    <3> QED
      BY <1>2, <1>3, <2>1, <2>4, <3>1, <3>2
  <2> QED
    BY <2>1, <2>2, <2>3, <2>4 DEF TokenStep
<1> QED
  BY <1>4, <1>5, <1>6, <1>7, <1>8, NextCases

LEMMA ChainInductive == Spec => []ChainInv
<1>1. Init => ChainInv
  <2> SUFFICES ASSUME Init PROVE ChainInv
    OBVIOUS
  <2>1. IInv
    BY IInvInit
  <2>2. DescendsInv /\ SameChain
    BY DEF Init, DescendsInv, SameChain, Absent
  <2> QED
    BY <2>1, <2>2 DEF ChainInv
<1>2. ChainInv /\ [Next]_vars => ChainInv'
  BY IInvStep, DescendsStep, ChainStep DEF ChainInv
<1> QED
  BY <1>1, <1>2, PTL DEF Spec

(* What a request is served with descends from the sign-in whose token it    *)
(* carried, however many visitors share a process and its map of exchanges   *)
(* (refreshOnce).                                                            *)
THEOREM ChainsKeepToThemselves == Spec => []SameChain
<1>1. ChainInv => SameChain
  BY DEF ChainInv
<1> QED
  BY <1>1, ChainInductive, PTL

(* A guard takes no token but an assured one.                                *)
LEMMA GuardFrame ==
  ASSUME TypeOK, Work, NEW r \in Request, sent[r].kind = "guard"
  PROVE  token'[r] \in {token[r], NoPair} \/ IsAssured(token'[r])
<1>1. \A n : TokenAfter("guard", n) = NoPair \/ IsAssured(TokenAfter("guard", n))
  BY DEF TokenAfter
<1>2. ASSUME NEW s \in Request, RefreshOnce(s)
      PROVE  token'[r] \in {token[r], NoPair} \/ IsAssured(token'[r])
  <2>1. token' = token \/ \E n : token' = [token EXCEPT ![s] = TokenAfter(sent[s].kind, n)]
    BY <1>2 DEF RefreshOnce
  <2> QED
    BY <1>1, <2>1 DEF TypeOK
<1>3. ASSUME NEW s \in Request, HandleGuard(s)
      PROVE  token'[r] \in {token[r], NoPair} \/ IsAssured(token'[r])
  <2>1. \/ token' = token \/ RefreshOnce(s)
        \/ \E n : token' = [token EXCEPT ![s] = TokenAfter("guard", n)]
    BY <1>3 DEF HandleGuard
  <2> QED
    BY <1>1, <1>2, <2>1 DEF TypeOK
<1>4. ASSUME NEW s \in Request, HandleRelay(s)
      PROVE  token'[r] \in {token[r], NoPair} \/ IsAssured(token'[r])
  <2>1. sent[s].kind = "relay"
        /\ (token' = token \/ RefreshOnce(s) \/ \E n : token' = [token EXCEPT ![s] = n])
    BY <1>4 DEF HandleRelay
  <2> QED
    BY <1>2, <2>1 DEF TypeOK
<1>5. ASSUME NEW s \in Request, HandleCallback(s) \/ HandleLogout(s) \/ Upstream(s)
      PROVE  token' = token
  BY <1>5 DEF HandleCallback, HandleLogout, Upstream, UpstreamAnswers, UpstreamFails
<1>6. ASSUME NEW p \in Process, NEW t \in Pair, IssuerAnswers(p, t) \/ Forget(p, t)
      PROVE  token' = token
  BY <1>6 DEF IssuerAnswers, Forget, requestVars
<1>7. ASSUME NEW p \in Process, NEW t \in Pair, NEW n, Resolve(p, t, n)
      PROVE  token'[r] \in {token[r], NoPair} \/ IsAssured(token'[r])
  BY <1>1, <1>7 DEF Resolve
<1>8. ASSUME NEW p \in Process, NEW t \in Pair, Exchange(p, t)
      PROVE  token'[r] \in {token[r], NoPair} \/ IsAssured(token'[r])
  BY <1>7, <1>8 DEF Exchange, Settle, ExchangeFails
<1> QED
  BY <1>3, <1>4, <1>5, <1>6, <1>8 DEF Work, Handle

(* No chain loses the assurance it was authorized at.                        *)
LEMMA AssuredFrame ==
  ASSUME [Next]_vars
  PROVE  assured \subseteq assured'
<1>1. ASSUME NEW r \in Request, Handle(r) \/ Upstream(r) \/ Deliver(r)
      PROVE  assured \subseteq assured'
  <2>1. assured' = assured \/ \E n : assured' = assured \cup {n}
    BY <1>1 DEF Handle, HandleGuard, HandleRelay, HandleCallback, HandleLogout, Upstream,
                UpstreamAnswers, UpstreamFails, Deliver, issuerVars
  <2> QED
    BY <2>1
<1>2. ASSUME NEW p \in Process, NEW t \in Pair,
             IssuerAnswers(p, t) \/ Exchange(p, t) \/ Forget(p, t)
      PROVE  assured' = assured
  BY <1>2 DEF IssuerAnswers, Exchange, Settle, ExchangeFails, Resolve, Forget, issuerVars
<1>3. ASSUME NEW r \in Request, NEW b \in Browser, NEW k \in Kind, NEW p \in Process,
             Send(r, b, k, p)
      PROVE  assured' = assured
  BY <1>3 DEF Send, issuerVars
<1>4. Tick \/ UNCHANGED vars => assured' = assured
  BY DEF Tick, vars, issuerVars
<1> QED
  BY <1>1, <1>2, <1>3, <1>4 DEF Next

LEMMA GateStep == IInv /\ GateAssured /\ [Next]_vars => GateAssured'
<1> SUFFICES ASSUME IInv, GateAssured, [Next]_vars, NEW r \in Request,
                    sent'[r].kind = "guard", token'[r] # NoPair
             PROVE  root'[token'[r]] \in assured'
  BY DEF GateAssured, IsAssured
<1>1. TypeOK /\ TypeOK' /\ MintedInv /\ MintedInv' /\ ServedInv
  BY TypeStep, MintedStep DEF IInv
<1>2. /\ \A n \in Pair : n <= minted => root'[n] = root[n]
      /\ assured \subseteq assured'
  BY <1>1, MintFrame, AssuredFrame
<1>3. token[r] \in {NoPair} \cup Pair /\ token[r] <= minted
  BY <1>1 DEF TypeOK, MintedInv
<1>4. CASE token'[r] = token[r] /\ sent'[r] = sent[r]
  <2>1. root[token[r]] \in assured
    BY <1>4 DEF GateAssured, IsAssured
  <2> QED
    BY <1>2, <1>3, <1>4, <2>1
<1>5. ASSUME NEW s \in Request, NEW b \in Browser, NEW k \in Kind,
             NEW p \in Process, Send(s, b, k, p)
      PROVE  token'[r] = token[r] /\ sent'[r] = sent[r]
  <2>1. token' = token /\ stage[s] = "idle" /\ \E e : sent' = [sent EXCEPT ![s] = e]
    BY <1>5 DEF Send
  <2>2. s # r
    BY <1>1, <2>1 DEF ServedInv
  <2> QED
    BY <1>1, <2>1, <2>2 DEF TypeOK
<1>6. ASSUME NEW s \in Request, Deliver(s)
      PROVE  token'[r] = token[r] /\ sent'[r] = sent[r]
  BY <1>1, <1>6 DEF Deliver, TypeOK
<1>7. CASE Tick \/ UNCHANGED vars
  BY <1>4, <1>7 DEF Tick, vars, requestVars
<1>8. CASE Work
  <2>1. sent' = sent
    BY <1>1, <1>8, WorkFrame
  <2>2. token'[r] = token[r] \/ IsAssured(token'[r])
    BY <1>1, <1>8, <2>1, GuardFrame
  <2>3. CASE token'[r] # token[r]
    <3>1. TokenStep(r)
      BY <1>1, <1>8, TokenFrame
    <3>2. token'[r] \in Pair /\ token'[r] <= minted
      <4>1. sent[r].carried <= minted /\ sent[r].proc \in Process
        BY <1>1 DEF MintedInv, TypeOK, SentRecord
      <4>2. sent[r].carried \in Pair => Source(r).pair <= minted
        BY <1>1, <4>1 DEF MintedInv, Source
      <4>3. token'[r] \in Pair
        BY <1>1 DEF TypeOK
      <4> QED
        BY <2>3, <3>1, <4>1, <4>2, <4>3 DEF TokenStep
    <3> QED
      BY <1>2, <2>2, <2>3, <3>2 DEF IsAssured
  <2> QED
    BY <1>4, <2>1, <2>3
<1> QED
  BY <1>4, <1>5, <1>6, <1>7, <1>8, NextCases

(* The gate lets nobody in below the floor, whether on the token they came   *)
(* with or on what an exchange shared with others answered                   *)
(* (createSessionGuard).                                                     *)
THEOREM TheGateIsAssured == Spec => []GateAssured
<1>1. Init => GateAssured
  BY DEF Init, GateAssured
<1> QED
  BY <1>1, GateStep, Inductive, PTL DEF Spec

-----------------------------------------------------------------------------
(* The exchanges implement the single flight. *)

LEMMA FlightInit == Init => Flight!SFInit
<1> SUFFICES ASSUME Init PROVE Flight!SFInit
  OBVIOUS
<1>1. \A k \in Keys : k[1] \in Process /\ k[2] \in Pair
  BY DEF Keys
<1>2. \A p \in Process, t \in Pair : exchange[p][t] = Absent
  BY DEF Init
<1>3. \A r \in Request : \A p, t : ~Waits(r, p, t)
  BY DEF Init, Waits
<1> QED
  BY <1>1, <1>2, <1>3 DEF Flight!SFInit, flying, kept, waiting, Absent

(* Requests that neither start nor stop waiting leave the callers alone.     *)
LEMMA WaitingFrame ==
  ASSUME \A r \in Request, p \in Process, t \in Pair : Waits(r, p, t)' <=> Waits(r, p, t)
  PROVE  waiting' = waiting
  BY DEF waiting, Keys

LEMMA SingleFlightStep == IInv /\ [Next]_vars => [Flight!SFNext]_(Flight!sfVars)
<1> SUFFICES ASSUME IInv, [Next]_vars, ~UNCHANGED Flight!sfVars PROVE Flight!SFNext
  OBVIOUS
<1>a. TypeOK /\ TypeOK'
  BY TypeStep DEF IInv
<1>b. ASSUME exchange' = exchange, waiting' = waiting PROVE FALSE
  BY <1>b DEF flying, kept, Flight!sfVars
<1>1. ASSUME NEW r \in Request, stage[r] # "exchanging", stage'[r] # "exchanging",
             \A s \in Request : s # r => stage'[s] = stage[s] /\ sent'[s] = sent[s]
      PROVE waiting' = waiting
  BY <1>1, WaitingFrame DEF Waits
<1>2. ASSUME NEW r \in Request, NEW b \in Browser, NEW k \in Kind,
             NEW q \in Process, Send(r, b, k, q)
      PROVE FALSE
  BY <1>1, <1>2, <1>a, <1>b DEF Send, TypeOK
<1>3. ASSUME NEW r \in Request, Deliver(r) PROVE FALSE
  BY <1>1, <1>3, <1>a, <1>b DEF Deliver, TypeOK
<1>4. CASE Tick \/ UNCHANGED vars
  BY <1>4, <1>b, WaitingFrame DEF Tick, vars, requestVars, Waits
<1>5. ASSUME NEW r \in Request, RefreshOnce(r), stage[r] = "arriving", sent' = sent,
             sent[r].carried # NoPair
      PROVE Flight!SFNext
  <2> DEFINE p == sent[r].proc
             t == sent[r].carried
             k == <<p, t>>
  <2>1. p \in Process /\ t \in Pair /\ k \in Keys
    BY <1>5, <1>a DEF TypeOK, SentRecord, Keys
  <2>2. CASE exchange[p][t].status = "kept"
    <3>1. exchange' = exchange /\ stage'[r] # "exchanging"
          /\ \A s \in Request : s # r => stage'[s] = stage[s]
      BY <1>5, <1>a, <2>2 DEF RefreshOnce, StageAfter, TypeOK
    <3> QED
      BY <1>1, <1>5, <1>b, <3>1
  <2>3. CASE exchange[p][t].status # "kept"
    <3>1. stage' = [stage EXCEPT ![r] = "exchanging"]
      BY <1>5, <2>3 DEF RefreshOnce
    <3>2. waiting' = [waiting EXCEPT ![k] = @ \cup {r}]
      <4>1. \A s \in Request, q \in Process, u \in Pair :
              Waits(s, q, u)' <=> Waits(s, q, u) \/ (s = r /\ q = p /\ u = t)
        BY <1>5, <1>a, <3>1 DEF Waits, TypeOK
      <4>2. \A j \in Keys : waiting'[j] = IF j = k THEN waiting[j] \cup {r} ELSE waiting[j]
        BY <4>1 DEF waiting, Keys
      <4> QED
        BY <4>2, <2>1 DEF waiting
    <3>3. \A j \in Keys : r \notin waiting[j]
      BY <1>5 DEF waiting, Waits
    <3>4. kept[k] = NoPair
      BY <2>1, <2>3 DEF kept
    <3>5. \A q \in Process, u \in Pair :
            IF q = p /\ u = t
            THEN exchange'[q][u].status \in {"asked", "answered"}
            ELSE exchange'[q][u] = exchange[q][u]
      <4>1. CASE exchange[p][t].status # "absent"
        BY <4>1, <1>5, <2>3 DEF RefreshOnce
      <4>2. CASE exchange' = [exchange EXCEPT ![p][t] =
                               [status |-> "asked", pair |-> NoPair, since |-> now]]
        BY <4>2, <1>a, <2>1 DEF TypeOK
      <4> QED
        BY <4>1, <4>2, <1>5, <2>3, <1>a, <2>1 DEF RefreshOnce, TypeOK, ExchangeRecord
    <3>6. flying' = flying \cup {k}
      BY <3>5, <2>1 DEF flying, Keys
    <3>7. kept' = kept
      <4>1. \A j \in Keys : exchange'[j[1]][j[2]] = exchange[j[1]][j[2]]
                             \/ /\ exchange'[j[1]][j[2]].status # "kept"
                                /\ exchange[j[1]][j[2]].status # "kept"
        BY <3>5, <2>3 DEF Keys
      <4> QED
        BY <4>1 DEF kept
    <3> QED
      BY <2>1, <3>2, <3>3, <3>4, <3>6, <3>7 DEF Flight!SFNext, Flight!Ask
  <2> QED
    BY <2>2, <2>3
<1>6. ASSUME NEW r \in Request, Handle(r) \/ Upstream(r) PROVE Flight!SFNext
  <2>1. CASE RefreshOnce(r) /\ stage[r] = "arriving" /\ sent' = sent /\ sent[r].carried # NoPair
    BY <1>5, <2>1
  <2>2. CASE /\ UNCHANGED <<exchange, sent>> /\ stage[r] # "exchanging"
             /\ \E v \in {"answering", "forwarding"} : stage' = [stage EXCEPT ![r] = v]
    BY <1>1, <1>a, <1>b, <2>2 DEF TypeOK
  <2> QED
    BY <1>6, <2>1, <2>2 DEF Handle, HandleGuard, HandleRelay, HandleCallback, HandleLogout,
                            Upstream, UpstreamAnswers, UpstreamFails
<1>7. ASSUME NEW p \in Process, NEW t \in Pair, IssuerAnswers(p, t) PROVE FALSE
  <2>1. waiting' = waiting
    BY <1>7, WaitingFrame DEF IssuerAnswers, requestVars, Waits
  <2>2. \A q \in Process, u \in Pair :
          IF q = p /\ u = t
          THEN exchange[q][u].status = "asked" /\ exchange'[q][u].status = "answered"
          ELSE exchange'[q][u] = exchange[q][u]
    <3>1. PICK n : exchange' = [exchange EXCEPT ![p][t] =
                      [status |-> "answered", pair |-> n, since |-> exchange[p][t].since]]
      BY <1>7 DEF IssuerAnswers
    <3>2. exchange[p][t].status = "asked"
      BY <1>7 DEF IssuerAnswers
    <3> QED
      BY <3>1, <3>2, <1>a DEF TypeOK
  <2>3. \A k \in Keys : exchange'[k[1]][k[2]] = exchange[k[1]][k[2]]
                         \/ /\ exchange[k[1]][k[2]].status = "asked"
                            /\ exchange'[k[1]][k[2]].status = "answered"
    BY <2>2 DEF Keys
  <2>4. flying' = flying /\ kept' = kept
    BY <2>3 DEF flying, kept
  <2> QED
    BY <2>1, <2>4 DEF Flight!sfVars
<1>8. ASSUME NEW p \in Process, NEW t \in Pair, NEW n \in Pair \cup {NoPair},
             Resolve(p, t, n), exchange[p][t].status \in {"asked", "answered"}
      PROVE Flight!SFNext
  <2> DEFINE k == <<p, t>>
  <2>1. k \in Keys /\ k \in flying /\ k[1] = p /\ k[2] = t
    BY <1>8 DEF Keys, flying
  <2>2. waiting' = [waiting EXCEPT ![k] = {}]
    <3>1. \A s \in Request, q \in Process, u \in Pair :
            Waits(s, q, u)' <=> Waits(s, q, u) /\ ~(q = p /\ u = t)
      <4>1. \A s \in Request : stage'[s] = IF Waits(s, p, t)
               THEN StageAfter(sent[s].kind, n) ELSE stage[s]
        BY <1>8 DEF Resolve
      <4>2. sent' = sent /\ \A x : StageAfter(x, n) # "exchanging"
        BY <1>8 DEF Resolve, StageAfter
      <4> QED
        BY <4>1, <4>2 DEF Waits
    <3>2. \A j \in Keys : waiting'[j] = IF j = k THEN {} ELSE waiting[j]
      BY <3>1 DEF waiting, Keys
    <3> QED
      BY <3>2, <2>1 DEF waiting
  <2>3. \A q \in Process, u \in Pair :
          IF q = p /\ u = t
          THEN exchange'[q][u] = IF n # NoPair
                                 THEN [status |-> "kept", pair |-> n, since |-> now] ELSE Absent
          ELSE exchange'[q][u] = exchange[q][u]
    BY <1>8, <1>a DEF Resolve, TypeOK
  <2>4. flying' = flying \ {k}
    BY <2>3, <2>1 DEF flying, Keys, Absent
  <2>5. kept' = [kept EXCEPT ![k] = n]
    <3>1. \A j \in Keys : kept'[j] = IF j = k THEN n ELSE kept[j]
      BY <2>3, <2>1 DEF kept, Keys, Absent
    <3> QED
      BY <3>1, <2>1 DEF kept
  <2> QED
    BY <2>1, <2>2, <2>4, <2>5 DEF Flight!SFNext, Flight!Land
<1>9. ASSUME NEW p \in Process, NEW t \in Pair, Exchange(p, t) PROVE Flight!SFNext
  <2>1. exchange[p][t].pair \in Pair \cup {NoPair} /\ NoPair \in Pair \cup {NoPair}
    BY <1>a DEF TypeOK, ExchangeRecord
  <2> QED
    BY <1>8, <1>9, <2>1 DEF Exchange, Settle, ExchangeFails
<1>10. ASSUME NEW p \in Process, NEW t \in Pair, Forget(p, t) PROVE Flight!SFNext
  <2> DEFINE k == <<p, t>>
  <2>1. k \in Keys /\ k[1] = p /\ k[2] = t /\ kept[k] # NoPair
    BY <1>10 DEF Keys, kept, Forget, IInv, KeptInv
  <2>2. waiting' = waiting
    BY <1>10, WaitingFrame DEF Forget, requestVars, Waits
  <2>3. \A q \in Process, u \in Pair :
          IF q = p /\ u = t THEN exchange'[q][u] = Absent ELSE exchange'[q][u] = exchange[q][u]
    BY <1>10, <1>a DEF Forget, TypeOK
  <2>4. flying' = flying
    BY <1>10, <2>3 DEF flying, Keys, Absent, Forget
  <2>5. kept' = [kept EXCEPT ![k] = NoPair]
    <3>1. \A j \in Keys : kept'[j] = IF j = k THEN NoPair ELSE kept[j]
      BY <2>3, <2>1 DEF kept, Keys, Absent
    <3> QED
      BY <3>1, <2>1 DEF kept
  <2> QED
    BY <2>1, <2>2, <2>4, <2>5 DEF Flight!SFNext, Flight!Drop
<1> QED
  BY <1>2, <1>3, <1>4, <1>6, <1>7, <1>9, <1>10, NextCases DEF Work

(* refreshOnce is a single flight in every process: the map of exchanges     *)
(* implements SingleFlight, so no token has two exchanges under way in one   *)
(* process, everybody who waits is released by the one that settles, and a   *)
(* failure is not kept.                                                      *)
THEOREM RefreshOnceIsSingleFlight == Spec => ExchangesSingleFlight
  BY FlightInit, SingleFlightStep, IInvInit, IInvStep, PTL DEF Spec, ExchangesSingleFlight, Flight!SFSpec

-----------------------------------------------------------------------------
(* No chain in use is revoked. *)

(* Nothing fails between the issuer and the browser, a token's grace period  *)
(* outlasts two requests in a row, and no pair is both fresh from a response *)
(* and already spent.                                                        *)
RenewalsArrive ==
  /\ Faults \cap {"issuer", "upstream"} = {}
  /\ 2 * MaxFlight <= Grace
  /\ 2 * MaxFlight + Skew < AccessTtl

(* A chain is named by one of its own pairs, and no later one.               *)
RootInv == \A n \in Pair : root[n] <= n

(* Every pair is one browser's: the pairs in its jar and on its requests,    *)
(* and whatever is traded for them.                                          *)
Owned(owner, j, s, k, e, x) ==
  /\ \A b \in Browser : j[b] # NoPair => owner[j[b]] = b
  /\ \A r \in Request, n \in Pair :
       n \in {s[r].carried, k[r], e[r]} => owner[n] = s[r].from
  /\ \A p \in Process, t \in Pair :
       x[p][t].pair # NoPair => owner[x[p][t].pair] = owner[t]

OwnInv ==
  \E owner \in [Pair -> Browser] : Owned(owner, jar, sent, token, set, exchange)

(* A token is spent when it is asked about and when it is traded, and its    *)
(* first trade is the one on record.                                         *)
SpentInv ==
  /\ \A p \in Process, t \in Pair :
       exchange[p][t].status \in {"asked", "answered"} =>
         mintedAt[t] + AccessTtl <= now + Skew
  /\ \A t \in Pair : \A m \in rotatedAt[t] :
       /\ t <= minted
       /\ m <= now
       /\ mintedAt[t] + AccessTtl <= m + Skew
       /\ rotatedAt[t] = {m}

(* The answer to an exchange is younger than the first trade of its token.   *)
TradedInv ==
  \A p \in Process, t \in Pair :
    exchange[p][t].pair # NoPair =>
      /\ t < exchange[p][t].pair
      /\ \E m \in rotatedAt[t] : m <= mintedAt[exchange[p][t].pair]

(* Only the gate and the relay wait, and a request that is over leaves       *)
(* nothing behind.                                                           *)
WaitsInv ==
  \A r \in Request :
    /\ stage[r] = "exchanging" =>
         sent[r].kind \in {"guard", "relay"} /\ sent[r].carried # NoPair
    /\ stage[r] = "idle" => sent[r].carried = NoPair /\ set[r] = NoPair

(* A traded token left its browser for the last time within one request of   *)
(* the trade, and a pair on its way to a browser is at most one request      *)
(* older than the request that brings it.                                    *)
LateInv ==
  \A r \in Request, n \in Pair :
    /\ n = sent[r].carried /\ IsAssured(n) =>
         \A m \in rotatedAt[n] : sent[r].at <= m + MaxFlight
    /\ n \in {token[r], set[r]} /\ n # sent[r].carried /\ IsAssured(n) =>
         sent[r].at <= mintedAt[n] + MaxFlight
    /\ n = set[r] => n # sent[r].carried

(* The request w, which carried t, is bringing its browser another pair.     *)
Brings(w, t) ==
  \/ /\ stage[w] = "exchanging"
     /\ exchange[sent[w].proc][t].status = "answered"
     /\ exchange[sent[w].proc][t].pair # NoPair
  \/ stage[w] = "forwarding" /\ token[w] \notin {NoPair, t}
  \/ stage[w] = "answering" /\ set[w] \notin {NoPair, t}

(* While a browser still holds a traded token, a request sent before the     *)
(* trade is bringing it the next one.                                        *)
WitnessInv ==
  \A b \in Browser, t \in Pair : \A m \in rotatedAt[t] :
    jar[b] = t /\ IsAssured(t) =>
      \E w \in Request :
        /\ sent[w].from = b /\ sent[w].carried = t /\ sent[w].at <= m
        /\ Brings(w, t)

(* Only a chain that has been minted is revoked.                             *)
RevokedInv == \A c \in revoked : c <= minted

RenewalInv ==
  /\ ChainInv /\ RootInv /\ OwnInv /\ SpentInv /\ TradedInv /\ WaitsInv
  /\ LateInv /\ WitnessInv /\ RevokedInv /\ NoBreach

(* The types of what the timing is about.                                    *)
LEMMA TimingTypes ==
  ASSUME TypeOK
  PROVE  /\ now \in Nat /\ minted \in Nat
         /\ \A n \in Pair : /\ n \in Nat /\ n # NoPair
                            /\ root[n] \in Pair /\ root[n] \in Nat
                            /\ mintedAt[n] \in Nat /\ rotatedAt[n] \subseteq Nat
         /\ \A c \in revoked : c \in Nat
         /\ {MaxFlight, AccessTtl, Grace, Retain, Skew} \subseteq Nat
<1>1. now \in Nat /\ minted \in Nat
  BY TimingAssumption DEF TypeOK
<1>2. ASSUME NEW n \in Pair
      PROVE  /\ n \in Nat /\ n # NoPair
             /\ root[n] \in Pair /\ root[n] \in Nat
             /\ mintedAt[n] \in Nat /\ rotatedAt[n] \subseteq Nat
  <2>1. root[n] \in Pair /\ mintedAt[n] \in Nat /\ rotatedAt[n] \subseteq Nat
    BY DEF TypeOK
  <2> QED
    BY <2>1, PairType
<1>3. \A c \in revoked : c \in Nat
  BY PairType DEF TypeOK
<1> QED
  BY <1>1, <1>2, <1>3, TimingAssumption

LEMMA RequestTypes ==
  ASSUME TypeOK, NEW r \in Request
  PROVE  /\ sent[r].from \in Browser /\ sent[r].proc \in Process /\ sent[r].kind \in Kind
         /\ sent[r].at \in Nat
         /\ sent[r].carried \in {NoPair} \cup Pair
         /\ token[r] \in {NoPair} \cup Pair /\ set[r] \in {NoPair} \cup Pair
  BY DEF TypeOK, SentRecord

(* Only a callback and an answer of the issuer touch what the issuer keeps.  *)
LEMMA IssuerFrame ==
  ASSUME [Next]_vars
  PROVE  \/ UNCHANGED issuerVars
         \/ \E r \in Request : HandleCallback(r)
         \/ \E p \in Process, t \in Pair : IssuerAnswers(p, t)
<1>1. ASSUME NEW r \in Request, Handle(r) \/ Upstream(r) \/ Deliver(r)
      PROVE  UNCHANGED issuerVars \/ HandleCallback(r)
  BY <1>1 DEF Handle, HandleGuard, HandleRelay, HandleLogout, Upstream, UpstreamAnswers,
              UpstreamFails, Deliver, issuerVars
<1>2. ASSUME NEW p \in Process, NEW t \in Pair, Exchange(p, t) \/ Forget(p, t)
      PROVE  UNCHANGED issuerVars
  BY <1>2 DEF Exchange, Settle, ExchangeFails, Resolve, Forget
<1>3. ASSUME NEW r \in Request, NEW b \in Browser, NEW k \in Kind, NEW p \in Process,
             Send(r, b, k, p)
      PROVE  UNCHANGED issuerVars
  BY <1>3 DEF Send
<1>4. Tick \/ UNCHANGED vars => UNCHANGED issuerVars
  BY DEF Tick, vars, issuerVars
<1> QED
  BY <1>1, <1>2, <1>3, <1>4 DEF Next

(* A callback mints the first pair of a chain, or nothing.                   *)
LEMMA CallbackFrame ==
  ASSUME TypeOK, NEW r \in Request, HandleCallback(r)
  PROVE  /\ UNCHANGED <<now, rotatedAt, revoked, jar, sent, token, exchange>>
         /\ stage[r] = "arriving"
         /\ \/ UNCHANGED <<minted, mintedAt, root, assured, set>>
            \/ /\ minted + 1 \in Pair /\ minted' = minted + 1
               /\ mintedAt' = [mintedAt EXCEPT ![minted + 1] = now]
               /\ root' = [root EXCEPT ![minted + 1] = minted + 1]
               /\ assured \subseteq assured' /\ assured' \subseteq assured \cup {minted + 1}
               /\ set' = [set EXCEPT ![r] = minted + 1]
<1>1. minted < MaxPairs => minted + 1 \in Pair
  BY TimingAssumption DEF TypeOK, Pair
<1> QED
  BY <1>1 DEF HandleCallback

(* The issuer trades a token for a pair of its chain, or ends the chain.     *)
Trades(p, t, n) ==
  exchange' = [exchange EXCEPT ![p][t] =
                 [status |-> "answered", pair |-> n, since |-> exchange[p][t].since]]

LEMMA AnswerFrame ==
  ASSUME TypeOK, NEW p \in Process, NEW t \in Pair, IssuerAnswers(p, t)
  PROVE  /\ UNCHANGED <<now, assured, jar, stage, sent, token, set>>
         /\ exchange[p][t].status = "asked"
         /\ \/ /\ minted + 1 \in Pair /\ minted' = minted + 1
               /\ mintedAt' = [mintedAt EXCEPT ![minted + 1] = now]
               /\ root' = [root EXCEPT ![minted + 1] = root[t]]
               /\ rotatedAt' = [rotatedAt EXCEPT ![t] = IF @ = {} THEN {now} ELSE @]
               /\ Trades(p, t, minted + 1)
               /\ UNCHANGED revoked
            \/ /\ root[t] \in revoked \/ \E m \in rotatedAt[t] : now > m + Grace
               /\ revoked' = revoked \cup {root[t]}
               /\ Trades(p, t, NoPair)
               /\ UNCHANGED <<minted, mintedAt, root, rotatedAt>>
<1>1. minted < MaxPairs => minted + 1 \in Pair
  BY TimingAssumption DEF TypeOK, Pair
<1> QED
  BY <1>1 DEF IssuerAnswers, Trades, requestVars

(* The first trade of a token is noted when it happens, by the exchange that *)
(* asked for it.                                                             *)
LEMMA RotateFrame ==
  ASSUME TypeOK, [Next]_vars, NEW t \in Pair, rotatedAt'[t] # rotatedAt[t]
  PROVE  /\ rotatedAt[t] = {} /\ rotatedAt'[t] = {now} /\ now' = now
         /\ UNCHANGED <<assured, jar, stage, sent, token, set>>
         /\ minted' = minted + 1 /\ minted + 1 \in Pair
         /\ \E p \in Process :
              exchange[p][t].status = "asked" /\ Trades(p, t, minted + 1)
<1>1. ~UNCHANGED issuerVars
  BY DEF issuerVars
<1>2. ASSUME NEW r \in Request, HandleCallback(r) PROVE FALSE
  BY <1>2 DEF HandleCallback
<1>3. PICK p \in Process, u \in Pair : IssuerAnswers(p, u)
  BY <1>1, <1>2, IssuerFrame
<1>4. /\ rotatedAt' = [rotatedAt EXCEPT ![u] = IF @ = {} THEN {now} ELSE @]
      /\ minted' = minted + 1 /\ minted + 1 \in Pair
      /\ exchange[p][u].status = "asked" /\ Trades(p, u, minted + 1)
      /\ UNCHANGED <<now, assured, jar, stage, sent, token, set>>
  BY <1>3, AnswerFrame
<1>5. u = t
  BY <1>4 DEF TypeOK
<1>6. rotatedAt'[t] = IF rotatedAt[t] = {} THEN {now} ELSE rotatedAt[t]
  BY <1>4, <1>5 DEF TypeOK
<1> QED
  BY <1>4, <1>5, <1>6

(* A pair's assurance is settled when it is minted.                          *)
LEMMA AssuranceFrame ==
  ASSUME TypeOK, RootInv, [Next]_vars, NEW n \in Pair, n <= minted
  PROVE  IsAssured(n)' <=> IsAssured(n)
<1>1. root'[n] = root[n]
  BY MintFrame
<1>2. minted \in Nat /\ n \in Nat /\ root[n] \in Nat /\ root[n] <= n
  BY TimingTypes DEF RootInv
<1>3. root[n] # minted + 1
  <2> DEFINE c == root[n]
  <2>1. c \in Nat /\ c <= n
    BY <1>2
  <2> HIDE DEF c
  <2>2. c # minted + 1
    BY ONLY <1>2, <2>1, n <= minted
  <2> QED
    BY <2>2 DEF c
<1>4. root[n] \in assured' <=> root[n] \in assured
  <2>1. CASE UNCHANGED issuerVars
    BY <2>1 DEF issuerVars
  <2>2. ASSUME NEW r \in Request, HandleCallback(r)
        PROVE  root[n] \in assured' <=> root[n] \in assured
    BY <1>3, <2>2, CallbackFrame
  <2>3. ASSUME NEW p \in Process, NEW t \in Pair, IssuerAnswers(p, t)
        PROVE  root[n] \in assured' <=> root[n] \in assured
    BY <2>3, AnswerFrame
  <2> QED
    BY <2>1, <2>2, <2>3, IssuerFrame
<1> QED
  BY <1>1, <1>4 DEF IsAssured

(* Where the pair of a response comes from.                                  *)
SetStep(r) ==
  \/ set'[r] = set[r]
  \/ set'[r] = NoPair
  \/ /\ stage[r] = "forwarding"
     /\ token[r] # sent[r].carried
     /\ set'[r] = token[r]
  \/ /\ stage[r] \in {"arriving", "exchanging"}
     /\ sent[r].carried \in Pair
     /\ Source(r).status \in {"kept", "answered"}
     /\ set'[r] = Source(r).pair
  \/ /\ HandleCallback(r)
     /\ minted' = minted + 1
     /\ mintedAt'[minted + 1] = now
     /\ set'[r] = minted + 1

LEMMA ResponseFrame ==
  ASSUME TypeOK, Work, NEW r \in Request
  PROVE  SetStep(r)
<1> USE DEF TypeOK
<1>1. \A k, n : SetAfter(k, n) \in {n, NoPair}
  BY DEF SetAfter, TokenAfter
<1>2. sent[r].carried # NoPair => sent[r].carried \in Pair
  BY DEF SentRecord
<1>3. ASSUME NEW s \in Request, RefreshOnce(s), stage[s] = "arriving",
             sent[s].carried # NoPair
      PROVE  SetStep(r)
  BY <1>1, <1>2, <1>3 DEF RefreshOnce, Source, SetStep
<1>4. ASSUME NEW s \in Request, HandleGuard(s) \/ HandleRelay(s) PROVE SetStep(r)
  BY <1>3, <1>4 DEF HandleGuard, HandleRelay, SetStep
<1>5. ASSUME NEW s \in Request, HandleCallback(s) PROVE SetStep(r)
  <2>1. CASE UNCHANGED set
    BY <2>1 DEF SetStep
  <2>2. CASE /\ minted + 1 \in Pair /\ minted' = minted + 1
             /\ mintedAt' = [mintedAt EXCEPT ![minted + 1] = now]
             /\ set' = [set EXCEPT ![s] = minted + 1]
    BY <1>5, <2>2 DEF SetStep
  <2> QED
    BY <1>5, <2>1, <2>2, CallbackFrame
<1>6. ASSUME NEW s \in Request, HandleLogout(s) \/ Upstream(s) PROVE SetStep(r)
  BY <1>6 DEF HandleLogout, Upstream, UpstreamAnswers, UpstreamFails, SetStep
<1>7. ASSUME NEW p \in Process, NEW t \in Pair, IssuerAnswers(p, t) \/ Forget(p, t)
      PROVE  SetStep(r)
  BY <1>7 DEF IssuerAnswers, Forget, requestVars, SetStep
<1>8. ASSUME NEW p \in Process, NEW t \in Pair, NEW n, Resolve(p, t, n),
             \/ n = NoPair
             \/ exchange[p][t].status = "answered" /\ n = exchange[p][t].pair
      PROVE  SetStep(r)
  BY <1>1, <1>2, <1>8 DEF Resolve, Waits, Source, SetStep
<1>9. ASSUME NEW p \in Process, NEW t \in Pair, Exchange(p, t) PROVE SetStep(r)
  BY <1>8, <1>9 DEF Exchange, Settle, ExchangeFails
<1> QED
  BY <1>4, <1>5, <1>6, <1>7, <1>9 DEF Work, Handle

(* Only a spent token is asked about, by the gate or the relay.              *)
LEMMA StartFrame ==
  ASSUME TypeOK, Work, NEW r \in Request,
         stage[r] # "exchanging", stage'[r] = "exchanging"
  PROVE  /\ sent[r].carried # NoPair /\ ~Unspent(sent[r].carried)
         /\ sent[r].kind \in {"guard", "relay"}
<1> USE DEF TypeOK
<1>1. ASSUME NEW s \in Request, Handle(s) \/ Upstream(s)
      PROVE  /\ sent[r].carried # NoPair /\ ~Unspent(sent[r].carried)
             /\ sent[r].kind \in {"guard", "relay"}
  <2>1. s = r
    BY <1>1 DEF Handle, HandleGuard, HandleRelay, HandleCallback, HandleLogout, RefreshOnce,
                Upstream, UpstreamAnswers, UpstreamFails
  <2> QED
    BY <1>1, <2>1 DEF Handle, HandleGuard, HandleRelay, HandleCallback, HandleLogout,
                      Upstream, UpstreamAnswers, UpstreamFails
<1>2. \A k, n : StageAfter(k, n) # "exchanging"
  BY DEF StageAfter
<1>3. ASSUME NEW p \in Process, NEW t \in Pair,
             IssuerAnswers(p, t) \/ Exchange(p, t) \/ Forget(p, t)
      PROVE  FALSE
  BY <1>2, <1>3 DEF IssuerAnswers, Forget, Exchange, Settle, ExchangeFails, Resolve, requestVars
<1> QED
  BY <1>1, <1>3 DEF Work

LEMMA RootStep == RenewalInv /\ [Next]_vars => RootInv' /\ RevokedInv'
<1> SUFFICES ASSUME RenewalInv, [Next]_vars PROVE RootInv' /\ RevokedInv'
  OBVIOUS
<1>0. TypeOK /\ RootInv /\ RevokedInv /\ AskedInv /\ MintedInv
  BY DEF RenewalInv, ChainInv, IInv
<1>1. /\ TypeOK /\ RootInv /\ RevokedInv /\ AskedInv /\ MintedInv
      /\ minted \in Nat /\ \A n \in Pair : n \in Nat /\ root[n] \in Nat
      /\ \A c \in revoked : c \in Nat
  BY <1>0, TimingTypes
<1>2. CASE UNCHANGED issuerVars
  BY <1>1, <1>2 DEF issuerVars, RootInv, RevokedInv
<1>3. ASSUME NEW r \in Request, HandleCallback(r) PROVE RootInv' /\ RevokedInv'
  <2>1. \/ UNCHANGED <<minted, root, revoked>>
        \/ /\ minted + 1 \in Pair /\ minted' = minted + 1 /\ UNCHANGED revoked
           /\ root' = [root EXCEPT ![minted + 1] = minted + 1]
    BY <1>1, <1>3, CallbackFrame
  <2> QED
    BY <1>1, <2>1 DEF TypeOK, RootInv, RevokedInv
<1>4. ASSUME NEW p \in Process, NEW t \in Pair, IssuerAnswers(p, t)
      PROVE  RootInv' /\ RevokedInv'
  <2>1. exchange[p][t].status = "asked"
    BY <1>1, <1>4, AnswerFrame
  <2>2. t <= minted
    BY <1>1, <2>1 DEF AskedInv, Waits, MintedInv
  <2>3. root[t] \in Nat /\ t \in Nat /\ root[t] <= t
    BY <1>1 DEF RootInv
  <2>4. root[t] <= minted
    <3> DEFINE c == root[t]
    <3>1. c \in Nat /\ c <= t
      BY <2>3
    <3> HIDE DEF c
    <3>2. c <= minted
      BY ONLY <1>1, <2>2, <2>3, <3>1
    <3> QED
      BY <3>2 DEF c
  <2>5. \/ /\ UNCHANGED revoked /\ minted' = minted + 1 /\ minted + 1 \in Pair
           /\ root' = [root EXCEPT ![minted + 1] = root[t]]
        \/ /\ UNCHANGED <<minted, root>>
           /\ revoked' = revoked \cup {root[t]}
    BY <1>1, <1>4, AnswerFrame
  <2>6. root \in [Pair -> Pair]
    BY <1>1 DEF TypeOK
  <2>7. \A n \in Pair : root'[n] <= n
    BY <1>1, <2>3, <2>4, <2>5, <2>6 DEF RootInv
  <2>8. \A c \in revoked' : c <= minted'
    BY <1>1, <2>4, <2>5 DEF RevokedInv
  <2> QED
    BY <2>7, <2>8 DEF RootInv, RevokedInv
<1> QED
  BY <1>2, <1>3, <1>4, IssuerFrame

LEMMA OwnStep == RenewalInv /\ [Next]_vars => OwnInv'
<1> SUFFICES ASSUME RenewalInv, [Next]_vars PROVE OwnInv'
  OBVIOUS
<1>0. TypeOK /\ MintedInv /\ DescendsInv /\ WaitsInv /\ AskedInv
  BY DEF RenewalInv, ChainInv, IInv
<1>1. /\ TypeOK /\ MintedInv /\ DescendsInv /\ WaitsInv /\ AskedInv
      /\ minted \in Nat /\ Pair \subseteq Nat /\ NoPair \notin Pair
  BY <1>0, TimingTypes, PairType
<1>2. PICK owner \in [Pair -> Browser] : Owned(owner, jar, sent, token, set, exchange)
  BY DEF RenewalInv, OwnInv
<1>3. ASSUME Owned(owner, jar', sent', token', set', exchange') PROVE OwnInv'
  BY <1>2, <1>3 DEF OwnInv
<1>4. ASSUME NEW r \in Request, NEW b \in Browser, NEW k \in Kind, NEW p \in Process,
             Send(r, b, k, p)
      PROVE  OwnInv'
  <2>1. /\ sent' = [sent EXCEPT ![r] = [kind |-> k, proc |-> p, from |-> b,
                                        carried |-> jar[b], at |-> now]]
        /\ stage[r] = "idle"
        /\ UNCHANGED <<jar, token, set, exchange>>
    BY <1>4 DEF Send
  <2>2. token[r] = NoPair /\ set[r] = NoPair
    BY <1>1, <2>1 DEF WaitsInv, RenewalInv, ChainInv, IInv, ServedInv
  <2>3. /\ sent'[r].carried = jar[b] /\ sent'[r].from = b
        /\ \A s \in Request : s # r => sent'[s] = sent[s]
    BY <1>1, <2>1 DEF TypeOK
  <2> QED
    BY <1>1, <1>2, <1>3, <2>1, <2>2, <2>3 DEF Owned
<1>5. ASSUME NEW r \in Request, Deliver(r) PROVE OwnInv'
  <2>1. /\ \A s \in Request : s # r => sent'[s] = sent[s] /\ token'[s] = token[s]
                                       /\ set'[s] = set[s]
        /\ sent'[r].carried = NoPair /\ token'[r] = NoPair /\ set'[r] = NoPair
        /\ UNCHANGED exchange
    BY <1>1, <1>5 DEF Deliver, TypeOK, Unsent
  <2>2. \A b \in Browser : \/ jar'[b] = jar[b] \/ jar'[b] = NoPair
                           \/ jar'[b] = set[r] /\ sent[r].from = b
    BY <1>1, <1>5 DEF Deliver, TypeOK
  <2>3. set[r] # NoPair => set[r] \in Pair
    BY <1>1 DEF TypeOK
  <2>4. \A b \in Browser : jar'[b] # NoPair => owner[jar'[b]] = b
    BY <1>2, <2>2, <2>3 DEF Owned
  <2>5. ASSUME NEW s \in Request, NEW n \in Pair, n \in {sent'[s].carried, token'[s], set'[s]}
        PROVE  owner[n] = sent'[s].from
    BY <1>1, <1>2, <2>1, <2>5 DEF Owned
  <2> QED
    BY <1>2, <1>3, <2>1, <2>4, <2>5 DEF Owned
<1>6. CASE Tick \/ UNCHANGED vars
  <2>1. UNCHANGED <<jar, sent, token, set, exchange>>
    BY <1>6 DEF Tick, vars, requestVars
  <2> QED
    BY <1>2, <1>3, <2>1
<1>7. ASSUME NEW r \in Request, HandleCallback(r), set' # set PROVE OwnInv'
  <2>1. /\ UNCHANGED <<jar, sent, token, exchange>>
        /\ minted + 1 \in Pair /\ set' = [set EXCEPT ![r] = minted + 1]
    BY <1>1, <1>7, CallbackFrame
  <2> DEFINE next == [owner EXCEPT ![minted + 1] = sent[r].from]
  <2>2. sent[r].from \in Browser
    BY <1>1 DEF TypeOK, SentRecord
  <2>3. next \in [Pair -> Browser] /\ next[minted + 1] = sent[r].from
        /\ \A n \in Pair : n # minted + 1 => next[n] = owner[n]
    BY <1>2, <2>1, <2>2
  <2>4. \A n \in Nat : n <= minted => n # minted + 1
    BY <1>1
  <2>5. /\ \A b \in Browser : jar[b] # NoPair => jar[b] \in Pair /\ jar[b] # minted + 1
        /\ \A s \in Request : sent[s].carried # minted + 1 /\ token[s] # minted + 1
                              /\ set[s] # minted + 1
        /\ \A p \in Process, t \in Pair : exchange[p][t].pair # NoPair =>
             exchange[p][t].pair \in Pair /\ exchange[p][t].pair # minted + 1 /\ t # minted + 1
    BY <1>1, <2>4 DEF MintedInv, DescendsInv, TypeOK, SentRecord, ExchangeRecord
  <2>6. set'[r] = minted + 1 /\ \A s \in Request : s # r => set'[s] = set[s]
    BY <1>1, <2>1 DEF TypeOK
  <2> HIDE DEF next
  <2>7. Owned(next, jar', sent', token', set', exchange')
    <3>1. \A b \in Browser : jar'[b] # NoPair => next[jar'[b]] = b
      BY <1>2, <2>1, <2>3, <2>5 DEF Owned
    <3>2. ASSUME NEW s \in Request, NEW n \in Pair,
                 n \in {sent'[s].carried, token'[s], set'[s]}
          PROVE  next[n] = sent'[s].from
      <4>1. CASE n = minted + 1
        <5>1. s = r
          BY <2>1, <2>5, <2>6, <3>2, <4>1
        <5> QED
          BY <2>1, <2>3, <4>1, <5>1
      <4>2. CASE n # minted + 1
        <5>1. n \in {sent[s].carried, token[s], set[s]}
          BY <2>1, <2>6, <3>2, <4>2
        <5> QED
          BY <1>2, <2>1, <2>3, <4>2, <5>1 DEF Owned
      <4> QED
        BY <4>1, <4>2
    <3>3. \A p \in Process, t \in Pair :
            exchange'[p][t].pair # NoPair => next[exchange'[p][t].pair] = next[t]
      BY <1>2, <2>1, <2>3, <2>5 DEF Owned
    <3> QED
      BY <3>1, <3>2, <3>3 DEF Owned
  <2> QED
    BY <2>3, <2>7 DEF OwnInv
<1>8. ASSUME NEW p \in Process, NEW t \in Pair, IssuerAnswers(p, t) PROVE OwnInv'
  <2>1. UNCHANGED <<jar, sent, token, set>> /\ exchange[p][t].status = "asked"
    BY <1>1, <1>8, AnswerFrame
  <2>2. CASE Trades(p, t, NoPair)
    <3>1. \A q \in Process, u \in Pair :
            exchange'[q][u].pair \in {exchange[q][u].pair, NoPair}
      BY <1>1, <2>2 DEF Trades, TypeOK
    <3> QED
      BY <1>2, <1>3, <2>1, <3>1 DEF Owned
  <2>3. CASE minted + 1 \in Pair /\ Trades(p, t, minted + 1)
    <3> DEFINE next == [owner EXCEPT ![minted + 1] = owner[t]]
    <3>1. t <= minted
      BY <1>1, <2>1 DEF AskedInv, Waits, MintedInv
    <3>2. \A n \in Nat : n <= minted => n # minted + 1
      BY <1>1
    <3>3. next \in [Pair -> Browser] /\ next[minted + 1] = owner[t] /\ t # minted + 1
          /\ \A n \in Pair : n # minted + 1 => next[n] = owner[n]
      BY <1>1, <1>2, <2>3, <3>1, <3>2
    <3>4. /\ \A b \in Browser : jar[b] # NoPair => jar[b] \in Pair /\ jar[b] # minted + 1
          /\ \A s \in Request : sent[s].carried # minted + 1 /\ token[s] # minted + 1
                                /\ set[s] # minted + 1
          /\ \A q \in Process, u \in Pair : exchange[q][u].pair # NoPair =>
               exchange[q][u].pair \in Pair /\ exchange[q][u].pair # minted + 1 /\ u # minted + 1
      BY <1>1, <3>2 DEF MintedInv, DescendsInv, TypeOK, SentRecord, ExchangeRecord
    <3>5. \A q \in Process, u \in Pair :
            \/ exchange'[q][u].pair = exchange[q][u].pair
            \/ u = t /\ exchange'[q][u].pair = minted + 1
      BY <1>1, <2>3 DEF Trades, TypeOK
    <3> HIDE DEF next
    <3>6. Owned(next, jar', sent', token', set', exchange')
      <4>1. \A b \in Browser : jar'[b] # NoPair => next[jar'[b]] = b
        BY <1>2, <2>1, <3>3, <3>4 DEF Owned
      <4>2. \A s \in Request, n \in Pair :
              n \in {sent'[s].carried, token'[s], set'[s]} => next[n] = sent'[s].from
        BY <1>2, <2>1, <3>3, <3>4 DEF Owned
      <4>3. ASSUME NEW q \in Process, NEW u \in Pair, exchange'[q][u].pair # NoPair
            PROVE  next[exchange'[q][u].pair] = next[u]
        BY <1>2, <3>3, <3>4, <3>5, <4>3 DEF Owned
      <4> QED
        BY <4>1, <4>2, <4>3 DEF Owned
    <3> QED
      BY <3>3, <3>6 DEF OwnInv
  <2> QED
    BY <1>1, <1>8, <2>2, <2>3, AnswerFrame
<1>9. CASE Work /\ UNCHANGED minted
  <2>0. minted # minted + 1
    BY <1>1
  <2>1. /\ jar' = jar /\ sent' = sent
        /\ \A r \in Request : TokenStep(r) /\ SetStep(r)
        /\ \A p \in Process, t \in Pair : ExchangeStep(p, t)
    BY <1>1, <1>9, WorkFrame, TokenFrame, ResponseFrame, ExchangeFrame
  <2>2. ASSUME NEW r \in Request, NEW n \in Pair, n \in {sent'[r].carried, token'[r], set'[r]}
        PROVE  owner[n] = sent'[r].from
    <3>1. CASE n \in {sent[r].carried, token[r], set[r]}
      BY <1>2, <2>1, <3>1 DEF Owned
    <3>2. CASE sent[r].carried \in Pair /\ n = Source(r).pair
      <4>1. owner[sent[r].carried] = sent[r].from
        BY <1>2, <3>2 DEF Owned
      <4>2. owner[n] = owner[sent[r].carried]
        <5> DEFINE p == sent[r].proc
                   t == sent[r].carried
        <5>1. p \in Process /\ t \in Pair /\ exchange[p][t].pair = n
          BY <1>1, <3>2, RequestTypes DEF Source
        <5>2. n # NoPair
          BY <1>1
        <5>3. \A q \in Process, u \in Pair :
                exchange[q][u].pair # NoPair => owner[exchange[q][u].pair] = owner[u]
          BY <1>2 DEF Owned
        <5> HIDE DEF p, t
        <5>4. owner[n] = owner[t]
          BY ONLY <5>1, <5>2, <5>3
        <5> QED
          BY <5>4 DEF t
      <4> QED
        BY <2>1, <4>1, <4>2
    <3> QED
      BY <1>1, <1>9, <2>0, <2>1, <2>2, <3>1, <3>2 DEF TokenStep, SetStep
  <2>3. ASSUME NEW p \in Process, NEW t \in Pair
        PROVE  exchange'[p][t].pair \in {exchange[p][t].pair, NoPair}
    <3>1. ExchangeStep(p, t) /\ minted' = minted
      BY <1>9, <2>1
    <3> QED
      BY ONLY <2>0, <3>1 DEF ExchangeStep, Absent
  <2> QED
    BY <1>2, <1>3, <2>1, <2>2, <2>3 DEF Owned
<1>10. CASE Work /\ ~UNCHANGED minted
  <2>1. ~UNCHANGED issuerVars
    BY <1>10 DEF issuerVars
  <2>2. ASSUME NEW r \in Request, HandleCallback(r) PROVE set' # set
    <3>1. minted + 1 \in Pair /\ set' = [set EXCEPT ![r] = minted + 1]
      BY <1>1, <1>10, <2>2, CallbackFrame
    <3>2. set[r] # minted + 1
      BY <1>1 DEF MintedInv, TypeOK
    <3> QED
      BY <1>1, <3>1, <3>2 DEF TypeOK
  <2> QED
    BY <1>7, <1>8, <2>1, <2>2, IssuerFrame
<1> QED
  BY <1>4, <1>5, <1>6, <1>9, <1>10, NextCases

LEMMA SpentStep == RenewalInv /\ [Next]_vars => SpentInv'
<1> SUFFICES ASSUME RenewalInv, [Next]_vars PROVE SpentInv'
  OBVIOUS
<1>1. TypeOK /\ AskedInv /\ MintedInv /\ SpentInv
  BY DEF RenewalInv, ChainInv, IInv
<1>2. /\ now \in Nat /\ minted \in Nat /\ AccessTtl \in Nat /\ Skew \in Nat
      /\ \A n \in Pair : n \in Nat /\ mintedAt[n] \in Nat /\ rotatedAt[n] \subseteq Nat
      /\ minted' \in {minted, minted + 1}
      /\ \A n \in Pair : n <= minted => mintedAt'[n] = mintedAt[n]
  BY <1>1, TimingTypes, MintFrame
<1>3. now' \in {now, now + 1}
  BY <1>1, NextCases, WorkFrame DEF Send, Deliver, Tick, vars
<1>4. ASSUME NEW p \in Process, NEW t \in Pair,
             exchange[p][t].status \in {"asked", "answered"}
      PROVE  t <= minted /\ mintedAt[t] + AccessTtl <= now + Skew
  BY <1>1, <1>4 DEF AskedInv, Waits, MintedInv, SpentInv
<1>5. ASSUME NEW p \in Process, NEW t \in Pair,
             exchange'[p][t].status \in {"asked", "answered"}
      PROVE  mintedAt'[t] + AccessTtl <= now' + Skew
  <2>1. CASE exchange[p][t].status \in {"asked", "answered"}
    BY <1>2, <1>3, <1>4, <2>1
  <2>2. CASE exchange[p][t].status \notin {"asked", "answered"}
    <3>1. Work
      BY <1>5, <2>2, NextCases DEF Send, Deliver, Tick, vars
    <3>2. /\ now' = now /\ exchange[p][t].status = "absent"
          /\ \E r \in Request : /\ sent[r].carried = t
                                /\ stage[r] = "arriving" /\ stage'[r] = "exchanging"
      <4>1. ExchangeStep(p, t)
        BY <1>1, <3>1, ExchangeFrame
      <4> QED
        BY <1>1, <1>5, <2>2, <3>1, <4>1, WorkFrame DEF ExchangeStep, Absent
    <3>3. t <= minted /\ ~Unspent(t)
      BY <1>1, <3>1, <3>2, StartFrame DEF MintedInv
    <3>4. ~(now + Skew < mintedAt[t] + AccessTtl)
      BY <3>3, PairType DEF Unspent
    <3> QED
      BY <1>2, <3>2, <3>3, <3>4
  <2> QED
    BY <2>1, <2>2
<1>6. ASSUME NEW t \in Pair, NEW m \in rotatedAt'[t]
      PROVE  /\ t <= minted'
             /\ m <= now'
             /\ mintedAt'[t] + AccessTtl <= m + Skew
             /\ rotatedAt'[t] = {m}
  <2>1. CASE rotatedAt'[t] = rotatedAt[t]
    <3>1. /\ m \in Nat /\ t <= minted /\ m <= now
          /\ mintedAt[t] + AccessTtl <= m + Skew /\ rotatedAt[t] = {m}
      BY <1>1, <1>2, <1>6, <2>1 DEF SpentInv
    <3> QED
      BY <1>2, <1>3, <2>1, <3>1
  <2>2. CASE rotatedAt'[t] # rotatedAt[t]
    <3>1. /\ rotatedAt'[t] = {now} /\ now' = now
          /\ \E p \in Process : exchange[p][t].status = "asked"
      BY <1>1, <2>2, RotateFrame
    <3>2. t <= minted /\ mintedAt[t] + AccessTtl <= now + Skew
      BY <1>4, <3>1
    <3> QED
      BY <1>2, <1>6, <3>1, <3>2
  <2> QED
    BY <2>1, <2>2
<1> QED
  BY <1>5, <1>6 DEF SpentInv

LEMMA TradedStep == RenewalInv /\ [Next]_vars => TradedInv'
<1> SUFFICES ASSUME RenewalInv, [Next]_vars, NEW p \in Process, NEW t \in Pair,
                    exchange'[p][t].pair # NoPair
             PROVE  /\ t < exchange'[p][t].pair
                    /\ \E m \in rotatedAt'[t] : m <= mintedAt'[exchange'[p][t].pair]
  BY DEF TradedInv
<1>1. TypeOK /\ TypeOK' /\ AskedInv /\ MintedInv /\ SpentInv /\ TradedInv
  BY TypeStep DEF RenewalInv, ChainInv, IInv
<1>2. /\ now \in Nat /\ minted \in Nat
      /\ \A n \in Pair : /\ n \in Nat /\ rotatedAt[n] \subseteq Nat
                         /\ n <= minted => mintedAt'[n] = mintedAt[n]
  BY <1>1, TimingTypes, MintFrame
<1>3. CASE exchange'[p][t].pair = exchange[p][t].pair
  <2> DEFINE n == exchange[p][t].pair
  <2>1. /\ t < n /\ n \in Pair /\ n <= minted
        /\ \E m \in rotatedAt[t] : m <= mintedAt[n]
    BY <1>1, <1>3 DEF TradedInv, MintedInv, TypeOK, ExchangeRecord
  <2>2. rotatedAt'[t] = rotatedAt[t]
    BY <1>1, <2>1, RotateFrame
  <2> QED
    BY <1>2, <1>3, <2>1, <2>2
<1>4. CASE exchange'[p][t].pair # exchange[p][t].pair
  <2>1. Work
    BY <1>4, NextCases DEF Send, Deliver, Tick, vars
  <2>2. ~UNCHANGED issuerVars
    <3>1. ExchangeStep(p, t)
      BY <1>1, <2>1, ExchangeFrame
    <3>2. exchange'[p][t].pair = minted + 1 /\ minted' = minted + 1
      BY <1>4, <3>1 DEF ExchangeStep, Absent
    <3> QED
      BY <1>2, <3>2 DEF issuerVars
  <2>3. ASSUME NEW r \in Request, HandleCallback(r) PROVE FALSE
    BY <1>1, <1>4, <2>3, CallbackFrame
  <2>4. PICK q \in Process, u \in Pair : IssuerAnswers(q, u)
    BY <2>2, <2>3, IssuerFrame
  <2>5. q = p /\ u = t
    <3>1. \E n : Trades(q, u, n)
      BY <1>1, <2>4, AnswerFrame
    <3> QED
      BY <1>1, <1>4, <3>1 DEF Trades, TypeOK
  <2>6. /\ exchange[p][t].status = "asked"
        /\ minted + 1 \in Pair /\ Trades(p, t, minted + 1)
        /\ mintedAt' = [mintedAt EXCEPT ![minted + 1] = now]
        /\ rotatedAt' = [rotatedAt EXCEPT ![t] = IF @ = {} THEN {now} ELSE @]
    <3>1. ASSUME Trades(p, t, NoPair) PROVE FALSE
      BY <1>1, <3>1 DEF Trades, TypeOK
    <3> QED
      BY <1>1, <2>4, <2>5, <3>1, AnswerFrame
  <2>7. exchange'[p][t].pair = minted + 1 /\ mintedAt'[minted + 1] = now
    BY <1>1, <2>6 DEF Trades, TypeOK
  <2>8. t <= minted
    BY <1>1, <2>6 DEF AskedInv, Waits, MintedInv
  <2>9. rotatedAt'[t] = IF rotatedAt[t] = {} THEN {now} ELSE rotatedAt[t]
    BY <1>1, <2>6 DEF TypeOK
  <2>10. \A m \in rotatedAt[t] : m <= now
    BY <1>1 DEF SpentInv
  <2>11. \E m \in rotatedAt'[t] : m <= now
    BY <1>2, <2>9, <2>10
  <2> QED
    BY <1>2, <2>7, <2>8, <2>11
<1> QED
  BY <1>3, <1>4

LEMMA WaitsStep == RenewalInv /\ [Next]_vars => WaitsInv'
<1> SUFFICES ASSUME RenewalInv, [Next]_vars, NEW r \in Request
             PROVE  /\ stage'[r] = "exchanging" =>
                         sent'[r].kind \in {"guard", "relay"} /\ sent'[r].carried # NoPair
                    /\ stage'[r] = "idle" => sent'[r].carried = NoPair /\ set'[r] = NoPair
  BY DEF WaitsInv
<1>1. TypeOK /\ WaitsInv
  BY DEF RenewalInv, ChainInv, IInv
<1>2. ASSUME stage'[r] = stage[r], sent'[r] = sent[r], set'[r] = set[r]
      PROVE  /\ stage'[r] = "exchanging" =>
                  sent'[r].kind \in {"guard", "relay"} /\ sent'[r].carried # NoPair
             /\ stage'[r] = "idle" => sent'[r].carried = NoPair /\ set'[r] = NoPair
  BY <1>1, <1>2 DEF WaitsInv
<1>3. ASSUME NEW s \in Request, NEW b \in Browser, NEW k \in Kind, NEW p \in Process,
             Send(s, b, k, p)
      PROVE  stage'[r] = "arriving" \/ (stage'[r] = stage[r] /\ sent'[r] = sent[r] /\ set'[r] = set[r])
  BY <1>1, <1>3 DEF Send, TypeOK
<1>4. ASSUME NEW s \in Request, Deliver(s)
      PROVE  \/ stage'[r] = "idle" /\ sent'[r].carried = NoPair /\ set'[r] = NoPair
             \/ stage'[r] = stage[r] /\ sent'[r] = sent[r] /\ set'[r] = set[r]
  BY <1>1, <1>4 DEF Deliver, TypeOK, Unsent
<1>5. CASE Work
  <2>1. sent' = sent /\ (stage'[r] = "idle" <=> stage[r] = "idle") /\ SetStep(r)
    BY <1>1, <1>5, WorkFrame, ResponseFrame
  <2>2. stage'[r] = "exchanging" =>
          sent'[r].kind \in {"guard", "relay"} /\ sent'[r].carried # NoPair
    BY <1>1, <1>5, <2>1, StartFrame DEF WaitsInv
  <2>3. stage[r] = "idle" => set'[r] \in {set[r], NoPair}
    BY <1>1, <2>1, CallbackFrame DEF SetStep
  <2> QED
    BY <1>1, <2>1, <2>2, <2>3 DEF WaitsInv
<1>6. CASE Tick \/ UNCHANGED vars
  BY <1>2, <1>6 DEF Tick, vars, requestVars
<1> QED
  BY <1>2, <1>3, <1>4, <1>5, <1>6, NextCases

(* A request that brings a pair is still outstanding.                        *)
LEMMA BringsOutstanding ==
  ASSUME NEW w \in Request, NEW t, Brings(w, t)
  PROVE  stage[w] # "idle"
  BY DEF Brings

LEMMA LateStep == RenewalInv /\ [Next]_vars => LateInv'
<1> SUFFICES ASSUME RenewalInv, [Next]_vars, NEW r \in Request, NEW n \in Pair
             PROVE  /\ n = sent'[r].carried /\ IsAssured(n)' =>
                         \A m \in rotatedAt'[n] : sent'[r].at <= m + MaxFlight
                    /\ n \in {token'[r], set'[r]} /\ n # sent'[r].carried /\ IsAssured(n)' =>
                         sent'[r].at <= mintedAt'[n] + MaxFlight
                    /\ n = set'[r] => n # sent'[r].carried
  BY DEF LateInv, IsAssured
<1> DEFINE Late == /\ n = sent'[r].carried /\ IsAssured(n)' =>
                        \A m \in rotatedAt'[n] : sent'[r].at <= m + MaxFlight
                   /\ n \in {token'[r], set'[r]} /\ n # sent'[r].carried /\ IsAssured(n)' =>
                        sent'[r].at <= mintedAt'[n] + MaxFlight
                   /\ n = set'[r] => n # sent'[r].carried
<1>1. /\ TypeOK /\ MintedInv /\ FlightInv /\ ServedInv /\ DescendsInv /\ RootInv /\ TradedInv
      /\ WaitsInv /\ LateInv /\ WitnessInv
  BY DEF RenewalInv, ChainInv, IInv
<1>2. /\ now \in Nat /\ minted \in Nat /\ MaxFlight \in Nat /\ n \in Nat /\ n # NoPair
      /\ sent[r].at \in Nat
      /\ \A u \in Pair : /\ u \in Nat /\ mintedAt[u] \in Nat /\ rotatedAt[u] \subseteq Nat
                         /\ u <= minted => /\ mintedAt'[u] = mintedAt[u]
                                           /\ IsAssured(u)' <=> IsAssured(u)
  BY <1>1, TimingTypes, RequestTypes, MintFrame, AssuranceFrame
<1>3. /\ sent[r].carried <= minted /\ token[r] <= minted /\ set[r] <= minted
  BY <1>1 DEF MintedInv
<1>4. ASSUME sent'[r] = sent[r], token'[r] = token[r], set'[r] = set[r],
             rotatedAt' = rotatedAt
      PROVE  Late
  BY <1>1, <1>2, <1>3, <1>4 DEF LateInv
<1>5. ASSUME NEW s \in Request, NEW b \in Browser, NEW k \in Kind, NEW p \in Process,
             Send(s, b, k, p)
      PROVE  Late
  <2>1. /\ stage[s] = "idle" /\ UNCHANGED <<token, set, rotatedAt>>
        /\ sent' = [sent EXCEPT ![s] = [kind |-> k, proc |-> p, from |-> b,
                                        carried |-> jar[b], at |-> now]]
    BY <1>5 DEF Send, issuerVars
  <2>2. CASE r # s
    BY <1>1, <1>4, <2>1, <2>2 DEF TypeOK
  <2>3. CASE r = s
    <3>1. sent'[r].carried = jar[b] /\ sent'[r].at = now
      BY <1>1, <2>1, <2>3 DEF TypeOK
    <3>2. token'[r] = NoPair /\ set'[r] = NoPair
      BY <1>1, <2>1, <2>3 DEF WaitsInv, ServedInv
    <3>3. ASSUME n = jar[b], IsAssured(n)', NEW m \in rotatedAt[n]
          PROVE  now <= m + MaxFlight
      <4>1. n <= minted /\ IsAssured(n)
        BY <1>1, <1>2, <3>3 DEF MintedInv
      <4>2. PICK w \in Request : sent[w].at <= m /\ Brings(w, n)
        BY <1>1, <3>3, <4>1 DEF WitnessInv
      <4>3. now <= sent[w].at + MaxFlight
        BY <1>1, <4>2, BringsOutstanding DEF FlightInv
      <4>4. sent[w].at \in Nat /\ m \in Nat
        BY <1>1, <1>2, <3>3, RequestTypes
      <4> QED
        BY <1>2, <4>2, <4>3, <4>4
    <3> QED
      BY <1>2, <2>1, <3>1, <3>2, <3>3
  <2> QED
    BY <2>2, <2>3
<1>6. ASSUME NEW s \in Request, Deliver(s) PROVE Late
  <2>1. CASE r # s
    BY <1>1, <1>4, <1>6, <2>1 DEF Deliver, TypeOK, issuerVars
  <2>2. CASE r = s
    <3>1. sent'[r].carried = NoPair /\ token'[r] = NoPair /\ set'[r] = NoPair
      BY <1>1, <1>6, <2>2 DEF Deliver, TypeOK, Unsent
    <3> QED
      BY <1>2, <3>1
  <2> QED
    BY <2>1, <2>2
<1>7. CASE Tick \/ UNCHANGED vars
  BY <1>4, <1>7 DEF Tick, vars, requestVars, issuerVars
<1>8. CASE Work
  <2>1. sent' = sent /\ TokenStep(r) /\ SetStep(r)
    BY <1>1, <1>8, WorkFrame, TokenFrame, ResponseFrame
  <2>2. ASSUME n = sent[r].carried, IsAssured(n)', NEW m \in rotatedAt'[n]
        PROVE  sent[r].at <= m + MaxFlight
    <3>1. IsAssured(n)
      BY <1>2, <1>3, <2>2
    <3>2. CASE rotatedAt'[n] = rotatedAt[n]
      BY <1>1, <2>2, <3>1, <3>2 DEF LateInv
    <3>3. CASE rotatedAt'[n] # rotatedAt[n]
      <4>1. m = now
        BY <1>1, <2>2, <3>3, RotateFrame
      <4>2. sent[r].at <= now
        BY <1>1, <1>2, <2>2 DEF WaitsInv, FlightInv
      <4> QED
        BY <1>2, <4>1, <4>2
    <3> QED
      BY <3>2, <3>3
  <2>3. ASSUME sent[r].carried \in Pair, Source(r).pair = n, IsAssured(n)'
        PROVE  sent[r].at <= mintedAt'[n] + MaxFlight
    <3> DEFINE t == sent[r].carried
    <3>1. /\ n <= minted /\ root[n] = root[t]
          /\ \E m \in rotatedAt[t] : m <= mintedAt[n]
      BY <1>1, <1>2, <2>3, RequestTypes DEF Source, MintedInv, DescendsInv, TradedInv
    <3>2. IsAssured(t)
      BY <1>2, <2>3, <3>1 DEF IsAssured
    <3>3. PICK m \in rotatedAt[t] : m <= mintedAt[n]
      BY <3>1
    <3>4. sent[r].at <= m + MaxFlight
      BY <1>1, <2>3, <3>2, <3>3 DEF LateInv
    <3>5. m \in Nat /\ mintedAt[n] \in Nat /\ mintedAt'[n] = mintedAt[n]
      BY <1>2, <2>3, <3>1, <3>3
    <3> QED
      BY <1>2, <3>3, <3>4, <3>5
  <2>4. ASSUME n \in {token[r], set[r]}, n # sent[r].carried, IsAssured(n)'
        PROVE  sent[r].at <= mintedAt'[n] + MaxFlight
    <3>1. n <= minted
      BY <1>3, <2>4
    <3> QED
      BY <1>1, <1>2, <2>4, <3>1 DEF LateInv
  <2>5. ASSUME HandleCallback(r), mintedAt'[minted + 1] = now, n = minted + 1
        PROVE  sent[r].at <= mintedAt'[n] + MaxFlight
    <3>1. stage[r] = "arriving"
      BY <2>5 DEF HandleCallback
    <3>2. sent[r].at <= now
      BY <1>1, <3>1 DEF FlightInv
    <3> QED
      BY <1>2, <2>5, <3>2
  <2>6. ASSUME n \in {token'[r], set'[r]}, n # sent[r].carried, IsAssured(n)'
        PROVE  sent[r].at <= mintedAt'[n] + MaxFlight
    BY <1>2, <2>1, <2>3, <2>4, <2>5, <2>6 DEF TokenStep, SetStep
  <2>7. n = set'[r] => n # sent[r].carried
    <3>1. set[r] = n => n # sent[r].carried
      BY <1>1 DEF LateInv
    <3>2. sent[r].carried \in Pair /\ Source(r).pair = n => n # sent[r].carried
      BY <1>1, <1>2, RequestTypes DEF Source, TradedInv
    <3>3. n = minted + 1 => n # sent[r].carried
      BY <1>2, <1>3
    <3> QED
      BY <1>2, <2>1, <3>1, <3>2, <3>3 DEF SetStep
  <2> QED
    BY <2>1, <2>2, <2>6, <2>7
<1> QED
  BY <1>5, <1>6, <1>7, <1>8, NextCases

(* When nothing fails, no step of the server side loses a pair on its way to *)
(* a browser.                                                                *)
LEMMA BringsFrame ==
  ASSUME RenewalsArrive, RenewalInv, Work, NEW w \in Request, NEW t \in Pair,
         sent[w].carried = t, IsAssured(t), Brings(w, t)
  PROVE  Brings(w, t)'
<1> DEFINE p == sent[w].proc
           e == exchange[p][t]
<1>1. TypeOK /\ DescendsInv /\ TradedInv /\ WaitsInv
  BY DEF RenewalInv, ChainInv, IInv
<1>2. p \in Process /\ sent' = sent
  BY <1>1, RequestTypes, WorkFrame
<1>3. ASSUME stage'[w] = stage[w], token'[w] = token[w], set'[w] = set[w],
             stage[w] = "exchanging" /\ e.status = "answered" => exchange'[p][t] = e
      PROVE  Brings(w, t)'
  BY <1>2, <1>3 DEF Brings
<1>4. ASSUME NEW s \in Request, Handle(s) PROVE Brings(w, t)'
  <2>1. stage[s] = "arriving" /\ s # w
    BY <1>4 DEF Handle, HandleGuard, HandleRelay, HandleCallback, HandleLogout, Brings
  <2>2. \/ UNCHANGED exchange
        \/ \E f : /\ exchange[sent[s].proc][sent[s].carried].status = "absent"
                  /\ exchange' = [exchange EXCEPT ![sent[s].proc][sent[s].carried] = f]
    BY <1>4 DEF Handle, HandleGuard, HandleRelay, HandleCallback, HandleLogout, RefreshOnce
  <2>3. e.status = "answered" => exchange'[p][t] = e
    <3> DEFINE q == sent[s].proc
               u == sent[s].carried
    <3>1. /\ q \in Process /\ u \in {NoPair} \cup Pair
          /\ exchange \in [Process -> [Pair -> ExchangeRecord]]
      BY <1>1, RequestTypes DEF TypeOK
    <3> HIDE DEF q, u
    <3>2. CASE p = q /\ t = u
      BY <1>2, <2>2, <3>1, <3>2 DEF q, u
    <3>3. CASE ~(p = q /\ t = u)
      <4>1. exchange' = exchange \/ \E f : exchange' = [exchange EXCEPT ![q][u] = f]
        BY <2>2 DEF q, u
      <4> QED
        BY <1>2, <3>1, <3>3, <4>1
    <3> QED
      BY <3>2, <3>3
  <2>4. stage'[w] = stage[w] /\ token'[w] = token[w] /\ set'[w] = set[w]
    BY <1>1, <1>4, <2>1 DEF Handle, HandleGuard, HandleRelay, HandleCallback, HandleLogout,
                            RefreshOnce, TypeOK
  <2> QED
    BY <1>3, <2>3, <2>4
<1>5. ASSUME NEW s \in Request, Upstream(s) PROVE Brings(w, t)'
  <2>1. UpstreamAnswers(s)
    BY <1>5 DEF Upstream, UpstreamFails, RenewalsArrive
  <2>2. CASE s # w
    BY <1>1, <1>3, <2>1, <2>2 DEF UpstreamAnswers, TypeOK
  <2>3. CASE s = w
    <3>1. token[w] \notin {NoPair, t}
      BY <2>1, <2>3 DEF UpstreamAnswers, Brings
    <3>2. stage'[w] = "answering" /\ set'[w] = token[w]
      BY <1>1, <2>1, <2>3, <3>1 DEF UpstreamAnswers, TypeOK
    <3> QED
      BY <3>1, <3>2 DEF Brings
  <2> QED
    BY <2>2, <2>3
<1>6. ASSUME NEW q \in Process, NEW u \in Pair, IssuerAnswers(q, u) \/ Forget(q, u)
      PROVE  Brings(w, t)'
  <2>1. \E f : /\ exchange[q][u].status \in {"asked", "kept"}
               /\ exchange' = [exchange EXCEPT ![q][u] = f]
    BY <1>6 DEF IssuerAnswers, Forget
  <2>2. e.status = "answered" => exchange'[p][t] = e
    <3>1. exchange[q][u].status # "answered" /\ \E f : exchange' = [exchange EXCEPT ![q][u] = f]
      BY <2>1
    <3> QED
      BY <1>1, <1>2, <3>1 DEF TypeOK
  <2>3. stage' = stage /\ token' = token /\ set' = set
    BY <1>6 DEF IssuerAnswers, Forget, requestVars
  <2> QED
    BY <1>3, <2>2, <2>3
<1>7. ASSUME NEW q \in Process, NEW u \in Pair, Exchange(q, u) PROVE Brings(w, t)'
  <2> DEFINE n == exchange[q][u].pair
  <2>1. exchange[q][u].status = "answered" /\ Resolve(q, u, n)
    BY <1>7 DEF Exchange, Settle, ExchangeFails, RenewalsArrive
  <2>2. CASE Waits(w, q, u)
    <3>1. stage[w] = "exchanging" /\ q = p /\ u = t
      BY <2>2 DEF Waits
    <3>2. n # NoPair
      BY <3>1 DEF Brings
    <3>3. /\ n # t /\ root[n] = root[t]
          /\ sent[w].kind \in {"guard", "relay"}
      <4>1. t < n /\ root[n] = root[t] /\ t \in Nat
        BY <1>1, <3>1, <3>2, PairType DEF TradedInv, DescendsInv
      <4>2. n # t
        <5> HIDE DEF n
        <5> QED
          BY ONLY <4>1
      <4> QED
        BY <1>1, <3>1, <4>1, <4>2 DEF WaitsInv
    <3>4. IsAssured(n)
      BY <3>3 DEF IsAssured
    <3>5. /\ stage'[w] = StageAfter(sent[w].kind, n) /\ token'[w] = TokenAfter(sent[w].kind, n)
          /\ set'[w] = SetAfter(sent[w].kind, n)
      BY <2>1, <2>2 DEF Resolve
    <3>6. \/ stage'[w] = "forwarding" /\ token'[w] = n
          \/ stage'[w] = "answering" /\ set'[w] = n
      <4> HIDE DEF n
      <4> QED
        BY <3>2, <3>3, <3>4, <3>5 DEF StageAfter, TokenAfter, SetAfter
    <3> QED
      BY <3>2, <3>3, <3>6 DEF Brings
  <2>3. CASE ~Waits(w, q, u)
    <3>1. stage'[w] = stage[w] /\ token'[w] = token[w] /\ set'[w] = set[w]
      BY <2>1, <2>3 DEF Resolve
    <3>2. stage[w] = "exchanging" => exchange'[p][t] = e
      <4>1. \E f : exchange' = [exchange EXCEPT ![q][u] = f]
        BY <2>1 DEF Resolve
      <4> QED
        BY <1>1, <1>2, <2>3, <4>1 DEF Waits, TypeOK
    <3> QED
      BY <1>3, <3>1, <3>2
  <2> QED
    BY <2>2, <2>3
<1> QED
  BY <1>4, <1>5, <1>6, <1>7 DEF Work

LEMMA WitnessStep ==
  ASSUME RenewalsArrive
  PROVE  RenewalInv /\ [Next]_vars => WitnessInv'
<1> SUFFICES ASSUME RenewalInv, [Next]_vars, NEW b \in Browser, NEW t \in Pair,
                    NEW m \in rotatedAt'[t], jar'[b] = t, IsAssured(t)'
             PROVE  \E w \in Request :
                      /\ sent'[w].from = b /\ sent'[w].carried = t /\ sent'[w].at <= m
                      /\ Brings(w, t)'
  BY DEF WitnessInv, IsAssured, Brings
<1>1. /\ TypeOK /\ TypeOK' /\ MintedInv /\ MintedInv' /\ FlightInv /\ AskedInv /\ RootInv
      /\ SpentInv /\ LateInv /\ WitnessInv /\ OwnInv
  BY TypeStep, MintedStep DEF RenewalInv, ChainInv, IInv
<1>2. /\ now \in Nat /\ minted \in Nat
      /\ {MaxFlight, AccessTtl, Skew} \subseteq Nat
      /\ t \in Nat /\ t # NoPair /\ mintedAt[t] \in Nat /\ rotatedAt[t] \subseteq Nat
  BY <1>1, TimingTypes
<1>3. ASSUME jar[b] = t, rotatedAt'[t] = rotatedAt[t]
      PROVE  /\ IsAssured(t)
             /\ \E w \in Request : /\ sent[w].from = b /\ sent[w].carried = t /\ sent[w].at <= m
                                    /\ Brings(w, t)
  <2>1. t <= minted
    BY <1>1, <1>3 DEF MintedInv
  <2>2. IsAssured(t)
    BY <1>1, <2>1, AssuranceFrame
  <2> QED
    BY <1>1, <1>3, <2>2 DEF WitnessInv
<1>4. ASSUME jar[b] = t, rotatedAt'[t] = rotatedAt[t], exchange' = exchange,
             \A w \in Request : Brings(w, t) =>
               /\ sent'[w] = sent[w] /\ stage'[w] = stage[w]
               /\ token'[w] = token[w] /\ set'[w] = set[w]
      PROVE  \E w \in Request :
               /\ sent'[w].from = b /\ sent'[w].carried = t /\ sent'[w].at <= m
               /\ Brings(w, t)'
  <2>1. PICK w \in Request : /\ sent[w].from = b /\ sent[w].carried = t /\ sent[w].at <= m
                             /\ Brings(w, t)
    BY <1>3, <1>4
  <2>2. Brings(w, t)' /\ sent'[w] = sent[w]
    BY <1>4, <2>1 DEF Brings
  <2> QED
    BY <2>1, <2>2
<1>5. ASSUME NEW s \in Request, NEW c \in Browser, NEW k \in Kind, NEW p \in Process,
             Send(s, c, k, p)
      PROVE  \E w \in Request :
               /\ sent'[w].from = b /\ sent'[w].carried = t /\ sent'[w].at <= m
               /\ Brings(w, t)'
  <2>1. /\ UNCHANGED <<jar, rotatedAt, exchange, token, set>>
        /\ stage[s] = "idle"
        /\ \A w \in Request : w # s => sent'[w] = sent[w] /\ stage'[w] = stage[w]
    BY <1>1, <1>5 DEF Send, issuerVars, TypeOK
  <2>2. \A w \in Request : Brings(w, t) => w # s
    BY <2>1, BringsOutstanding
  <2> QED
    BY <1>4, <2>1, <2>2
<1>6. ASSUME NEW s \in Request, Deliver(s)
      PROVE  \E w \in Request :
               /\ sent'[w].from = b /\ sent'[w].carried = t /\ sent'[w].at <= m
               /\ Brings(w, t)'
  <2>1. /\ UNCHANGED <<now, minted, rotatedAt, exchange, assured, root>>
        /\ stage[s] = "answering"
        /\ \A w \in Request : w # s => /\ sent'[w] = sent[w] /\ stage'[w] = stage[w]
                                       /\ token'[w] = token[w] /\ set'[w] = set[w]
    BY <1>1, <1>6 DEF Deliver, issuerVars, TypeOK
  <2>2. \/ jar'[b] = jar[b] /\ (sent[s].from = b => set[s] = NoPair)
        \/ jar'[b] = set[s] /\ set[s] # NoPair /\ sent[s].from = b
    BY <1>1, <1>2, <1>6 DEF Deliver, TypeOK
  <2>3. CASE jar'[b] = jar[b] /\ (sent[s].from = b => set[s] = NoPair)
    <3>1. ASSUME NEW w \in Request, sent[w].from = b, Brings(w, t) PROVE w # s
      BY <2>1, <2>3, <3>1 DEF Brings
    <3>2. PICK w \in Request : /\ sent[w].from = b /\ sent[w].carried = t /\ sent[w].at <= m
                               /\ Brings(w, t)
      BY <1>3, <2>1, <2>3
    <3>3. w # s
      BY <3>1, <3>2
    <3>4. Brings(w, t)' /\ sent'[w] = sent[w]
      BY <2>1, <3>2, <3>3 DEF Brings
    <3> QED
      BY <3>2, <3>4
  <2>4. CASE set[s] = t
    <3>1. IsAssured(t)
      BY <2>1 DEF IsAssured
    <3>2. sent[s].at <= mintedAt[t] + MaxFlight
      BY <1>1, <2>4, <3>1 DEF LateInv
    <3>3. now <= sent[s].at + MaxFlight
      BY <1>1, <2>1 DEF FlightInv
    <3>4. m \in Nat /\ m <= now /\ mintedAt[t] + AccessTtl <= m + Skew
      BY <1>1, <1>2, <2>1 DEF SpentInv
    <3>5. sent[s].at \in Nat
      BY <1>1, RequestTypes
    <3>6. FALSE
      BY <1>2, <3>2, <3>3, <3>4, <3>5 DEF RenewalsArrive
    <3> QED
      BY <3>6
  <2> QED
    BY <2>2, <2>3, <2>4
<1>7. CASE Tick \/ UNCHANGED vars
  BY <1>4, <1>7 DEF Tick, vars, requestVars, issuerVars
<1>8. CASE Work
  <2>1. jar' = jar /\ sent' = sent
    BY <1>1, <1>8, WorkFrame
  <2>2. CASE rotatedAt'[t] = rotatedAt[t]
    <3>1. IsAssured(t)
      BY <1>3, <2>1, <2>2
    <3>2. PICK w \in Request : /\ sent[w].from = b /\ sent[w].carried = t /\ sent[w].at <= m
                               /\ Brings(w, t)
      BY <1>3, <2>1, <2>2
    <3>3. Brings(w, t)'
      BY <1>8, <3>1, <3>2, BringsFrame
    <3> QED
      BY <2>1, <3>2, <3>3
  <2>3. CASE rotatedAt'[t] # rotatedAt[t]
    <3>1. m = now /\ stage' = stage /\ minted + 1 \in Pair
      BY <1>1, <2>3, RotateFrame
    <3>2. PICK p \in Process : exchange[p][t].status = "asked" /\ Trades(p, t, minted + 1)
      BY <1>1, <2>3, RotateFrame
    <3>3. PICK w \in Request : Waits(w, p, t) /\ sent[w].at <= exchange[p][t].since
      BY <1>1, <3>2 DEF AskedInv
    <3>4. exchange[p][t].since <= now /\ exchange[p][t].since \in Nat /\ sent[w].at \in Nat
      BY <1>1, <3>2 DEF AskedInv, TypeOK, ExchangeRecord, SentRecord
    <3>5. sent[w].carried = t /\ sent[w].at <= m
      BY <1>2, <3>1, <3>3, <3>4 DEF Waits
    <3>6. sent[w].from = b
      BY <1>1, <1>2, <2>1, <3>5 DEF OwnInv, Owned
    <3>7. exchange'[p][t].status = "answered" /\ exchange'[p][t].pair = minted + 1
      BY <1>1, <3>2 DEF Trades, TypeOK
    <3>8. minted + 1 # NoPair
      BY <3>1, PairType
    <3>9. Brings(w, t)'
      BY <2>1, <3>1, <3>3, <3>7, <3>8 DEF Brings, Waits
    <3> QED
      BY <2>1, <3>5, <3>6, <3>9
  <2> QED
    BY <2>2, <2>3
<1> QED
  BY <1>5, <1>6, <1>7, <1>8, NextCases

LEMMA BreachStep ==
  ASSUME RenewalsArrive
  PROVE  RenewalInv /\ [Next]_vars => NoBreach'
<1> SUFFICES ASSUME RenewalInv, [Next]_vars PROVE NoBreach'
  OBVIOUS
<1>1. TypeOK /\ FlightInv /\ AskedInv /\ LateInv /\ RevokedInv /\ NoBreach
  BY DEF RenewalInv, ChainInv, IInv
<1>2. CASE UNCHANGED issuerVars
  BY <1>1, <1>2 DEF issuerVars, NoBreach
<1>3. ASSUME NEW r \in Request, HandleCallback(r) PROVE NoBreach'
  <2>1. minted + 1 \notin revoked
    BY <1>1, TimingTypes DEF RevokedInv
  <2>2. revoked' = revoked /\ assured' \subseteq assured \cup {minted + 1}
    BY <1>1, <1>3, CallbackFrame
  <2> QED
    BY <1>1, <2>1, <2>2 DEF NoBreach
<1>4. ASSUME NEW p \in Process, NEW t \in Pair, IssuerAnswers(p, t) PROVE NoBreach'
  <2>1. /\ exchange[p][t].status = "asked" /\ assured' = assured
        /\ \/ UNCHANGED revoked
           \/ /\ root[t] \in revoked \/ \E m \in rotatedAt[t] : now > m + Grace
              /\ revoked' = revoked \cup {root[t]}
    BY <1>1, <1>4, AnswerFrame
  <2>2. ASSUME NEW m \in rotatedAt[t], IsAssured(t) PROVE ~(now > m + Grace)
    <3>1. PICK w \in Request : Waits(w, p, t)
      BY <1>1, <2>1 DEF AskedInv
    <3>2. sent[w].at <= m + MaxFlight
      BY <1>1, <2>2, <3>1 DEF LateInv, Waits
    <3>3. now <= sent[w].at + MaxFlight
      BY <1>1, <3>1 DEF FlightInv, Waits
    <3>4. m \in Nat /\ now \in Nat /\ sent[w].at \in Nat /\ {MaxFlight, Grace} \subseteq Nat
      BY <1>1, TimingTypes, RequestTypes
    <3> QED
      BY <3>2, <3>3, <3>4 DEF RenewalsArrive
  <2>3. root[t] \in assured => revoked' = revoked
    BY <1>1, <2>1, <2>2 DEF IsAssured, NoBreach
  <2> QED
    BY <1>1, <2>1, <2>3 DEF NoBreach
<1> QED
  BY <1>2, <1>3, <1>4, IssuerFrame

LEMMA RenewalInit == Init => RenewalInv
<1> SUFFICES ASSUME Init PROVE RenewalInv
  OBVIOUS
<1>1. IInv /\ DescendsInv /\ SameChain
  BY IInvInit DEF Init, DescendsInv, SameChain, Absent
<1>2. TypeOK
  BY <1>1 DEF IInv
<1>3. RootInv /\ RevokedInv /\ NoBreach
  BY PairType DEF Init, RootInv, RevokedInv, NoBreach
<1>4. OwnInv
  <2>1. PICK b \in Browser : TRUE
    BY TimingAssumption
  <2>2. [n \in Pair |-> b] \in [Pair -> Browser]
    OBVIOUS
  <2>3. Owned([n \in Pair |-> b], jar, sent, token, set, exchange)
    BY PairType DEF Init, Owned, Unsent, Absent
  <2> QED
    BY <2>2, <2>3 DEF OwnInv
<1>5. SpentInv /\ TradedInv /\ WaitsInv /\ LateInv /\ WitnessInv
  BY PairType DEF Init, SpentInv, TradedInv, WaitsInv, LateInv, WitnessInv, Unsent, Absent
<1> QED
  BY <1>1, <1>3, <1>4, <1>5 DEF RenewalInv, ChainInv

(* No chain the application can use is revoked as a breach, as long as       *)
(* nothing between the issuer and the browser fails and two requests in a    *)
(* row fit into the grace period of a rotated token: however many processes  *)
(* trade a token and however the responses are reordered, nobody presents it *)
(* once its grace period is over (refreshOnce, the guard's and the relay's   *)
(* Set-Cookie).                                                              *)
THEOREM NoChainInUseIsRevoked ==
  ASSUME RenewalsArrive
  PROVE  Spec => []NoBreach
<1>1. RenewalInv /\ [Next]_vars => RenewalInv'
  <2> SUFFICES ASSUME RenewalInv, [Next]_vars PROVE RenewalInv'
    OBVIOUS
  <2>1. ChainInv'
    BY IInvStep, DescendsStep, ChainStep DEF RenewalInv, ChainInv
  <2> QED
    BY <2>1, RootStep, OwnStep, SpentStep, TradedStep, WaitsStep, LateStep, WitnessStep,
       BreachStep DEF RenewalInv
<1>2. RenewalInv => NoBreach
  BY DEF RenewalInv
<1> QED
  BY <1>1, <1>2, RenewalInit, PTL DEF Spec
=============================================================================
