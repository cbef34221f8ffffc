------------------------- MODULE ApplicationsProofs -------------------------
(***************************************************************************)
(* What Applications promises for any tabs, clients, contents and faults,  *)
(* and though several operators act on one client at once: a               *)
(* registration's parts belong together, an edit touches its own fields, a *)
(* secret is lost in no other way than by an answer lost or a page left,   *)
(* and what the trail says took place.                                     *)
(***************************************************************************)
EXTENDS Applications, TLAPS

Change == [field : Field, from : Value \cup {Blank} \cup SUBSET Grant,
           to : Value \cup {Blank} \cup SUBSET Grant]

Row == [verb : Kind, on : Client, status : {"success", "failure"},
        changes : SUBSET Change, since : Nat, nth : Nat]

-----------------------------------------------------------------------------
(* Types.                                                                    *)
LEMMA Blanks ==
  /\ NoForm \in Form /\ Unborn \in ClientRecord /\ Quiet \in TabRecord
<1>1. NoForm \in Form
  BY DEF NoForm, Form
<1>2. Unborn \in ClientRecord
  BY DEF Unborn, ClientRecord
<1> QED
  BY <1>1, <1>2 DEF Quiet, TabRecord, Kind

LEMMA EachType ==
  ASSUME TypeOK
  PROVE  /\ \A c \in Client : client[c] \in ClientRecord
         /\ \A o \in Tab : tab[o] \in TabRecord /\ tab[o].form \in Form /\ tab[o].read \in ClientRecord
         /\ secrets \in Nat /\ made \in Seq(ChangeRecord) /\ Len(made) \in Nat
         /\ DOMAIN made = 1..Len(made)
         /\ \A n \in 1..Len(made) :
              made[n] \in ChangeRecord /\ made[n].secret \in Nat /\ made[n].on \in Client
<1>1. made \in Seq(ChangeRecord)
  BY DEF TypeOK
<1>2. \A m \in ChangeRecord : m.secret \in Nat /\ m.on \in Client
  BY DEF ChangeRecord
<1>3. /\ \A c \in Client : client[c] \in ClientRecord
      /\ \A o \in Tab : tab[o] \in TabRecord /\ tab[o].form \in Form /\ tab[o].read \in ClientRecord
      /\ secrets \in Nat
  BY DEF TypeOK, TabRecord
<1> QED
  BY <1>1, <1>2, <1>3

(* One tab's record is replaced.                                             *)
LEMMA TabType ==
  ASSUME TypeOK, NEW o \in Tab, NEW t \in TabRecord, tab' = [tab EXCEPT ![o] = t]
  PROVE  /\ tab' \in [Tab -> TabRecord]
         /\ tab'[o] = t
         /\ \A p \in Tab : p # o => tab'[p] = tab[p]
  BY DEF TypeOK

LEMMA ResponseTypesKeep ==
  ASSUME NEW c \in ClientRecord, NEW grants \in SUBSET Grant
  PROVE  /\ ResponseTypesFor(c, grants) \in SUBSET {"code", "id_token"}
         /\ "code" \in ResponseTypesFor(c, grants) <=> "authorization_code" \in grants
         /\ "id_token" \in ResponseTypesFor(c, grants) <=> "id_token" \in c.types
  BY DEF ClientRecord, ResponseTypesFor

(* The registration each kind of write leaves.                               *)
LEMMA Registrations ==
  ASSUME TypeOK, NEW o \in Tab, NEW c \in Client, tab[o].kind = "create" \/ Live(c)
  PROVE  LET r == Registration(o, c)
         IN  /\ r \in ClientRecord
             /\ \/ /\ tab[o].kind = "create"
                   /\ "code" \in r.types <=> "authorization_code" \in r.grants
                \/ /\ tab[o].kind = "update"
                   /\ r.status = "live" /\ r.secret = client[c].secret
                   /\ r.value = tab[o].form.value /\ r.grants = tab[o].form.grants
                   /\ "code" \in r.types <=> "authorization_code" \in r.grants
                   /\ "id_token" \in r.types <=> "id_token" \in tab[o].read.types
                \/ /\ tab[o].kind = "rotate"
                   /\ r.status = "live"
                   /\ r.types = client[c].types
                   /\ r.grants = client[c].grants /\ r.value = client[c].value
                \/ tab[o].kind = "delete" /\ r.status = "deleted"
             /\ \/ r.secret = 0 \/ (Mints(o) /\ r.secret = secrets + 1)
                \/ (~Mints(o) /\ r.secret = client[c].secret)
<1> DEFINE r == Registration(o, c)
           form == tab[o].form
<1>2. /\ form \in Form /\ form.value \in Value \cup {Blank} /\ form.grants \in SUBSET Grant
      /\ tab[o].kind \in Kind /\ tab[o].read \in ClientRecord /\ client[c] \in ClientRecord
      /\ tab[o].public \in BOOLEAN /\ secrets \in Nat
  BY EachType DEF Form, TabRecord
<1>3. CASE tab[o].kind = "create"
  <2> DEFINE types == ResponseTypesFor(Unborn, form.grants)
             minted == IF Mints(o) THEN secrets + 1 ELSE 0
  <2>1. r = [status |-> "live", value |-> form.value, grants |-> form.grants,
             types |-> types, public |-> tab[o].public, secret |-> minted]
    BY <1>3 DEF Registration
  <2>2. /\ types \in SUBSET {"code", "id_token"}
        /\ "code" \in types <=> "authorization_code" \in form.grants
    BY <1>2, Blanks, ResponseTypesKeep
  <2>4. minted \in Nat /\ (minted = 0 \/ (Mints(o) /\ minted = secrets + 1))
    BY <1>2
  <2> HIDE DEF r, types, form, minted
  <2>3. r \in ClientRecord /\ r.secret = minted /\ r.types = types /\ r.grants = form.grants
    BY <1>2, <2>1, <2>2, <2>4 DEF ClientRecord
  <2> QED
    BY <1>3, <2>2, <2>3, <2>4 DEF r
<1>4. CASE tab[o].kind = "update"
  <2> DEFINE types == ResponseTypesFor(tab[o].read, form.grants)
             first  == [client[c] EXCEPT !.value = form.value]
             second == [first EXCEPT !.grants = form.grants]
  <2>1. r = [second EXCEPT !.types = types]
    BY <1>4 DEF Registration
  <2>2. /\ types \in SUBSET {"code", "id_token"}
        /\ "code" \in types <=> "authorization_code" \in form.grants
        /\ "id_token" \in types <=> "id_token" \in tab[o].read.types
    BY <1>2, ResponseTypesKeep
  <2>4. client[c].status = "live" /\ ~Mints(o)
    BY <1>4 DEF Live, Mints
  <2> HIDE DEF r, types, form
  <2>3. r \in ClientRecord /\ r.status = client[c].status /\ r.secret = client[c].secret
        /\ r.types = types /\ r.grants = form.grants /\ r.value = form.value
    BY <1>2, <2>1, <2>2 DEF ClientRecord
  <2> QED
    BY <1>4, <2>2, <2>3, <2>4 DEF form, r
<1>5. CASE tab[o].kind = "rotate"
  <2>1. r = [client[c] EXCEPT !.secret = secrets + 1]
    BY <1>5 DEF Registration
  <2>3. client[c].status = "live" /\ Mints(o)
    BY <1>5 DEF Live, Mints
  <2> HIDE DEF r
  <2>2. /\ r \in ClientRecord /\ r.status = client[c].status /\ r.secret = secrets + 1
        /\ r.types = client[c].types /\ r.grants = client[c].grants /\ r.value = client[c].value
    BY <1>2, <2>1 DEF ClientRecord
  <2> QED
    BY <1>5, <2>2, <2>3 DEF r
<1>6. CASE tab[o].kind = "delete"
  <2> DEFINE first == [Unborn EXCEPT !.status = "deleted"]
  <2>1. r = [first EXCEPT !.public = client[c].public]
    BY <1>6 DEF Registration
  <2> HIDE DEF r
  <2>3. first \in ClientRecord /\ first.status = "deleted" /\ first.secret = 0
    BY DEF ClientRecord, Unborn
  <2>4. client[c].public \in BOOLEAN
    BY <1>2 DEF ClientRecord
  <2> HIDE DEF first
  <2>2. r \in ClientRecord /\ r.status = "deleted" /\ r.secret = 0
    BY <2>1, <2>3, <2>4 DEF ClientRecord
  <2> QED
    BY <1>6, <2>2 DEF r
<1> QED
  BY <1>2, <1>3, <1>4, <1>5, <1>6 DEF Kind

LEMMA ChangesType ==
  ASSUME NEW c \in ClientRecord, NEW form \in Form
  PROVE  ChangedFieldsOf(c, form) \subseteq Change
<1>1. \A f \in Field : /\ c[f] \in Value \cup {Blank} \cup SUBSET Grant
                       /\ form[f] \in Value \cup {Blank} \cup SUBSET Grant
  BY DEF Field, ClientRecord, Form
<1> QED
  BY <1>1 DEF ChangedFieldsOf, Change

-----------------------------------------------------------------------------
(* The invariant.                                                            *)
Contents(r) == [value |-> r.value, grants |-> r.grants]
Hybrid(r)   == "id_token" \in r.types

(* What an update read is what the client had before a change made after.    *)
HadBeen(t, log, n) ==
  \E k \in (t.since + 1)..n : t.on = {log[k].on} /\ log[k].before = Contents(t.read)

(* What an update about to write has read is what the client has or had, and *)
(* of a client still there, hybrid or not, is so.                            *)
Reads(t, log, at) ==
  t.step = "writing" /\ t.kind = "update" =>
    /\ t.since <= Len(log)
    /\ \A c \in Client : t.on = {c} =>
         /\ HadBeen(t, log, Len(log)) \/ Contents(at[c]) = Contents(t.read)
         /\ at[c].status = "live" => (Hybrid(t.read) <=> Hybrid(at[c]))

(* A change under way is the one its action made, of what it read; one whose *)
(* answer was lost is failing.                                               *)
Tells(t, log) ==
  /\ t.step = "editing" => t.kind = "update"
  /\ t.step = "reading" => t.kind # "create"
  /\ t.secret # 0 => t.step = "recording"
  /\ t.nth # 0 => /\ t.step \in {"recording", "failing"}
                  /\ t.nth \in 1..Len(log)
                  /\ log[t.nth].verb = t.kind /\ t.on = {log[t.nth].on}
  /\ t.step = "recording" =>
       /\ t.nth # 0 /\ log[t.nth].secret = t.secret
       /\ t.kind = "update" => log[t.nth].after = t.form /\ HadBeen(t, log, t.nth)
  /\ t.step = "failing" =>
       /\ t.kind \in {"update", "rotate"}
       /\ t.nth # 0 => "answer" \in log[t.nth].lost

(* What a row says, of the changes in a log.                                 *)
Holds(row, log) ==
  /\ row.nth \in 0..Len(log)
  /\ row.status = "success" =>
       /\ row.nth # 0
       /\ log[row.nth].verb = row.verb /\ log[row.nth].on = row.on
       /\ row.verb = "update" =>
            \E k \in (row.since + 1)..row.nth :
              log[k].on = row.on /\ Says(row, log[k].before, log[row.nth].after)
  /\ row.status = "failure" /\ row.nth # 0 => "answer" \in log[row.nth].lost

(* A creation has its client to itself, which is not there yet.              *)
Alone ==
  \A o \in Tab, c \in Client :
    tab[o].step = "writing" /\ tab[o].kind = "create" /\ tab[o].on = {c} =>
      /\ client[c].status = "unborn"
      /\ \A p \in Tab : p # o => tab[p].on # {c}

(* A change is under way in one tab, or it has its one row.                  *)
Once ==
  /\ \A o, p \in Tab : tab[o].nth # 0 /\ tab[o].nth = tab[p].nth => o = p
  /\ \A i \in DOMAIN trail, o \in Tab : trail[i].nth # 0 => trail[i].nth # tab[o].nth
  /\ \A i, j \in DOMAIN trail : trail[i].nth = trail[j].nth /\ trail[i].nth # 0 => i = j

(* What took place has its row, or will, or something of it was lost.        *)
Accounted ==
  \A n \in DOMAIN made :
    \/ \E i \in DOMAIN trail : trail[i].nth = n
    \/ UnderWay(n)
    \/ "row" \in made[n].lost
    \/ "answer" \in made[n].lost /\ made[n].verb \in {"create", "delete"}

IInv ==
  /\ TypeOK /\ trail \in Seq(Row)
  /\ \A o \in Tab : Tells(tab[o], made) /\ Reads(tab[o], made, client)
  /\ \A i \in DOMAIN trail : Holds(trail[i], made)
  /\ \A n \in DOMAIN made : made[n].secret <= secrets
  /\ Alone /\ Once /\ CodeFollowsGrants /\ SecretIsHeld /\ Accounted

LEMMA IsTrue ==
  ASSUME IInv
  PROVE  TrailIsTrue
<1>1. \A i \in DOMAIN trail : Truthful(trail[i]) /\ Excusable(trail[i])
  BY EachType DEF IInv, Holds, Truthful, Excusable
<1> QED
  BY <1>1 DEF IInv, Once, Accounted, TrailIsTrue

-----------------------------------------------------------------------------
(* The history only grows. *)

Grown(log, next) ==
  /\ log \in Seq(ChangeRecord) /\ next \in Seq(ChangeRecord)
  /\ Len(log) <= Len(next)
  /\ \A k \in 1..Len(log) :
       /\ next[k].verb = log[k].verb /\ next[k].on = log[k].on
       /\ next[k].before = log[k].before /\ next[k].after = log[k].after
       /\ next[k].secret = log[k].secret /\ log[k].lost \subseteq next[k].lost

LEMMA GrownHadBeen ==
  ASSUME NEW log, NEW next, Grown(log, next), NEW t \in TabRecord,
         NEW n \in 0..Len(log), HadBeen(t, log, n)
  PROVE  HadBeen(t, next, n)
<1>1. PICK k \in (t.since + 1)..n : t.on = {log[k].on} /\ log[k].before = Contents(t.read)
  BY DEF HadBeen
<1>2. t.since \in Nat /\ Len(log) \in Nat
  BY DEF TabRecord, Grown
<1>3. k \in 1..Len(log)
  BY <1>1, <1>2
<1>4. next[k].on = log[k].on /\ next[k].before = log[k].before
  BY <1>3 DEF Grown
<1> QED
  BY <1>1, <1>4 DEF HadBeen

LEMMA GrownTells ==
  ASSUME NEW log, NEW next, Grown(log, next), NEW t \in TabRecord, Tells(t, log)
  PROVE  Tells(t, next)
<1>1. Len(log) \in Nat /\ Len(next) \in Nat /\ Len(log) <= Len(next) /\ t.nth \in Nat
  BY DEF Grown, TabRecord
<1>2. t.nth # 0 =>
        /\ t.nth \in 1..Len(log) /\ t.nth \in 1..Len(next)
        /\ next[t.nth].verb = log[t.nth].verb /\ next[t.nth].on = log[t.nth].on
        /\ next[t.nth].after = log[t.nth].after /\ next[t.nth].secret = log[t.nth].secret
        /\ log[t.nth].lost \subseteq next[t.nth].lost
  <2> SUFFICES ASSUME t.nth # 0
               PROVE  /\ t.nth \in 1..Len(log) /\ t.nth \in 1..Len(next)
                      /\ next[t.nth].verb = log[t.nth].verb /\ next[t.nth].on = log[t.nth].on
                      /\ next[t.nth].after = log[t.nth].after
                      /\ next[t.nth].secret = log[t.nth].secret
                      /\ log[t.nth].lost \subseteq next[t.nth].lost
    OBVIOUS
  <2>1. t.nth \in 1..Len(log)
    BY DEF Tells
  <2> QED
    BY <1>1, <2>1 DEF Grown
<1>3. t.nth # 0 /\ HadBeen(t, log, t.nth) => HadBeen(t, next, t.nth)
  BY <1>1, <1>2, GrownHadBeen
<1> QED
  BY <1>2, <1>3 DEF Tells

LEMMA GrownHolds ==
  ASSUME NEW log, NEW next, Grown(log, next), NEW row \in Row, Holds(row, log)
  PROVE  Holds(row, next)
<1>1. Len(log) \in Nat /\ Len(next) \in Nat /\ Len(log) <= Len(next)
      /\ row.nth \in Nat /\ row.since \in Nat
  BY DEF Grown, Row
<1>2. row.nth \in 0..Len(log)
  BY DEF Holds
<1>3. row.nth # 0 =>
        /\ row.nth \in 1..Len(log)
        /\ next[row.nth].verb = log[row.nth].verb /\ next[row.nth].on = log[row.nth].on
        /\ next[row.nth].after = log[row.nth].after
        /\ log[row.nth].lost \subseteq next[row.nth].lost
  BY <1>1, <1>2 DEF Grown
<1>4. ASSUME row.nth # 0,
             NEW k \in (row.since + 1)..row.nth,
             log[k].on = row.on /\ Says(row, log[k].before, log[row.nth].after)
      PROVE  next[k].on = row.on /\ Says(row, next[k].before, next[row.nth].after)
  <2>1. k \in 1..Len(log)
    BY <1>1, <1>3, <1>4
  <2>2. next[k].on = log[k].on /\ next[k].before = log[k].before
    BY <2>1 DEF Grown
  <2> QED
    BY <1>3, <1>4, <2>2
<1>5. row.nth \in 0..Len(next)
  BY <1>1, <1>2
<1> QED
  BY <1>3, <1>4, <1>5 DEF Holds

LEMMA QuietFits ==
  /\ Quiet.step = "idle" /\ Quiet.on = {} /\ Quiet.secret = 0 /\ Quiet.nth = 0
  /\ \A log : Tells(Quiet, log)
  /\ \A log, at : Reads(Quiet, log, at)
BY DEF Quiet, Tells, Reads

LEMMA Initially ==
  ASSUME Init
  PROVE  IInv
<1>1. \A c \in Client : client[c] \in ClientRecord /\ client[c].secret = 0
                        /\ (Live(c) => "code" \in client[c].types
                                       /\ "authorization_code" \in client[c].grants)
  <2>1. \A c \in Client : client[c] \in {Unborn} \cup Registered
    BY DEF Init
  <2>2. ASSUME NEW r \in Registered
        PROVE  r \in ClientRecord /\ r.secret = 0
               /\ "code" \in r.types /\ "authorization_code" \in r.grants
    <3>1. PICK v \in Value, more \in SUBSET {"client_credentials"} :
            r = [status |-> "live", value |-> v, grants |-> {"authorization_code"} \cup more,
                 types |-> {"code", "id_token"}, public |-> FALSE, secret |-> 0]
      BY DEF Registered
    <3> QED
      BY <3>1 DEF ClientRecord, Grant
  <2>3. Unborn.status = "unborn" /\ Unborn.secret = 0
    BY DEF Unborn
  <2> QED
    BY <2>1, <2>2, <2>3, Blanks DEF Live
<1>2. \A o \in Tab : tab[o] = Quiet
  BY DEF Init
<1>3. trail \in Seq(Row) /\ DOMAIN trail = {} /\ made \in Seq(ChangeRecord) /\ DOMAIN made = {}
  BY DEF Init
<1>4. TypeOK
  <2>1. client \in [Client -> ClientRecord]
    BY <1>1 DEF Init
  <2>2. tab \in [Tab -> TabRecord]
    BY Blanks DEF Init
  <2> QED
    BY <1>3, <2>1, <2>2 DEF Init, TypeOK
<1>5. Alone /\ Once
  BY <1>2, <1>3, QuietFits DEF Alone, Once
<1>6. \A o \in Tab : Tells(tab[o], made) /\ Reads(tab[o], made, client)
  BY <1>2, QuietFits
<1>7. CodeFollowsGrants /\ SecretIsHeld /\ Accounted
  BY <1>1, <1>3 DEF CodeFollowsGrants, SecretIsHeld, Accounted
<1> QED
  BY <1>3, <1>4, <1>5, <1>6, <1>7 DEF IInv

(* Each change of the history is under way after a step as it was before, if *)
(* the step leaves the change with its tab.                                  *)
LEMMA StaysUnderWay ==
  ASSUME IInv, NEW o \in Tab, NEW t \in TabRecord, tab' = [tab EXCEPT ![o] = t],
         NEW n, n # 0, n \in Nat, UnderWay(n),
         tab[o].nth = n => t.nth = n /\ t.step \in {"recording", "failing"}
  PROVE  UnderWay(n)'
<1>1. tab'[o] = t /\ \A p \in Tab : p # o => tab'[p] = tab[p]
  BY TabType DEF IInv
<1>2. PICK p \in Tab : InCall(p) /\ tab[p].nth = n
  BY DEF UnderWay
<1>3. tab'[p].nth = n /\ tab'[p].step \in {"reading", "writing", "recording", "failing"}
  BY <1>1, <1>2 DEF InCall
<1> QED
  BY <1>3 DEF UnderWay, InCall

-----------------------------------------------------------------------------
(* Steps of one tab that change nothing else. *)

MayBecome(o, t) ==
  /\ Tells(t, made) /\ Reads(t, made, client)
  /\ t.nth = tab[o].nth
  /\ \A c \in Client : t.on = {c} /\ client[c].status = "unborn" =>
       \/ tab[o].on = {c}
       \/ \A p \in Tab : tab[p].on # {c}
  /\ \A c \in Client : t.step = "writing" /\ t.kind = "create" /\ t.on = {c} =>
       /\ client[c].status = "unborn"
       /\ \A p \in Tab : p # o => tab[p].on # {c}

LEMMA AloneKept ==
  ASSUME IInv, NEW o \in Tab, NEW t \in TabRecord, tab' = [tab EXCEPT ![o] = t],
         MayBecome(o, t), UNCHANGED client
  PROVE  Alone'
<1>1. tab'[o] = t /\ \A p \in Tab : p # o => tab'[p] = tab[p]
  BY TabType DEF IInv
<1> SUFFICES ASSUME NEW p \in Tab, NEW c \in Client,
                    tab'[p].step = "writing", tab'[p].kind = "create", tab'[p].on = {c}
             PROVE  /\ client[c].status = "unborn"
                    /\ \A q \in Tab : q # p => tab'[q].on # {c}
  BY DEF Alone
<1>2. CASE p = o
  BY <1>1, <1>2 DEF MayBecome
<1>3. CASE p # o
  <2>1. tab[p].step = "writing" /\ tab[p].kind = "create" /\ tab[p].on = {c}
    BY <1>1, <1>3
  <2>2. client[c].status = "unborn" /\ \A q \in Tab : q # p => tab[q].on # {c}
    BY <2>1 DEF IInv, Alone
  <2>3. t.on # {c}
    BY <1>3, <2>1, <2>2 DEF MayBecome
  <2> QED
    BY <1>1, <1>3, <2>2, <2>3
<1> QED
  BY <1>2, <1>3

LEMMA TabOnly ==
  ASSUME IInv, NEW o \in Tab, NEW t \in TabRecord, tab' = [tab EXCEPT ![o] = t],
         MayBecome(o, t), UNCHANGED <<client, trail, made, secrets, known>>
  PROVE  IInv'
<1>1. /\ tab' \in [Tab -> TabRecord] /\ tab'[o] = t
      /\ \A p \in Tab : p # o => tab'[p] = tab[p]
  BY TabType DEF IInv
<1>2. TypeOK' /\ trail' \in Seq(Row)
  BY <1>1 DEF IInv, TypeOK
<1>3. \A p \in Tab : Tells(tab'[p], made') /\ Reads(tab'[p], made', client')
  BY <1>1 DEF IInv, MayBecome
<1>4. \A p \in Tab : tab'[p].nth = tab[p].nth
  BY <1>1 DEF MayBecome
<1>5. Once'
  BY <1>4 DEF IInv, Once
<1>6. \A n \in DOMAIN made : UnderWay(n) => UnderWay(n)'
  <2> SUFFICES ASSUME NEW n \in DOMAIN made, UnderWay(n) PROVE UnderWay(n)'
    OBVIOUS
  <2>1. n \in Nat /\ n # 0
    BY EachType DEF IInv
  <2>2. t.nth = n => t.step \in {"recording", "failing"}
    BY <2>1 DEF MayBecome, Tells
  <2> QED
    BY <2>1, <2>2, StaysUnderWay DEF MayBecome
<1>7. SecretIsHeld'
  BY <1>6 DEF IInv, SecretIsHeld
<1>8. Accounted'
  BY <1>6 DEF IInv, Accounted
<1>9. CodeFollowsGrants'
  BY DEF IInv, CodeFollowsGrants, Live
<1> QED
  BY <1>2, <1>3, <1>5, <1>7, <1>8, <1>9, AloneKept DEF IInv

(* Operators' steps. *)
LEMMA Started ==
  ASSUME IInv, NEW o \in Tab, tab[o].step \in {"idle", "editing", "reading", "writing"}
  PROVE  tab[o].nth = 0 /\ tab[o].secret = 0
BY DEF IInv, Tells

LEMMA OperateStep ==
  ASSUME IInv, NEW o \in Tab, NEW c \in Client, Operate(o, c)
  PROVE  IInv'
<1> USE Blanks
<1>0. UNCHANGED <<client, trail, made, secrets, known>>
  BY DEF Operate, OpenForm, UpdateApplication, CreateApplication, RotateOrDelete
<1>1. CASE OpenForm(o, c)
  <2> DEFINE t == [Quiet EXCEPT !.step = "editing", !.on = {c}]
  <2>1. tab' = [tab EXCEPT ![o] = t]
    BY <1>1 DEF OpenForm
  <2>2. t \in TabRecord /\ t.step = "editing" /\ t.on = {c} /\ t.secret = 0 /\ t.nth = 0
        /\ t.kind = "update"
    BY DEF TabRecord, Quiet, Kind
  <2>3. client[c].status = "live" /\ tab[o].nth = 0
    BY <1>1, Started DEF OpenForm, Live
  <2> HIDE DEF t
  <2>4. MayBecome(o, t)
    BY <2>2, <2>3 DEF MayBecome, Tells, Reads
  <2> QED
    BY <1>0, <2>1, <2>2, <2>4, TabOnly
<1>2. ASSUME NEW form \in Form, UpdateApplication(o, c, form)
      PROVE  IInv'
  <2> DEFINE t == [tab[o] EXCEPT !.form = form, !.step = "reading"]
  <2>1. tab' = [tab EXCEPT ![o] = t]
    BY <1>2 DEF UpdateApplication
  <2>2. t \in TabRecord /\ t.step = "reading" /\ t.on = {c} /\ t.secret = tab[o].secret
        /\ t.nth = tab[o].nth /\ t.kind = tab[o].kind
    BY <1>2, EachType DEF TabRecord, UpdateApplication, IInv
  <2>3. tab[o].step = "editing" /\ tab[o].nth = 0 /\ tab[o].secret = 0 /\ tab[o].on = {c}
        /\ tab[o].kind = "update"
    BY <1>2, Started DEF UpdateApplication, IInv, Tells
  <2> HIDE DEF t
  <2>4. MayBecome(o, t)
    BY <2>2, <2>3 DEF MayBecome, Tells, Reads
  <2> QED
    BY <1>0, <2>1, <2>2, <2>4, TabOnly
<1>3. ASSUME NEW form \in Form, NEW public \in BOOLEAN, CreateApplication(o, c, form, public)
      PROVE  IInv'
  <2> DEFINE t == [Quiet EXCEPT !.step = "writing", !.kind = "create", !.on = {c}, !.form = form,
                                !.public = public]
  <2>1. tab' = [tab EXCEPT ![o] = t]
    BY <1>3 DEF CreateApplication
  <2>2. t \in TabRecord /\ t.step = "writing" /\ t.on = {c} /\ t.secret = 0 /\ t.nth = 0
        /\ t.kind = "create"
    BY DEF TabRecord, Quiet, Kind
  <2>3. client[c].status = "unborn" /\ tab[o].nth = 0 /\ \A p \in Tab : tab[p].on # {c}
    BY <1>3, Started DEF CreateApplication
  <2> HIDE DEF t
  <2>4. MayBecome(o, t)
    BY <2>2, <2>3 DEF MayBecome, Tells, Reads
  <2> QED
    BY <1>0, <2>1, <2>2, <2>4, TabOnly
<1>4. ASSUME NEW kind \in {"rotate", "delete"}, RotateOrDelete(o, c, kind)
      PROVE  IInv'
  <2> DEFINE t == [Quiet EXCEPT !.step = "reading", !.kind = kind, !.on = {c}]
  <2>1. tab' = [tab EXCEPT ![o] = t]
    BY <1>4 DEF RotateOrDelete
  <2>2. t \in TabRecord /\ t.step = "reading" /\ t.on = {c} /\ t.secret = 0 /\ t.nth = 0
        /\ t.kind = kind
    BY DEF TabRecord, Quiet, Kind
  <2>3. client[c].status # "unborn" /\ tab[o].nth = 0
    BY <1>4, Started DEF RotateOrDelete
  <2> HIDE DEF t
  <2>4. MayBecome(o, t)
    BY <2>2, <2>3 DEF MayBecome, Tells, Reads
  <2> QED
    BY <1>0, <2>1, <2>2, <2>4, TabOnly
<1> QED
  BY <1>1, <1>2, <1>3, <1>4 DEF Operate

(* What may take a tab's place in any case.                                  *)
LEMMA BackToForm ==
  ASSUME NEW o \in Tab, NEW c \in Client
  PROVE  LET t == Edited(o, c)
         IN  /\ t \in TabRecord /\ t.step \in {"idle", "editing"} /\ t.on \in {{}, {c}}
             /\ t.secret = 0 /\ t.nth = 0 /\ t.kind = "update"
<1> DEFINE t == [Quiet EXCEPT !.step = "editing", !.on = {c}]
<1>1. t \in TabRecord /\ t.step = "editing" /\ t.on = {c} /\ t.secret = 0 /\ t.nth = 0
      /\ t.kind = "update"
  BY Blanks DEF TabRecord, Quiet, Kind
<1>2. Quiet \in TabRecord /\ Quiet.kind = "update"
  BY Blanks DEF Quiet
<1>3. Edited(o, c) \in {Quiet, t}
  BY DEF Edited
<1> HIDE DEF t
<1> QED
  BY <1>1, <1>2, <1>3, QuietFits

LEMMA ReadStep ==
  ASSUME IInv, NEW o \in Tab, NEW c \in Client, ReadClient(o, c)
  PROVE  IInv'
<1>0. /\ UNCHANGED <<client, trail, made, secrets, known>>
      /\ tab[o].step = "reading" /\ tab[o].on = {c} /\ tab[o].kind # "create"
      /\ tab[o].nth = 0 /\ tab[o].secret = 0 /\ tab[o] \in TabRecord /\ client[c] \in ClientRecord
      /\ Len(made) \in Nat
  BY Started, EachType DEF ReadClient, IInv, Tells
<1>1. CASE tab' = [tab EXCEPT ![o] = Edited(o, c)]
  <2> DEFINE t == Edited(o, c)
  <2>1. /\ t \in TabRecord /\ t.step \in {"idle", "editing"} /\ t.on \in {{}, {c}}
        /\ t.secret = 0 /\ t.nth = 0 /\ t.kind = "update"
    BY BackToForm
  <2> HIDE DEF t
  <2>2. MayBecome(o, t)
    BY <1>0, <2>1 DEF MayBecome, Tells, Reads
  <2> QED
    BY <1>0, <1>1, <2>1, <2>2, TabOnly DEF t
<1>2. CASE tab[o].kind = "update"
           /\ tab' = [tab EXCEPT ![o] = [@ EXCEPT !.step = "writing", !.read = client[c],
                                                  !.since = Len(made)]]
  <2> DEFINE t == [tab[o] EXCEPT !.step = "writing", !.read = client[c], !.since = Len(made)]
  <2>1. tab' = [tab EXCEPT ![o] = t]
    BY <1>2
  <2>2. /\ t \in TabRecord /\ t.step = "writing" /\ t.on = {c} /\ t.secret = 0 /\ t.nth = 0
        /\ t.kind = "update" /\ t.read = client[c] /\ t.since = Len(made)
    BY <1>0, <1>2 DEF TabRecord
  <2> HIDE DEF t
  <2>3. Reads(t, made, client)
    BY <1>0, <2>2 DEF Reads
  <2>4. MayBecome(o, t)
    BY <1>0, <2>2, <2>3 DEF MayBecome, Tells
  <2> QED
    BY <1>0, <2>1, <2>2, <2>4, TabOnly
<1>3. CASE tab[o].kind # "update" /\ tab' = [tab EXCEPT ![o] = [@ EXCEPT !.step = "writing"]]
  <2> DEFINE t == [tab[o] EXCEPT !.step = "writing"]
  <2>1. tab' = [tab EXCEPT ![o] = t]
    BY <1>3
  <2>2. /\ t \in TabRecord /\ t.step = "writing" /\ t.on = {c} /\ t.secret = 0 /\ t.nth = 0
        /\ t.kind \notin {"update", "create"}
    BY <1>0, <1>3 DEF TabRecord
  <2> HIDE DEF t
  <2>3. MayBecome(o, t)
    BY <1>0, <2>2 DEF MayBecome, Tells, Reads
  <2> QED
    BY <1>0, <2>1, <2>2, <2>3, TabOnly
<1> QED
  BY <1>1, <1>2, <1>3 DEF ReadClient

LEMMA QuietNow ==
  ASSUME IInv, NEW o \in Tab, tab[o].nth = 0, tab' = [tab EXCEPT ![o] = Quiet],
         UNCHANGED <<client, trail, made, secrets, known>>
  PROVE  IInv'
<1>1. MayBecome(o, Quiet)
  BY QuietFits DEF MayBecome
<1> QED
  BY <1>1, TabOnly, Blanks

(* What the catch of an update or a rotation leaves.                         *)
FailingTab(kind, on, left, nth) ==
  [Quiet EXCEPT !.step = "failing", !.kind = kind, !.on = on, !.left = left, !.nth = nth]

LEMMA Failing ==
  ASSUME NEW kind \in Kind, NEW on \in SUBSET Client, NEW left \in BOOLEAN, NEW nth \in Nat
  PROVE  LET t == FailingTab(kind, on, left, nth)
         IN  t \in TabRecord /\ t.step = "failing" /\ t.on = on /\ t.secret = 0 /\ t.kind = kind
             /\ t.nth = nth
<1> DEFINE first  == [Quiet EXCEPT !.step = "failing", !.kind = kind]
           second == [first EXCEPT !.on = on, !.left = left]
           t      == [second EXCEPT !.nth = nth]
<1>1. Quiet \in TabRecord /\ Quiet.secret = 0
  BY Blanks, QuietFits
<1>2. first \in TabRecord /\ first.step = "failing" /\ first.kind = kind /\ first.secret = 0
  BY <1>1 DEF TabRecord
<1> HIDE DEF first
<1>3. second \in TabRecord /\ second.step = "failing" /\ second.kind = kind /\ second.secret = 0
      /\ second.on = on
  BY <1>2 DEF TabRecord
<1> HIDE DEF second
<1>4. t \in TabRecord /\ t.step = "failing" /\ t.kind = kind /\ t.secret = 0 /\ t.on = on
      /\ t.nth = nth
  BY <1>3 DEF TabRecord
<1> QED
  BY <1>4 DEF first, second, FailingTab

LEMMA RefusedStep ==
  ASSUME IInv, NEW o \in Tab, NEW c \in Client, WriteRefused(o, c)
  PROVE  IInv'
<1>0. /\ UNCHANGED <<client, trail, made, secrets, known>>
      /\ tab[o].step = "writing" /\ tab[o].on = {c} /\ tab[o].nth = 0 /\ tab[o] \in TabRecord
  BY Started, EachType DEF WriteRefused, IInv
<1>1. CASE tab' = [tab EXCEPT ![o] = Quiet]
  BY <1>0, <1>1, QuietNow
<1>2. CASE tab[o].kind \in {"update", "rotate"}
           /\ tab' = [tab EXCEPT ![o] =
                [Quiet EXCEPT !.step = "failing", !.kind = tab[o].kind, !.on = tab[o].on,
                              !.left = tab[o].left, !.nth = 0]]
  <2> DEFINE t == FailingTab(tab[o].kind, tab[o].on, tab[o].left, 0)
  <2>0. tab[o].left \in BOOLEAN /\ tab[o].kind \in Kind /\ tab[o].on \in SUBSET Client
    BY <1>0 DEF TabRecord
  <2>3. t \in TabRecord /\ t.step = "failing" /\ t.on = tab[o].on /\ t.secret = 0 /\ t.nth = 0
        /\ t.kind = tab[o].kind
    BY <2>0, Failing
  <2>1. t.on = {c}
    BY <1>0, <2>3
  <2> HIDE DEF t
  <2>2. MayBecome(o, t)
    BY <1>0, <1>2, <2>1, <2>3 DEF MayBecome, Tells, Reads
  <2>5. tab' = [tab EXCEPT ![o] = t]
    BY <1>2 DEF t, FailingTab
  <2> QED
    BY <1>0, <2>2, <2>3, <2>5, TabOnly
<1> QED
  BY <1>1, <1>2 DEF WriteRefused, Caught

LEMMA LeaveStep ==
  ASSUME IInv, NEW o \in Tab, Cancel(o) \/ Leave(o)
  PROVE  IInv'
<1>0. UNCHANGED <<client, trail, made, secrets, known>>
  BY DEF Cancel, Leave
<1>1. CASE Cancel(o)
  BY <1>0, <1>1, Started, QuietNow DEF Cancel
<1>2. CASE Leave(o)
  <2> DEFINE t == [tab[o] EXCEPT !.left = TRUE]
  <2>0. tab[o] \in TabRecord
    BY EachType DEF IInv
  <2>1. tab' = [tab EXCEPT ![o] = t]
    BY <1>2 DEF Leave
  <2>2. t \in TabRecord /\ t.step = tab[o].step /\ t.kind = tab[o].kind /\ t.on = tab[o].on
        /\ t.form = tab[o].form /\ t.read = tab[o].read /\ t.secret = tab[o].secret
        /\ t.since = tab[o].since /\ t.nth = tab[o].nth
    BY <2>0 DEF TabRecord
  <2> HIDE DEF t
  <2>3. Tells(t, made) <=> Tells(tab[o], made)
    BY <2>2 DEF Tells, HadBeen
  <2>4. Reads(t, made, client) <=> Reads(tab[o], made, client)
    BY <2>2 DEF Reads, HadBeen
  <2>5. MayBecome(o, t)
    BY <2>2, <2>3, <2>4 DEF MayBecome, IInv, Alone
  <2> QED
    BY <1>0, <2>1, <2>2, <2>5, TabOnly
<1> QED
  BY <1>1, <1>2

-----------------------------------------------------------------------------
(* Hydra makes a change. *)

LEMMA Applied ==
  ASSUME IInv, NEW o \in Tab, NEW c \in Client, NEW lost \in SUBSET {"answer"},
         Apply(o, c, lost)
  PROVE  /\ Grown(made, made') /\ Len(made') = Len(made) + 1
         /\ \A k \in 1..Len(made) : made'[k] = made[k]
         /\ LET m == made'[Len(made) + 1]
            IN  /\ m.verb = tab[o].kind /\ m.on = c /\ m.lost = lost
                /\ m.before = Contents(client[c]) /\ m.after = Contents(client'[c])
                /\ m.secret = IF Mints(o) THEN secrets + 1 ELSE 0
         /\ client' \in [Client -> ClientRecord] /\ client'[c] = Registration(o, c)
         /\ \A d \in Client : d # c => client'[d] = client[d]
<1> DEFINE m == [verb |-> tab[o].kind, on |-> c, before |-> Shows(c), after |-> Shows(c)',
                 secret |-> IF Mints(o) THEN secrets + 1 ELSE 0, lost |-> lost]
<1>1. /\ Registration(o, c) \in ClientRecord /\ client' = [client EXCEPT ![c] = Registration(o, c)]
      /\ client \in [Client -> ClientRecord]
  BY Registrations DEF Apply, IInv, TypeOK
<1>2. /\ client' \in [Client -> ClientRecord] /\ client'[c] = Registration(o, c)
      /\ \A d \in Client : d # c => client'[d] = client[d]
  BY <1>1
<1>3. client[c] \in ClientRecord /\ client'[c] \in ClientRecord
  BY <1>1, <1>2
<1>4. Shows(c) = Contents(client[c]) /\ Shows(c)' = Contents(client'[c])
  BY DEF Shows, Contents
<1>5. \A r \in ClientRecord : Contents(r) \in Form
  BY DEF ClientRecord, Contents, Form
<1>6. tab[o].kind \in Kind /\ made \in Seq(ChangeRecord) /\ secrets \in Nat
  BY EachType DEF IInv, TabRecord
<1>7. m \in ChangeRecord
  BY <1>3, <1>4, <1>5, <1>6 DEF ChangeRecord
<1>8. made' = Append(made, m)
  BY DEF Apply
<1>9. /\ m.verb = tab[o].kind /\ m.on = c /\ m.lost = lost
      /\ m.before = Contents(client[c]) /\ m.after = Contents(client'[c])
      /\ m.secret = IF Mints(o) THEN secrets + 1 ELSE 0
  BY <1>4
<1> HIDE DEF m
<1>10. /\ made' \in Seq(ChangeRecord) /\ Len(made') = Len(made) + 1 /\ Len(made) \in Nat
       /\ \A k \in 1..Len(made) : made'[k] = made[k]
       /\ made'[Len(made) + 1] = m
  BY <1>6, <1>7, <1>8
<1>11. Grown(made, made')
  BY <1>6, <1>10 DEF Grown
<1> QED
  BY <1>2, <1>9, <1>10, <1>11

(* What another update has read is, at the latest, what this change replaces.*)
LEMMA ReadsOn ==
  ASSUME IInv, NEW o \in Tab, NEW c \in Client, NEW lost \in SUBSET {"answer"},
         Apply(o, c, lost), NEW p \in Tab, p # o
  PROVE  Reads(tab[p], made', client')
<1> DEFINE t == tab[p]
           m == made'[Len(made) + 1]
<1>1. /\ Grown(made, made') /\ Len(made') = Len(made) + 1 /\ Len(made) \in Nat
      /\ m.on = c /\ m.before = Contents(client[c]) /\ client'[c] = Registration(o, c)
      /\ \A d \in Client : d # c => client'[d] = client[d]
  BY Applied, EachType DEF IInv
<1> SUFFICES ASSUME t.step = "writing", t.kind = "update"
             PROVE  /\ t.since <= Len(made')
                    /\ \A d \in Client : t.on = {d} =>
                         /\ HadBeen(t, made', Len(made')) \/ Contents(client'[d]) = Contents(t.read)
                         /\ client'[d].status = "live" => (Hybrid(t.read) <=> Hybrid(client'[d]))
  BY DEF Reads
<1>2. t \in TabRecord /\ t.since \in Nat /\ t.since <= Len(made) /\ Reads(t, made, client)
  BY EachType DEF IInv, TabRecord, Reads
<1>3. ASSUME NEW d \in Client, t.on = {d}
      PROVE  HadBeen(t, made', Len(made')) \/ Contents(client'[d]) = Contents(t.read)
  <2>1. CASE HadBeen(t, made, Len(made))
    <3>1. HadBeen(t, made', Len(made))
      BY <1>1, <1>2, <2>1, GrownHadBeen
    <3> QED
      BY <1>1, <1>2, <3>1 DEF HadBeen
  <2>2. CASE Contents(client[d]) = Contents(t.read) /\ d # c
    BY <1>1, <2>2
  <2>3. CASE Contents(client[d]) = Contents(t.read) /\ d = c
    <3>1. Len(made) + 1 \in (t.since + 1)..Len(made')
      BY <1>1, <1>2
    <3> QED
      BY <1>1, <1>3, <2>3, <3>1 DEF HadBeen
  <2> QED
    BY <1>2, <1>3, <2>1, <2>2, <2>3 DEF Reads
<1>4. ASSUME NEW d \in Client, t.on = {d}, client'[d].status = "live"
      PROVE  Hybrid(t.read) <=> Hybrid(client'[d])
  <2>1. CASE d # c
    BY <1>1, <1>2, <1>4, <2>1 DEF Reads
  <2>2. CASE d = c
    <3>1. tab[o].step = "writing" /\ tab[o].on = {c}
          /\ (tab[o].kind = "create" \/ Live(c))
      BY DEF Apply
    <3>2. tab[o].kind # "create" /\ Live(c)
      BY <1>4, <2>2, <3>1 DEF IInv, Alone
    <3>3. Hybrid(t.read) <=> Hybrid(client[c])
      BY <1>2, <1>4, <2>2, <3>2 DEF Reads, Live
    <3>4. tab[o].kind = "update" => (Hybrid(tab[o].read) <=> Hybrid(client[c]))
      BY <3>1, <3>2 DEF IInv, Reads, Live
    <3>5. Hybrid(client'[c]) <=> Hybrid(client[c])
      <4> DEFINE r == Registration(o, c)
      <4>1. \/ tab[o].kind = "create"
            \/ tab[o].kind = "update" /\ ("id_token" \in r.types <=> "id_token" \in tab[o].read.types)
            \/ r.types = client[c].types
            \/ r.status = "deleted"
        BY <3>2, Registrations DEF IInv
      <4> HIDE DEF r
      <4>2. client'[c] = r
        BY <1>1 DEF r
      <4> QED
        BY <1>4, <2>2, <3>2, <3>4, <4>1, <4>2 DEF Hybrid
    <3> QED
      BY <2>2, <3>3, <3>5
  <2> QED
    BY <2>1, <2>2
<1> QED
  BY <1>1, <1>2, <1>3, <1>4

LEMMA ApplyStep ==
  ASSUME IInv, NEW o \in Tab, NEW c \in Client, NEW lost \in SUBSET {"answer"},
         Apply(o, c, lost), NEW t \in TabRecord, tab' = [tab EXCEPT ![o] = t],
         Tells(t, made'), t.step # "writing", t.on \in {{}, tab[o].on},
         \/ t.nth = Len(made) + 1
         \/ t.nth = 0 /\ "answer" \in lost /\ tab[o].kind \in {"create", "delete"}
  PROVE  IInv'
<1> DEFINE m == made'[Len(made) + 1]
<1>1. /\ Grown(made, made') /\ Len(made') = Len(made) + 1 /\ Len(made) \in Nat
      /\ \A k \in 1..Len(made) : made'[k] = made[k]
      /\ m.verb = tab[o].kind /\ m.on = c /\ m.lost = lost
      /\ m.secret = IF Mints(o) THEN secrets + 1 ELSE 0
      /\ client' \in [Client -> ClientRecord] /\ client'[c] = Registration(o, c)
      /\ \A d \in Client : d # c => client'[d] = client[d]
  <2>1. Len(made) \in Nat
    BY EachType DEF IInv
  <2> QED
    BY Applied, <2>1
<1>2. /\ tab' \in [Tab -> TabRecord] /\ tab'[o] = t
      /\ \A p \in Tab : p # o => tab'[p] = tab[p]
  BY TabType DEF IInv
<1>3. /\ tab[o].step = "writing" /\ tab[o].on = {c} /\ tab[o].nth = 0
      /\ tab[o].kind = "create" \/ Live(c)
      /\ UNCHANGED <<trail, known>> /\ secrets \in Nat
      /\ secrets' = IF Mints(o) THEN secrets + 1 ELSE secrets
  BY Started, EachType DEF Apply, IInv
<1>4. DOMAIN made = 1..Len(made) /\ DOMAIN made' = 1..(Len(made) + 1)
      /\ made' \in Seq(ChangeRecord)
  BY <1>1 DEF Grown
<1>5. \A i \in DOMAIN trail : trail[i] \in Row /\ Holds(trail[i], made)
      /\ trail[i].nth \in 0..Len(made) /\ trail[i].nth \in Nat
  <2>1. \A i \in DOMAIN trail : trail[i] \in Row
    BY DEF IInv
  <2>2. \A r \in Row : r.nth \in Nat
    BY DEF Row
  <2> QED
    BY <2>1, <2>2 DEF IInv, Holds
<1>6. \A p \in Tab : tab[p].nth \in 0..Len(made)
  BY <1>1, EachType DEF IInv, Tells
<1>7. TypeOK' /\ trail' \in Seq(Row)
  <2>1. \A i \in DOMAIN trail : trail[i].nth \in 0..Len(made')
    BY <1>1, <1>5
  <2>2. secrets' \in Nat
    BY <1>3
  <2> QED
    BY <1>1, <1>2, <1>3, <1>4, <2>1, <2>2 DEF IInv, TypeOK
<1>8. \A p \in Tab : Tells(tab'[p], made') /\ Reads(tab'[p], made', client')
  <2>1. Reads(t, made', client')
    BY DEF Reads
  <2>2. ASSUME NEW p \in Tab, p # o
        PROVE  Tells(tab[p], made') /\ Reads(tab[p], made', client')
    <3>1. tab[p] \in TabRecord /\ Tells(tab[p], made)
      BY EachType DEF IInv
    <3> QED
      BY <1>1, <2>2, <3>1, GrownTells, ReadsOn
  <2> QED
    BY <1>2, <2>1, <2>2
<1>9. \A i \in DOMAIN trail' : Holds(trail'[i], made')
  BY <1>1, <1>3, <1>5, GrownHolds
<1>10. \A n \in DOMAIN made' : made'[n].secret <= secrets'
  <2>1. ASSUME NEW n \in 1..Len(made) PROVE made'[n].secret <= secrets'
    <3>1. made[n].secret <= secrets /\ made[n].secret \in Nat
      BY <1>4, EachType DEF IInv
    <3> QED
      BY <1>1, <1>3, <3>1
  <2>2. m.secret <= secrets'
    BY <1>1, <1>3
  <2> QED
    BY <1>1, <1>4, <2>1, <2>2
<1>11. Alone'
  <2> SUFFICES ASSUME NEW p \in Tab, NEW d \in Client,
                      tab'[p].step = "writing", tab'[p].kind = "create", tab'[p].on = {d}
               PROVE  /\ client'[d].status = "unborn"
                      /\ \A q \in Tab : q # p => tab'[q].on # {d}
    BY DEF Alone
  <2>1. p # o /\ tab[p].step = "writing" /\ tab[p].kind = "create" /\ tab[p].on = {d}
    BY <1>2
  <2>2. client[d].status = "unborn" /\ \A q \in Tab : q # p => tab[q].on # {d}
    BY <2>1 DEF IInv, Alone
  <2>3. d # c
    BY <1>3, <2>1, <2>2
  <2> QED
    BY <1>1, <1>2, <2>1, <2>2, <2>3
<1>12. Once'
  <2>1. \A p \in Tab : p # o => tab'[p].nth = tab[p].nth
    BY <1>2
  <2>2. \A p \in Tab : tab[p].nth # Len(made) + 1
    BY <1>1, <1>6
  <2>3. \A i \in DOMAIN trail : trail[i].nth # Len(made) + 1
    BY <1>1, <1>5
  <2> QED
    BY <1>2, <1>3, <2>1, <2>2, <2>3 DEF IInv, Once
<1>13. CodeFollowsGrants'
  <2> DEFINE r == Registration(o, c)
  <2>1. \/ "code" \in r.types <=> "authorization_code" \in r.grants
        \/ r.status = "deleted"
    <3>1. \/ "code" \in r.types <=> "authorization_code" \in r.grants
          \/ tab[o].kind = "rotate" /\ r.types = client[c].types /\ r.grants = client[c].grants
          \/ r.status = "deleted"
      BY <1>3, Registrations DEF IInv
    <3> HIDE DEF r
    <3> QED
      BY <1>3, <3>1 DEF IInv, CodeFollowsGrants
  <2> HIDE DEF r
  <2>2. client'[c] = r
    BY <1>1 DEF r
  <2> QED
    BY <1>1, <2>1, <2>2 DEF IInv, CodeFollowsGrants, Live
<1>14. \A n \in 1..Len(made) : UnderWay(n) => UnderWay(n)'
  <2> SUFFICES ASSUME NEW n \in 1..Len(made), UnderWay(n) PROVE UnderWay(n)'
    OBVIOUS
  <2>1. n # 0 /\ n \in Nat /\ tab[o].nth # n
    BY <1>1, <1>3
  <2> QED
    BY <2>1, StaysUnderWay
<1>15. PICK l \in Nat : l = Len(made) + 1
  BY <1>1
<1>16. UnderWay(l)' \/ ("answer" \in made'[l].lost /\ made'[l].verb \in {"create", "delete"})
  <2>1. CASE t.nth = l
    <3>1. t.step \in {"recording", "failing"}
      BY <1>15, <2>1, <1>1 DEF Tells
    <3> QED
      BY <1>2, <2>1, <3>1 DEF UnderWay, InCall
  <2> QED
    BY <1>1, <1>15, <2>1
<1>17. SecretIsHeld'
  <2> SUFFICES ASSUME NEW n \in DOMAIN made', made'[n].secret # 0,
                      client'[made'[n].on].secret = made'[n].secret
               PROVE  \/ made'[n].secret \in known'
                      \/ UnderWay(n)'
                      \/ "view" \in made'[n].lost
                      \/ /\ "answer" \in made'[n].lost
                         /\ \A i \in DOMAIN trail' :
                              trail'[i].nth = n => trail'[i].status = "failure"
    BY DEF SecretIsHeld
  <2>1. CASE n = l
    <3>1. \A i \in DOMAIN trail : trail[i].nth # l
      BY <1>1, <1>5, <1>15
    <3>2. UnderWay(l)' => UnderWay(n)'
      BY <2>1
    <3>3. trail' = trail
      BY <1>3
    <3> QED
      BY <1>16, <2>1, <3>1, <3>2, <3>3
  <2>2. CASE n \in 1..Len(made)
    <3>1. /\ made'[n] = made[n] /\ made[n].secret \in Nat /\ made[n].on \in Client
          /\ made[n].secret <= secrets /\ n \in DOMAIN made
      BY <1>1, <1>4, <2>2, EachType DEF IInv
    <3>2. client[made[n].on].secret = made[n].secret
      <4>1. CASE made[n].on # c
        BY <1>1, <3>1, <4>1
      <4>2. CASE made[n].on = c
        <5> DEFINE r == Registration(o, c)
        <5>1. r.secret = 0 \/ r.secret = secrets + 1 \/ r.secret = client[c].secret
          BY <1>3, Registrations DEF IInv
        <5> HIDE DEF r
        <5>2. client'[c] = r
          BY <1>1 DEF r
        <5> QED
          BY <1>3, <3>1, <4>2, <5>1, <5>2
      <4> QED
        BY <4>1, <4>2
    <3> QED
      BY <1>3, <1>14, <2>2, <3>1, <3>2 DEF IInv, SecretIsHeld
  <2> QED
    BY <1>1, <1>4, <1>15, <2>1, <2>2
<1>18. Accounted'
  <2> SUFFICES ASSUME NEW n \in DOMAIN made'
               PROVE  \/ \E i \in DOMAIN trail' : trail'[i].nth = n
                      \/ UnderWay(n)'
                      \/ "row" \in made'[n].lost
                      \/ "answer" \in made'[n].lost /\ made'[n].verb \in {"create", "delete"}
    BY DEF Accounted
  <2>1. CASE n = l
    BY <1>16, <2>1
  <2>2. CASE n \in 1..Len(made)
    <3>1. made'[n] = made[n] /\ n \in DOMAIN made
      BY <1>1, <1>4, <2>2, EachType DEF IInv
    <3> QED
      BY <1>3, <1>14, <2>2, <3>1 DEF IInv, Accounted
  <2> QED
    BY <1>1, <1>4, <1>15, <2>1, <2>2
<1> QED
  BY <1>7, <1>8, <1>9, <1>10, <1>11, <1>12, <1>13, <1>17, <1>18 DEF IInv

LEMMA WriteStep ==
  ASSUME IInv, NEW o \in Tab, NEW c \in Client, Write(o, c)
  PROVE  IInv'
<1> DEFINE minted == IF Mints(o) THEN secrets + 1 ELSE 0
           l == Len(made) + 1
           t == [tab[o] EXCEPT !.step = "recording", !.nth = l, !.secret = minted]
<1>1. /\ tab' = [tab EXCEPT ![o] = t] /\ Apply(o, c, {})
      /\ tab[o].step = "writing" /\ tab[o].on = {c} /\ tab[o] \in TabRecord
      /\ tab[o].nth = 0 /\ Len(made) \in Nat /\ secrets \in Nat
  BY Started, EachType DEF Write, Apply, IInv
<1>2. minted \in Nat /\ l \in Nat /\ l # 0
  BY <1>1
<1>3. /\ Grown(made, made') /\ Len(made') = l
      /\ made'[l].verb = tab[o].kind /\ made'[l].on = c
      /\ made'[l].before = Contents(client[c]) /\ made'[l].after = Contents(client'[c])
      /\ made'[l].secret = minted /\ client'[c] = Registration(o, c)
  BY <1>1, Applied
<1> HIDE DEF minted, l
<1>4. /\ t \in TabRecord /\ t.step = "recording" /\ t.nth = l /\ t.secret = minted
      /\ t.on = {c} /\ t.kind = tab[o].kind /\ t.form = tab[o].form /\ t.read = tab[o].read
      /\ t.since = tab[o].since /\ t.since \in Nat
  BY <1>1, <1>2 DEF TabRecord
<1> HIDE DEF t
<1>5. ASSUME tab[o].kind = "update" PROVE made'[l].after = t.form
  <2> DEFINE r == Registration(o, c)
  <2>1. r.value = t.form.value /\ r.grants = t.form.grants
    BY <1>1, <1>4, <1>5, Registrations DEF Apply, IInv
  <2>2. t.form = [value |-> t.form.value, grants |-> t.form.grants]
    BY <1>4 DEF TabRecord, Form
  <2> HIDE DEF r
  <2>3. client'[c] = r
    BY <1>3 DEF r
  <2> QED
    BY <1>3, <2>1, <2>2, <2>3 DEF Contents
<1>6. ASSUME tab[o].kind = "update" PROVE HadBeen(t, made', l)
  <2>1. /\ t.since <= Len(made)
        /\ HadBeen(tab[o], made, Len(made)) \/ Contents(client[c]) = Contents(t.read)
    BY <1>1, <1>4, <1>6 DEF IInv, Reads
  <2>2. CASE HadBeen(tab[o], made, Len(made))
    <3>1. HadBeen(tab[o], made', Len(made))
      BY <1>1, <1>3, <2>2, GrownHadBeen
    <3>2. PICK k \in (tab[o].since + 1)..Len(made) :
            tab[o].on = {made'[k].on} /\ made'[k].before = Contents(tab[o].read)
      BY <3>1 DEF HadBeen
    <3>3. k \in (t.since + 1)..l
      BY <1>1, <1>4, <3>2 DEF l
    <3> QED
      BY <1>1, <1>4, <3>2, <3>3 DEF HadBeen
  <2>3. CASE Contents(client[c]) = Contents(t.read)
    <3>1. l \in (t.since + 1)..l
      BY <1>1, <1>2, <1>4, <2>1 DEF l
    <3> QED
      BY <1>3, <1>4, <2>3, <3>1 DEF HadBeen
  <2> QED
    BY <2>1, <2>2, <2>3
<1>7. Tells(t, made')
  <2>1. l \in 1..Len(made')
    BY <1>2, <1>3
  <2> QED
    BY <1>2, <1>3, <1>4, <1>5, <1>6, <2>1 DEF Tells
<1> QED
  BY <1>1, <1>4, <1>7, ApplyStep DEF l

LEMMA UnansweredStep ==
  ASSUME IInv, NEW o \in Tab, NEW c \in Client, WriteUnanswered(o, c)
  PROVE  IInv'
<1>1. /\ Apply(o, c, {"answer"}) /\ Caught(o, Len(made) + 1)
      /\ tab[o].step = "writing" /\ tab[o].on = {c} /\ tab[o] \in TabRecord
      /\ tab[o].nth = 0 /\ Len(made) \in Nat /\ tab[o].kind \in Kind
  BY Started, EachType DEF WriteUnanswered, Apply, IInv, TabRecord
<1>2. CASE tab[o].kind \notin {"update", "rotate"}
  <2>1. tab' = [tab EXCEPT ![o] = Quiet]
    BY <1>1, <1>2 DEF Caught
  <2>2. tab[o].kind \in {"create", "delete"}
    BY <1>1, <1>2 DEF Kind
  <2> QED
    BY <1>1, <2>1, <2>2, ApplyStep, QuietFits, Blanks
<1>3. CASE tab[o].kind \in {"update", "rotate"}
  <2> DEFINE l == Len(made) + 1
             t == FailingTab(tab[o].kind, tab[o].on, tab[o].left, l)
  <2>0. tab[o].left \in BOOLEAN /\ l \in Nat /\ l # 0 /\ tab[o].on \in SUBSET Client
    BY <1>1 DEF TabRecord
  <2>2. tab' = [tab EXCEPT ![o] = t]
    BY <1>1, <1>3 DEF Caught, FailingTab
  <2>3. /\ Len(made') = l /\ made'[l].verb = tab[o].kind /\ made'[l].on = c
        /\ made'[l].lost = {"answer"}
    BY <1>1, Applied
  <2> HIDE DEF l
  <2>5. t \in TabRecord /\ t.step = "failing" /\ t.on = tab[o].on /\ t.secret = 0
        /\ t.kind = tab[o].kind /\ t.nth = l
    BY <1>1, <2>0, Failing
  <2> HIDE DEF t
  <2>6. Tells(t, made')
    BY <1>1, <1>3, <2>0, <2>3, <2>5 DEF Tells
  <2> QED
    BY <1>1, <2>2, <2>5, <2>6, ApplyStep DEF l
<1> QED
  BY <1>2, <1>3

-----------------------------------------------------------------------------
(* The row is written, or its insert fails, and the action answers. *)

(* The row of an update says what its write made of what it read.            *)
LEMMA ChangesSay ==
  ASSUME NEW c \in ClientRecord, NEW form \in Form, NEW row, row.changes = ChangedFieldsOf(c, form)
  PROVE  Says(row, Contents(c), form)
<1> DEFINE from == Contents(c)
           changes == ChangedFieldsOf(c, form)
           Differ(f) == [field |-> f, from |-> c[f], to |-> form[f]]
<1>1. \A f \in Field : from[f] = c[f]
  BY DEF Contents, Field, ClientRecord
<1>2. \A x \in changes : \E f \in Field : c[f] # form[f] /\ x = Differ(f)
  BY DEF ChangedFieldsOf
<1>3. \A f \in Field : c[f] # form[f] => Differ(f) \in changes
  BY DEF ChangedFieldsOf
<1>4. \A f : Differ(f).field = f /\ Differ(f).from = c[f] /\ Differ(f).to = form[f]
  OBVIOUS
<1> HIDE DEF Differ, changes, from
<1>5. \A x \in changes : x.from = from[x.field] /\ x.to = form[x.field] /\ x.from # x.to
  BY <1>1, <1>2, <1>4
<1>6. \A f \in Field : from[f] # form[f] => \E x \in changes : x.field = f
  BY <1>1, <1>3, <1>4
<1>7. row.changes = changes
  BY DEF changes
<1> QED
  BY <1>5, <1>6, <1>7 DEF Says, from

LEMMA Lost ==
  ASSUME IInv, NEW o \in Tab, NEW lost \in SUBSET {"row", "view"}, Lose(o, lost)
  PROVE  /\ Grown(made, made') /\ Len(made') = Len(made) /\ DOMAIN made' = DOMAIN made
         /\ tab[o].nth # 0 => made'[tab[o].nth].lost = made[tab[o].nth].lost \cup lost
<1> DEFINE n == tab[o].nth
<1>1. made \in Seq(ChangeRecord) /\ (n # 0 => n \in 1..Len(made))
  BY EachType DEF IInv, Tells
<1>2. CASE n = 0
  <2>1. made' = made
    BY <1>2 DEF Lose
  <2>2. Grown(made, made')
    BY <1>1, <2>1 DEF Grown
  <2>3. Len(made') = Len(made) /\ DOMAIN made' = DOMAIN made
    BY <2>1
  <2> QED
    BY <1>2, <2>2, <2>3
<1>3. CASE n # 0
  <2> DEFINE m == [made[n] EXCEPT !.lost = made[n].lost \cup lost]
  <2>1. made' = [made EXCEPT ![n] = m]
    BY <1>3 DEF Lose
  <2>2. made[n] \in ChangeRecord
    BY <1>1, <1>3
  <2>3. /\ m \in ChangeRecord /\ m.lost = made[n].lost \cup lost
        /\ m.verb = made[n].verb /\ m.on = made[n].on /\ m.before = made[n].before
        /\ m.after = made[n].after /\ m.secret = made[n].secret
    BY <2>2 DEF ChangeRecord
  <2> HIDE DEF m, n
  <2>4. /\ made' \in Seq(ChangeRecord) /\ Len(made') = Len(made) /\ DOMAIN made' = DOMAIN made
        /\ \A k \in 1..Len(made) : made'[k] = IF k = n THEN m ELSE made[k]
    BY <1>1, <1>3, <2>1, <2>3
  <2>5. Grown(made, made')
    BY <1>1, <2>3, <2>4 DEF Grown
  <2> QED
    BY <1>1, <1>3, <2>3, <2>4, <2>5 DEF n
<1> QED
  BY <1>2, <1>3

(* What Record appends.                                                      *)
RowOf(o, c) ==
  [verb |-> tab[o].kind, on |-> c,
   status |-> IF tab[o].step = "recording" THEN "success" ELSE "failure",
   changes |-> IF tab[o].step = "recording" /\ tab[o].kind = "update"
               THEN ChangedFieldsOf(tab[o].read, tab[o].form) ELSE {},
   since |-> tab[o].since, nth |-> tab[o].nth]

LEMMA RowHolds ==
  ASSUME IInv, NEW o \in Tab, NEW c \in Client, tab[o].step \in {"recording", "failing"},
         tab[o].on = {c}
  PROVE  RowOf(o, c) \in Row /\ Holds(RowOf(o, c), made)
<1> DEFINE t == tab[o]
           changes == IF t.step = "recording" /\ t.kind = "update"
                      THEN ChangedFieldsOf(t.read, t.form) ELSE {}
           row == RowOf(o, c)
<1>1. /\ t \in TabRecord /\ t.form \in Form /\ t.read \in ClientRecord /\ t.kind \in Kind
      /\ t.since \in Nat /\ t.nth \in Nat /\ Tells(t, made) /\ Len(made) \in Nat
  BY EachType DEF IInv, TabRecord
<1>2. changes \subseteq Change
  BY <1>1, ChangesType
<1>3. row = [verb |-> t.kind, on |-> c,
             status |-> IF t.step = "recording" THEN "success" ELSE "failure",
             changes |-> changes, since |-> t.since, nth |-> t.nth]
  BY DEF RowOf
<1> HIDE DEF changes, row
<1>4. row \in Row /\ row.verb = t.kind /\ row.on = c /\ row.changes = changes
      /\ row.since = t.since /\ row.nth = t.nth
      /\ (row.status = "success" <=> t.step = "recording")
  BY <1>1, <1>2, <1>3 DEF Row
<1>5. t.nth # 0 => t.nth \in 1..Len(made) /\ made[t.nth].verb = t.kind /\ made[t.nth].on = c
  BY <1>1 DEF Tells
<1>6. ASSUME t.step = "recording", t.kind = "update"
      PROVE  \E k \in (t.since + 1)..t.nth :
               made[k].on = c /\ Says(row, made[k].before, made[t.nth].after)
  <2>1. made[t.nth].after = t.form /\ HadBeen(t, made, t.nth)
    BY <1>1, <1>6 DEF Tells
  <2>2. PICK k \in (t.since + 1)..t.nth : {c} = {made[k].on} /\ made[k].before = Contents(t.read)
    BY <2>1 DEF HadBeen
  <2>3. row.changes = ChangedFieldsOf(t.read, t.form)
    BY <1>4, <1>6 DEF changes
  <2>4. Says(row, Contents(t.read), t.form)
    BY <1>1, <2>3, ChangesSay
  <2> QED
    BY <2>1, <2>2, <2>4
<1>7. Holds(row, made)
  BY <1>1, <1>4, <1>5, <1>6 DEF Holds, Tells
<1> QED
  BY <1>4, <1>7 DEF row

LEMMA RepliedStep ==
  ASSUME IInv, NEW o \in Tab, NEW c \in Client, NEW lost \in SUBSET {"row", "view"},
         tab[o].step \in {"recording", "failing"}, tab[o].on = {c},
         Lose(o, lost), Unseen(o) \subseteq lost, Reply(o, c),
         \/ trail' = Append(trail, RowOf(o, c))
         \/ trail' = trail /\ "row" \in lost
  PROVE  IInv'
<1> DEFINE t == IF tab[o].step = "failing" /\ tab[o].kind = "update" THEN Edited(o, c) ELSE Quiet
           n == tab[o].nth
<1>1. /\ Grown(made, made') /\ Len(made') = Len(made) /\ DOMAIN made' = DOMAIN made
      /\ Len(made) \in Nat /\ made' \in Seq(ChangeRecord) /\ DOMAIN made = 1..Len(made)
      /\ n # 0 => made'[n].lost = made[n].lost \cup lost
  BY Lost, EachType DEF IInv, Grown
<1>2. /\ tab' = [tab EXCEPT ![o] = t] /\ UNCHANGED <<client, secrets>>
      /\ known' = IF tab[o].left THEN known ELSE known \cup ({tab[o].secret} \ {0})
  BY DEF Reply, Shown
<1>3. /\ t \in TabRecord /\ t.step \in {"idle", "editing"} /\ t.on \in {{}, {c}}
      /\ t.secret = 0 /\ t.nth = 0 /\ t.kind = "update"
  BY BackToForm, QuietFits, Blanks DEF Quiet
<1>4. /\ tab[o] \in TabRecord /\ tab[o].secret \in Nat /\ n \in Nat /\ Tells(tab[o], made)
      /\ (n # 0 => n \in 1..Len(made))
  BY EachType DEF IInv, TabRecord, Tells
<1> HIDE DEF t
<1>5. /\ tab' \in [Tab -> TabRecord] /\ tab'[o] = t
      /\ \A p \in Tab : p # o => tab'[p] = tab[p]
  BY <1>2, <1>3, TabType DEF IInv
<1>6. RowOf(o, c) \in Row /\ Holds(RowOf(o, c), made) /\ RowOf(o, c).nth = n
      /\ (RowOf(o, c).status = "success" <=> tab[o].step = "recording")
      /\ RowOf(o, c).status \in {"success", "failure"}
  BY RowHolds DEF RowOf
<1>7. /\ trail' \in Seq(Row) /\ trail \in Seq(Row)
      /\ \A i \in DOMAIN trail : i \in DOMAIN trail' /\ trail'[i] = trail[i]
      /\ \A i \in DOMAIN trail' : i \notin DOMAIN trail =>
           i = Len(trail) + 1 /\ trail'[i] = RowOf(o, c)
      /\ (\E i \in DOMAIN trail' : trail'[i] = RowOf(o, c)) \/ "row" \in lost
  <2>1. trail \in Seq(Row)
    BY DEF IInv
  <2>2. CASE trail' = trail /\ "row" \in lost
    BY <2>1, <2>2
  <2>3. CASE trail' = Append(trail, RowOf(o, c))
    <3> DEFINE row == RowOf(o, c)
    <3>1. row \in Row /\ trail' = Append(trail, row)
      BY <1>6, <2>3
    <3> HIDE DEF row
    <3>2. /\ trail' \in Seq(Row) /\ Len(trail') = Len(trail) + 1 /\ Len(trail) \in Nat
          /\ \A i \in 1..Len(trail) : trail'[i] = trail[i]
          /\ trail'[Len(trail) + 1] = row
          /\ DOMAIN trail = 1..Len(trail) /\ DOMAIN trail' = 1..(Len(trail) + 1)
      BY <2>1, <3>1
    <3> QED
      BY <2>1, <3>2 DEF row
  <2> QED
    BY <2>2, <2>3
<1>8. \A i \in DOMAIN trail : trail[i] \in Row /\ Holds(trail[i], made)
  BY <1>7 DEF IInv
<1>9. \A i \in DOMAIN trail' : trail'[i] \in Row /\ Holds(trail'[i], made')
  <2>1. \A i \in DOMAIN trail' : trail'[i] \in Row /\ Holds(trail'[i], made)
    BY <1>6, <1>7, <1>8
  <2> QED
    BY <1>1, <2>1, GrownHolds
<1>10. TypeOK'
  <2>1. \A i \in DOMAIN trail' : /\ trail'[i].on \in Client
                                 /\ trail'[i].status \in {"success", "failure"}
                                 /\ trail'[i].nth \in 0..Len(made')
    BY <1>9 DEF Row, Holds
  <2>2. known' \subseteq Nat
    BY <1>2, <1>4 DEF IInv, TypeOK
  <2> QED
    BY <1>1, <1>2, <1>5, <2>1, <2>2 DEF IInv, TypeOK
<1>11. \A p \in Tab : Tells(tab'[p], made') /\ Reads(tab'[p], made', client')
  <2>1. Tells(t, made') /\ Reads(t, made', client')
    BY <1>3 DEF Tells, Reads
  <2>2. ASSUME NEW p \in Tab
        PROVE  Tells(tab[p], made') /\ Reads(tab[p], made', client')
    <3>1. tab[p] \in TabRecord /\ Tells(tab[p], made) /\ Reads(tab[p], made, client)
      BY EachType DEF IInv
    <3>2. HadBeen(tab[p], made, Len(made)) => HadBeen(tab[p], made', Len(made))
      BY <1>1, <3>1, GrownHadBeen
    <3> QED
      BY <1>1, <1>2, <3>1, <3>2, GrownTells DEF Reads
  <2> QED
    BY <1>5, <2>1, <2>2
<1>12. \A k \in DOMAIN made' : made'[k].secret <= secrets'
  BY <1>1, <1>2 DEF IInv, Grown
<1>13. Alone'
  <2> SUFFICES ASSUME NEW p \in Tab, NEW d \in Client,
                      tab'[p].step = "writing", tab'[p].kind = "create", tab'[p].on = {d}
               PROVE  /\ client[d].status = "unborn"
                      /\ \A q \in Tab : q # p => tab'[q].on # {d}
    BY <1>2 DEF Alone
  <2>1. p # o /\ tab[p].step = "writing" /\ tab[p].kind = "create" /\ tab[p].on = {d}
    BY <1>3, <1>5
  <2>2. client[d].status = "unborn" /\ \A q \in Tab : q # p => tab[q].on # {d}
    BY <2>1 DEF IInv, Alone
  <2>3. t.on # {d}
    BY <1>3, <2>1, <2>2
  <2> QED
    BY <1>5, <2>2, <2>3
<1>14. \A i \in DOMAIN trail : trail[i].nth # 0 => trail[i].nth # n
  BY DEF IInv, Once
<1>15. Once'
  <2>1. \A p, q \in Tab : tab'[p].nth # 0 /\ tab'[p].nth = tab'[q].nth => p = q
    BY <1>3, <1>5 DEF IInv, Once
  <2>2. \A i \in DOMAIN trail', p \in Tab : trail'[i].nth # 0 => trail'[i].nth # tab'[p].nth
    <3>1. \A p \in Tab : p # o /\ n # 0 => tab[p].nth # n
      BY DEF IInv, Once
    <3> QED
      BY <1>3, <1>5, <1>6, <1>7, <3>1 DEF IInv, Once
  <2>3. \A i, j \in DOMAIN trail' : trail'[i].nth = trail'[j].nth /\ trail'[i].nth # 0 => i = j
    BY <1>6, <1>7, <1>14 DEF IInv, Once
  <2> QED
    BY <2>1, <2>2, <2>3 DEF Once
<1>16. CodeFollowsGrants'
  BY <1>2 DEF IInv, CodeFollowsGrants, Live
<1>17. \A k \in DOMAIN made : k # n /\ UnderWay(k) => UnderWay(k)'
  <2> SUFFICES ASSUME NEW k \in DOMAIN made, k # n, UnderWay(k) PROVE UnderWay(k)'
    OBVIOUS
  <2>1. k \in Nat /\ k # 0
    BY <1>1
  <2> QED
    BY <1>2, <1>3, <2>1, StaysUnderWay
<1>18. SecretIsHeld'
  <2> SUFFICES ASSUME NEW k \in DOMAIN made', made'[k].secret # 0,
                      client'[made'[k].on].secret = made'[k].secret
               PROVE  \/ made'[k].secret \in known'
                      \/ UnderWay(k)'
                      \/ "view" \in made'[k].lost
                      \/ /\ "answer" \in made'[k].lost
                         /\ \A i \in DOMAIN trail' :
                              trail'[i].nth = k => trail'[i].status = "failure"
    BY DEF SecretIsHeld
  <2>1. /\ made'[k].secret = made[k].secret /\ made'[k].on = made[k].on
        /\ made[k].lost \subseteq made'[k].lost /\ k \in DOMAIN made /\ k # 0
    BY <1>1 DEF Grown
  <2>2. CASE k # n
    <3>1. \/ made[k].secret \in known
          \/ UnderWay(k)
          \/ "view" \in made[k].lost
          \/ /\ "answer" \in made[k].lost
             /\ \A i \in DOMAIN trail : trail[i].nth = k => trail[i].status = "failure"
      BY <1>2, <2>1 DEF IInv, SecretIsHeld
    <3>2. known \subseteq known'
      BY <1>2
    <3> QED
      BY <1>6, <1>7, <1>17, <2>1, <2>2, <3>1, <3>2
  <2>3. CASE k = n /\ tab[o].step = "recording" /\ tab[o].left
    BY <1>1, <2>1, <2>3 DEF Unseen
  <2>4. CASE k = n /\ tab[o].step = "recording" /\ ~tab[o].left
    <3>1. made[k].secret = tab[o].secret
      BY <1>4, <2>4 DEF Tells
    <3> QED
      BY <1>2, <2>1, <2>4, <3>1
  <2>5. CASE k = n /\ tab[o].step = "failing"
    <3>1. "answer" \in made'[k].lost
      BY <1>4, <2>1, <2>5 DEF Tells
    <3>2. \A i \in DOMAIN trail' : trail'[i].nth = k => trail'[i].status = "failure"
      BY <1>6, <1>7, <1>14, <2>1, <2>5
    <3> QED
      BY <3>1, <3>2
  <2> QED
    BY <2>2, <2>3, <2>4, <2>5
<1>19. Accounted'
  <2> SUFFICES ASSUME NEW k \in DOMAIN made'
               PROVE  \/ \E i \in DOMAIN trail' : trail'[i].nth = k
                      \/ UnderWay(k)'
                      \/ "row" \in made'[k].lost
                      \/ "answer" \in made'[k].lost /\ made'[k].verb \in {"create", "delete"}
    BY DEF Accounted
  <2>1. made'[k].verb = made[k].verb /\ made[k].lost \subseteq made'[k].lost /\ k \in DOMAIN made
        /\ k # 0
    BY <1>1 DEF Grown
  <2>2. CASE k = n
    BY <1>1, <1>6, <1>7, <2>1, <2>2
  <2>3. CASE k # n
    <3>1. \/ \E i \in DOMAIN trail : trail[i].nth = k
          \/ UnderWay(k)
          \/ "row" \in made[k].lost
          \/ "answer" \in made[k].lost /\ made[k].verb \in {"create", "delete"}
      BY <2>1 DEF IInv, Accounted
    <3> QED
      BY <1>7, <1>17, <2>1, <2>3, <3>1
  <2> QED
    BY <2>2, <2>3
<1> QED
  BY <1>7, <1>9, <1>10, <1>11, <1>12, <1>13, <1>15, <1>16, <1>18, <1>19 DEF IInv

LEMMA RecordStep ==
  ASSUME IInv, NEW o \in Tab, NEW c \in Client, Record(o, c) \/ RecordDropped(o, c)
  PROVE  IInv'
<1>1. CASE Record(o, c)
  <2>1. /\ tab[o].step \in {"recording", "failing"} /\ tab[o].on = {c}
        /\ Lose(o, Unseen(o)) /\ Reply(o, c) /\ trail' = Append(trail, RowOf(o, c))
    BY <1>1 DEF Record, RowOf
  <2>2. Unseen(o) \in SUBSET {"row", "view"}
    BY DEF Unseen
  <2> QED
    BY <2>1, <2>2, RepliedStep
<1>2. CASE RecordDropped(o, c)
  <2>1. /\ tab[o].step \in {"recording", "failing"} /\ tab[o].on = {c}
        /\ Lose(o, Unseen(o) \cup {"row"}) /\ Reply(o, c) /\ trail' = trail
    BY <1>2 DEF RecordDropped
  <2>2. Unseen(o) \cup {"row"} \in SUBSET {"row", "view"}
    BY DEF Unseen
  <2> QED
    BY <2>1, <2>2, RepliedStep
<1> QED
  BY <1>1, <1>2

LEMMA Step ==
  ASSUME IInv, [Next]_vars
  PROVE  IInv'
<1>1. ASSUME NEW o \in Tab, NEW c \in Client, Operate(o, c) \/ Call(o, c)
      PROVE  IInv'
  BY <1>1, OperateStep, ReadStep, WriteStep, RefusedStep, UnansweredStep, RecordStep DEF Call
<1>2. ASSUME NEW o \in Tab, Cancel(o) \/ Leave(o)
      PROVE  IInv'
  BY <1>2, LeaveStep
<1>3. CASE UNCHANGED vars
  <2>1. UNCHANGED <<client, tab, trail, made, secrets, known>>
    BY <1>3 DEF vars
  <2> QED
    BY <2>1 DEF IInv, TypeOK, Alone, Once, CodeFollowsGrants, SecretIsHeld, Accounted,
                UnderWay, InCall, Live
<1> QED
  BY <1>1, <1>2, <1>3 DEF Next

(* What a step makes of a registration that stays.                           *)
LEMMA ClientStep ==
  ASSUME IInv, [Next]_vars, NEW c \in Client, Live(c), client'[c].status = "live"
  PROVE  \/ client'[c] = client[c]
         \/ /\ Hybrid(client'[c]) <=> Hybrid(client[c])
            /\ client'[c].secret = client[c].secret
         \/ /\ client'[c].types = client[c].types
            /\ client'[c].value = client[c].value /\ client'[c].grants = client[c].grants
<1>1. ASSUME NEW o \in Tab, NEW d \in Client, NEW lost \in SUBSET {"answer"}, Apply(o, d, lost), d = c
      PROVE  \/ /\ Hybrid(client'[c]) <=> Hybrid(client[c])
                /\ client'[c].secret = client[c].secret
             \/ /\ client'[c].types = client[c].types
                /\ client'[c].value = client[c].value /\ client'[c].grants = client[c].grants
  <2> DEFINE r == Registration(o, c)
  <2>1. \/ tab[o].kind = "create"
        \/ /\ tab[o].kind = "update" /\ r.secret = client[c].secret
           /\ "id_token" \in r.types <=> "id_token" \in tab[o].read.types
        \/ /\ r.types = client[c].types
           /\ r.grants = client[c].grants /\ r.value = client[c].value
        \/ r.status = "deleted"
    BY Registrations DEF IInv
  <2> HIDE DEF r
  <2>2. client'[c] = r
    BY <1>1, Applied DEF r
  <2>3. tab[o].step = "writing" /\ tab[o].on = {c}
    BY <1>1 DEF Apply
  <2>4. tab[o].kind # "create"
    BY <2>3 DEF IInv, Alone, Live
  <2>5. tab[o].kind = "update" => (Hybrid(tab[o].read) <=> Hybrid(client[c]))
    BY <2>3 DEF IInv, Reads, Live
  <2> QED
    BY <2>1, <2>2, <2>4, <2>5 DEF Hybrid
<1>2. ASSUME NEW o \in Tab, NEW d \in Client, NEW lost \in SUBSET {"answer"}, Apply(o, d, lost), d # c
      PROVE  client'[c] = client[c]
  BY <1>2, Applied
<1>3. client' = client \/ \E o \in Tab, d \in Client, lost \in SUBSET {"answer"} : Apply(o, d, lost)
  <2>1. ASSUME NEW o \in Tab, NEW d \in Client, Operate(o, d) PROVE client' = client
    BY <2>1 DEF Operate, OpenForm, UpdateApplication, CreateApplication, RotateOrDelete
  <2>2. ASSUME NEW o \in Tab, NEW d \in Client, Call(o, d)
        PROVE  client' = client \/ \E lost \in SUBSET {"answer"} : Apply(o, d, lost)
    BY <2>2 DEF Call, ReadClient, WriteRefused, Write, WriteUnanswered, Record, RecordDropped, Reply
  <2>3. ASSUME NEW o \in Tab, Cancel(o) \/ Leave(o) PROVE client' = client
    BY <2>3 DEF Cancel, Leave
  <2> QED
    BY <2>1, <2>2, <2>3 DEF Next, vars
<1> QED
  BY <1>1, <1>2, <1>3

-----------------------------------------------------------------------------
(* The theorems.                                                             *)
(* The inductive invariant.                                                  *)
THEOREM Invariant == Spec => []IInv
<1>1. Init => IInv
  BY Initially
<1>2. IInv /\ [Next]_vars => IInv'
  BY Step
<1> QED
  BY <1>1, <1>2, PTL DEF Spec

(* Every variable holds a value of its kind.                                 *)
THEOREM TypeCorrect == Spec => []TypeOK
<1>1. IInv => TypeOK
  BY DEF IInv
<1> QED
  BY <1>1, Invariant, PTL

(* However many operators edit a client at once, from whatever they read,    *)
(* its response types follow the grants it has.                              *)
THEOREM PartsBelongTogether == Spec => []CodeFollowsGrants
<1>1. IInv => CodeFollowsGrants
  BY DEF IInv
<1> QED
  BY <1>1, Invariant, PTL

(* Whatever answers are lost and whatever pages are left, a secret in force  *)
(* that nobody was shown is one whose page was left, or one whose creation   *)
(* or rotation was answered, and recorded if at all, as a failure            *)
(* (rotateApplicationSecret's catch).                                        *)
THEOREM NoSecretIsLostInSilence == Spec => []SecretIsHeld
<1>1. IInv => SecretIsHeld
  BY DEF IInv
<1> QED
  BY <1>1, Invariant, PTL

(* However the actions of several operators overlap, and whatever inserts    *)
(* fail and answers are lost, a row says what Hydra made of what it had, no  *)
(* change has two, and one without any lost its row or its answer            *)
(* (changedFieldsOf, recordEvent).                                           *)
THEOREM TheTrailIsTrue == Spec => []TrailIsTrue
<1>1. IInv => TrailIsTrue
  BY IsTrue
<1> QED
  BY <1>1, Invariant, PTL

(* An edit leaves a hybrid client hybrid and its secret alone, though it     *)
(* computes from what it read, and a rotation leaves the fields alone.       *)
THEOREM EditsKeepToTheirFields == Spec => NothingElseChanges
<1>1. IInv /\ [Next]_vars =>
      [\A c \in Client : Live(c) /\ Live(c)' =>
         /\ "id_token" \in client[c].types <=> "id_token" \in client[c].types'
         /\ client[c].secret' # client[c].secret =>
              \A f \in Field : client[c][f]' = client[c][f]]_vars
  <2> SUFFICES ASSUME IInv, [Next]_vars, NEW c \in Client, Live(c), Live(c)'
               PROVE  /\ "id_token" \in client[c].types <=> "id_token" \in client[c].types'
                      /\ client[c].secret' # client[c].secret =>
                           \A f \in Field : client[c][f]' = client[c][f]
    OBVIOUS
  <2>1. \/ client'[c] = client[c]
        \/ /\ Hybrid(client'[c]) <=> Hybrid(client[c])
           /\ client'[c].secret = client[c].secret
        \/ /\ client'[c].types = client[c].types
           /\ client'[c].value = client[c].value /\ client'[c].grants = client[c].grants
    BY ClientStep DEF Live
  <2> QED
    BY <2>1 DEF Hybrid, Field
<1> QED
  BY <1>1, Invariant, PTL DEF Spec, NothingElseChanges
=============================================================================
