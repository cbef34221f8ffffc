---------------------------- MODULE TenancyProofs ----------------------------
(***************************************************************************)
(* What Tenancy promises for any people, standings and fields, any number  *)
(* of writes by others and any number of calls in flight: every answer     *)
(* finds its dialog, a page has one write to the roster at a time, and     *)
(* what platform refuses as an escalation was offered on a stale reading.  *)
(***************************************************************************)
EXTENDS Tenancy, TLAPS

OrgRecord == [field : [Field -> Value], holds : [Person -> Standing \cup {None}],
              live : BOOLEAN]
TabRecord ==
  [page : {"list", "org", "failed", "away"}, org : Nat, roster : Nat, mine : Nat,
   dialog : {None, "add", "remove", "edit", "delete", "create"},
   about : Person \cup {None}, standing : Standing, held : Standing \cup {None},
   field : [Field -> Value \cup {None}]]
CallRecord ==
  [kind : {"add", "standing", "remove", "edit", "delete", "create"},
   who : Person \cup {None}, standing : Standing \cup {None}, held : Standing \cup {None},
   sent : [Field -> Value \cup {None}],
   verdict : {"pending", "done", "refused", "inherited", "escalation"},
   stale : BOOLEAN, mounted : BOOLEAN]

-----------------------------------------------------------------------------
(* The invariant, part by part: the log l, the tab t, the calls s, whose tab *)
(* m it is.                                                                  *)
LogGood(l) == l \in Seq(OrgRecord) /\ Len(l) \in 1..(MaxWrites + 1)

Shows(t, l, m) == l[t.org].live /\ (m \notin Operator => l[t.mine].holds[m] # None)

TabGood(t, l, m) ==
  /\ t \in TabRecord
  /\ t.org \in 1..Len(l) /\ t.roster \in 1..Len(l) /\ t.mine \in 1..Len(l)
  /\ t.dialog # None => t.page = IF t.dialog = "create" THEN "list" ELSE "org"
  /\ t.page = "org" => Shows(t, l, m)
  /\ t.dialog = "remove" <=> t.about \in Person
  /\ t.dialog = "remove" => t.about \notin Above
  /\ m \notin Operator => t.standing = "viewer" \/ t.standing \in Grantable(t.held)

CallFine(c, m) ==
  /\ c \in CallRecord
  /\ c.verdict = "pending" /\ c.kind \in Member => c.who \in Person
  /\ c.verdict = "pending" /\ c.kind \in {"add", "standing"} =>
       c.standing \in Standing /\ (m \notin Operator => c.standing \in Grantable(c.held))
  /\ c.verdict = "pending" /\ c.kind \in {"standing", "remove"} => c.who \notin Above
  /\ c.mounted \/ c.verdict = "pending" \/ Navigates(c)
  /\ c.verdict = "escalation" => c.stale
  /\ c.verdict = "inherited" => c.kind = "add"

Exclusive(kinds, s) ==
  \A c, d \in s : c.mounted /\ d.mounted /\ c.kind \in kinds /\ d.kind \in kinds => c = d

CallsGood(s, m) ==
  /\ \A c \in s : CallFine(c, m)
  /\ Exclusive(Member, s) /\ Exclusive({"edit"}, s)

(* Does the answer to c belong in its dialog?                                *)
Anchored(c, m) == c.kind = "edit" \/ (c.kind \in {"add", "create"} /\ m \notin Operator)

Beside(t, s, m) ==
  \A c \in s : c.mounted =>
    /\ t.page = IF c.kind = "create" THEN "list" ELSE "org"
    /\ Anchored(c, m) => t.dialog = c.kind
    /\ m \notin Operator /\ t.dialog = "add" => c.kind \notin {"standing", "remove"}
    /\ m \notin Operator /\ t.dialog = "remove" => c.kind \notin Member

IInv ==
  /\ me \in Visitor \cup Operator
  /\ LogGood(log) /\ TabGood(tab, log, me) /\ CallsGood(calls, me) /\ Beside(tab, calls, me)

-----------------------------------------------------------------------------
(* Standings.                                                                *)
LEMMA Somebody ==
  ASSUME IInv, me \notin Operator
  PROVE  me \in Person
  BY TenancyAssumption DEF IInv

LEMMA ViewerIsOffered ==
  ASSUME NEW s \in Standing \cup {None}, Grantable(s) # {}
  PROVE  "viewer" \in Grantable(s)
<1> DEFINE ceiling == GrantCeiling(Permits(s))
<1>1. ceiling # None
  BY DEF Grantable, MayGrant
<1>2. ceiling \in {"owner", "admin", "manager", None}
  BY DEF GrantCeiling
<1>3. Rank["viewer"] = 1 /\ Rank["admin"] = 4 /\ Rank["manager"] = 2 + 1
  BY DEF Rank
<1> HIDE DEF ceiling
<1>4. MayGrant(ceiling, "viewer")
  BY <1>1, <1>2, <1>3 DEF MayGrant
<1> QED
  BY <1>4, TenancyAssumption DEF Grantable, ceiling

(* A standing in hand that is offered no longer may still be the first of    *)
(* all, which is offered wherever one is.                                    *)
LEMMA GrantableIsAStanding ==
  \A s : Grantable(s) \subseteq Standing
  BY DEF Grantable

-----------------------------------------------------------------------------
(* The parts, by themselves.                                                 *)
LEMMA LogGrows ==
  ASSUME NEW l, LogGood(l), Len(l) <= MaxWrites, NEW x \in OrgRecord
  PROVE  /\ LogGood(Append(l, x))
         /\ \A i \in 1..Len(l) : i \in 1..Len(Append(l, x)) /\ Append(l, x)[i] = l[i]
<1>1. l \in Seq(OrgRecord) /\ Len(l) \in 1..(MaxWrites + 1) /\ MaxWrites \in Nat
  BY TenancyAssumption DEF LogGood
<1>2. Append(l, x) \in Seq(OrgRecord) /\ Len(Append(l, x)) = Len(l) + 1
  BY <1>1
<1>3. \A i \in 1..Len(l) : Append(l, x)[i] = l[i]
  BY <1>1
<1> QED
  BY <1>1, <1>2, <1>3 DEF LogGood

LEMMA TabKeeps ==
  ASSUME NEW l, LogGood(l), Len(l) <= MaxWrites, NEW x \in OrgRecord,
         NEW t, NEW m, TabGood(t, l, m)
  PROVE  TabGood(t, Append(l, x), m)
  BY LogGrows DEF TabGood, Shows

LEMMA NowIsOne ==
  ASSUME IInv
  PROVE  /\ Now \in OrgRecord /\ Len(log) \in 1..Len(log)
         /\ \A i \in 1..Len(log) : log[i] \in OrgRecord
  BY DEF IInv, LogGood, Now

LEMMA OrphansAreFine ==
  ASSUME NEW s, NEW m, NEW r, CallsGood(s, m), r \subseteq s
  PROVE  CallsGood(Orphaned(r), m) /\ \A c \in Orphaned(r) : ~c.mounted
<1>1. ASSUME NEW c \in s
      PROVE  LET d == [c EXCEPT !.mounted = FALSE]
             IN  /\ ~d.mounted
                 /\ d.mounted \/ d.verdict = "pending" \/ Navigates(d) => CallFine(d, m)
  <2> DEFINE d == [c EXCEPT !.mounted = FALSE]
  <2>1. CallFine(c, m)
    BY DEF CallsGood
  <2>2. /\ d \in CallRecord /\ d.mounted = FALSE /\ d.kind = c.kind /\ d.verdict = c.verdict
        /\ d.who = c.who /\ d.standing = c.standing /\ d.held = c.held /\ d.stale = c.stale
    BY <2>1 DEF CallFine, CallRecord
  <2> HIDE DEF d
  <2>3. d.mounted \/ d.verdict = "pending" \/ Navigates(d) => CallFine(d, m)
    BY <2>1, <2>2 DEF CallFine
  <2> QED
    BY <2>2, <2>3 DEF d
<1>2. \A d \in Orphaned(r) : CallFine(d, m) /\ ~d.mounted
  BY <1>1 DEF Orphaned, Heard
<1> QED
  BY <1>2 DEF CallsGood, Exclusive

LEMMA Gathered ==
  ASSUME IInv, me' = me, LogGood(log'), TabGood(tab', log', me), CallsGood(calls', me),
         Beside(tab', calls', me)
  PROVE  IInv'
  BY DEF IInv

-----------------------------------------------------------------------------
(* A page that goes leaves nothing but calls nobody waits for.               *)
LEMMA UnmountIsFine ==
  ASSUME IInv, NEW page \in {"list", "failed", "away"}, NEW read, NEW r, r \subseteq calls,
         read.org \in 1..Len(log), read.roster \in 1..Len(log), read.mine \in 1..Len(log),
         Unmount(page, read, r), me' = me, log' = log
  PROVE  IInv'
<1>1. LogGood(log) /\ CallsGood(calls, me)
  BY DEF IInv
<1>2. CallsGood(calls', me) /\ \A c \in calls' : ~c.mounted
  BY <1>1, OrphansAreFine DEF Unmount
<1>3. Home \in TabRecord /\ Home.dialog = None /\ Home.about = None /\ Home.standing = "viewer"
  BY TenancyAssumption DEF Home, TabRecord
<1> DEFINE i == read.org
           j == read.roster
           k == read.mine
           bare == [Home EXCEPT !.page = page, !.org = i, !.roster = j, !.mine = k]
<1> HIDE DEF i, j, k
<1>4. /\ bare \in TabRecord /\ bare.dialog = None /\ bare.about = None
      /\ bare.standing = "viewer" /\ bare.page = page
      /\ bare.org = i /\ bare.roster = j /\ bare.mine = k
  <2>1. i \in Nat /\ j \in Nat /\ k \in Nat
    BY DEF i, j, k
  <2> QED
    BY <1>3, <2>1 DEF TabRecord
<1>7. tab' = bare /\ i \in 1..Len(log) /\ j \in 1..Len(log) /\ k \in 1..Len(log)
  BY DEF Unmount, i, j, k
<1> HIDE DEF bare
<1>5. TabGood(tab', log, me)
  BY <1>4, <1>7, TenancyAssumption DEF TabGood, None
<1>6. Beside(tab', calls', me)
  BY <1>2 DEF Beside
<1> QED
  BY <1>1, <1>2, <1>5, <1>6, Gathered

LEMMA MountIsFine ==
  ASSUME IInv, NEW read \in TabRecord, read.dialog = None, read.about \notin Person,
         read.org \in 1..Len(log), read.roster \in 1..Len(log), read.mine \in 1..Len(log),
         read.mine = tab.mine, Mount(read), me' = me, log' = log
  PROVE  IInv'
<1>1. CASE ~Found(read)
  BY <1>1, UnmountIsFine DEF Mount
<1>2. CASE Found(read)
  <2>0. calls' = Orphaned(calls)
    BY <1>2 DEF Mount
  <2>1. PICK s \in IF Console \/ Offered = {} THEN {"viewer"} ELSE Offered :
          tab' = [read EXCEPT !.page = "org", !.standing = s, !.held = Held,
                              !.field = log[read.org].field]
    BY <1>2 DEF Mount
  <2>2. LogGood(log) /\ CallsGood(calls, me) /\ log[read.org] \in OrgRecord
    BY NowIsOne DEF IInv
  <2>3. s \in Standing /\ Held \in Standing \cup {None}
    <3>1. me \notin Operator => log[tab.mine] \in OrgRecord /\ me \in Person
      BY NowIsOne, Somebody DEF IInv, TabGood
    <3> QED
      BY <3>1, TenancyAssumption, GrantableIsAStanding
      DEF Offered, Held, Mine, Console, OrgRecord
  <2>4. me \notin Operator => s = "viewer" \/ s \in Grantable(Held)
    BY DEF Offered, Held, Console
  <2>5. /\ tab' \in TabRecord /\ tab'.dialog = None /\ tab'.about = read.about
        /\ tab'.standing = s /\ tab'.held = Held /\ tab'.page = "org"
        /\ tab'.org = read.org /\ tab'.roster = read.roster /\ tab'.mine = read.mine
    BY <2>1, <2>2, <2>3 DEF TabRecord, OrgRecord
  <2>6. Shows(tab', log, me)
    BY <1>2, <2>5 DEF Shows, Found, Console
  <2>7. TabGood(tab', log, me)
    BY <2>4, <2>5, <2>6 DEF TabGood, None
  <2>8. CallsGood(calls', me) /\ \A c \in calls' : ~c.mounted
    <3>1. CallsGood(Orphaned(calls), me) /\ \A c \in Orphaned(calls) : ~c.mounted
      BY <2>2, OrphansAreFine
    <3> QED
      BY <2>0, <3>1
  <2>9. Beside(tab', calls', me)
    BY <2>8 DEF Beside
  <2> QED
    BY <2>2, <2>7, <2>8, <2>9, Gathered
<1> QED
  BY <1>1, <1>2

LEMMA MovesAreFine ==
  ASSUME IInv, Enter \/ Leave \/ ReadFails \/ Retry
  PROVE  IInv'
<1>1. /\ tab \in TabRecord
      /\ tab.org \in 1..Len(log) /\ tab.roster \in 1..Len(log) /\ tab.mine \in 1..Len(log)
      /\ tab.dialog = "remove" <=> tab.about \in Person
      /\ tab.dialog # None => tab.page \in {"list", "org"}
  BY DEF IInv, TabGood
<1>2. CASE Enter
  BY <1>1, <1>2, MountIsFine DEF Enter, None
<1>3. CASE Leave
  BY <1>1, <1>3, UnmountIsFine DEF Leave
<1>4. CASE ReadFails
  BY <1>1, <1>4, UnmountIsFine DEF ReadFails
<1>5. CASE Retry
  <2> DEFINE read == [tab EXCEPT !.org = Len(log)]
  <2>1. Len(log) \in 1..Len(log) /\ Len(log) \in Nat
    BY NowIsOne DEF IInv, LogGood
  <2>2. /\ read \in TabRecord /\ read.dialog = tab.dialog /\ read.about = tab.about
        /\ read.org = Len(log) /\ read.roster = tab.roster /\ read.mine = tab.mine
    BY <1>1, <2>1 DEF TabRecord
  <2>3. tab.dialog = None /\ Mount(read) /\ me' = me /\ log' = log
    BY <1>1, <1>5 DEF Retry
  <2> HIDE DEF read
  <2> QED
    BY <1>1, <2>1, <2>2, <2>3, MountIsFine DEF None
<1> QED
  BY <1>2, <1>3, <1>4, <1>5

-----------------------------------------------------------------------------
(* A change of the page alone.                                               *)
LEMMA PageAlone ==
  ASSUME IInv, me' = me, log' = log, calls' = calls, TabGood(tab', log, me),
         Beside(tab', calls, me)
  PROVE  IInv'
  BY Gathered DEF IInv

LEMMA RefetchIsFine ==
  ASSUME IInv, NEW query \in {"org", "roster", "mine"}, Refetch(query)
  PROVE  IInv'
<1> DEFINE read == [tab EXCEPT ![query] = Len(log)]
           rowGone == Console /\ tab.dialog = "remove" /\ log[read.roster].holds[tab.about] = None
<1>1. tab \in TabRecord /\ TabGood(tab, log, me) /\ Beside(tab, calls, me)
  BY DEF IInv, TabGood
<1>2. Len(log) \in 1..Len(log) /\ Len(log) \in Nat
  BY NowIsOne DEF IInv, LogGood
<1>3. read \in TabRecord
  BY <1>1, <1>2 DEF TabRecord
<1>4. /\ read.page = tab.page /\ read.dialog = tab.dialog /\ read.about = tab.about
      /\ read.standing = tab.standing /\ read.held = tab.held
      /\ read.org \in {tab.org, Len(log)} /\ read.roster \in {tab.roster, Len(log)}
      /\ read.mine \in {tab.mine, Len(log)}
  BY <1>1, <1>2 DEF TabRecord
<1>5. /\ me' = me /\ log' = log /\ tab.page = "org"
      /\ Found(read) => /\ tab' = IF rowGone THEN [read EXCEPT !.dialog = None, !.about = None]
                                            ELSE read
                       /\ calls' = calls
      /\ ~Found(read) => Unmount("away", read, calls)
  BY DEF Refetch
<1> HIDE DEF read
<1>6. read.org \in 1..Len(log) /\ read.roster \in 1..Len(log) /\ read.mine \in 1..Len(log)
  BY <1>1, <1>2, <1>4 DEF TabGood
<1>7. CASE ~Found(read)
  BY <1>5, <1>6, <1>7, UnmountIsFine
<1>8. CASE Found(read)
  <2>1. Shows(read, log, me)
    BY <1>8 DEF Found, Shows, Console
  <2>2. TabGood(read, log, me) /\ Beside(read, calls, me)
    BY <1>1, <1>3, <1>4, <1>6, <2>1 DEF TabGood, Beside
  <2>3. CASE ~rowGone
    BY <1>5, <1>8, <2>2, <2>3, PageAlone
  <2>4. CASE rowGone
    <3> DEFINE bare == [read EXCEPT !.dialog = None, !.about = None]
    <3>1. /\ bare \in TabRecord /\ bare.dialog = None /\ bare.about = None
          /\ bare.page = read.page /\ bare.standing = read.standing /\ bare.held = read.held
          /\ bare.org = read.org /\ bare.roster = read.roster /\ bare.mine = read.mine
      BY <1>3 DEF TabRecord
    <3>2. tab' = bare /\ calls' = calls /\ me \in Operator /\ read.dialog = "remove"
      BY <1>4, <1>5, <1>8, <2>4 DEF Console
    <3> HIDE DEF bare
    <3>3. TabGood(bare, log, me)
      BY <1>6, <2>1, <2>2, <3>1, TenancyAssumption DEF TabGood, Shows, None
    <3>4. Beside(bare, calls, me)
      BY <2>2, <3>1, <3>2 DEF Beside, Anchored
    <3> QED
      BY <1>5, <3>2, <3>3, <3>4, PageAlone
  <2> QED
    BY <2>3, <2>4
<1> QED
  BY <1>7, <1>8

LEMMA DialogsAreFine ==
  ASSUME IInv,
         \/ Close
         \/ \E d \in {"add", "edit", "delete", "create"} : OpenDialog(d)
         \/ \E p \in Person : OpenRemoval(p)
         \/ \E s \in Standing : ChooseStanding(s)
         \/ \E f \in Field, v \in Value : TypeField(f, v)
  PROVE  IInv'
<1>1. TabGood(tab, log, me) /\ Beside(tab, calls, me) /\ tab \in TabRecord
  BY DEF IInv, TabGood
<1>2. CASE Close
  <2> DEFINE seeds == IF tab.dialog = "edit" THEN Org.field ELSE tab.field
             bare == [tab EXCEPT !.dialog = None, !.about = None, !.field = seeds]
  <2>1. seeds \in [Field -> Value \cup {None}]
    BY <1>1, NowIsOne DEF TabGood, TabRecord, OrgRecord, Org
  <2> HIDE DEF seeds
  <2>2. /\ bare \in TabRecord /\ bare.dialog = None /\ bare.about = None
        /\ bare.page = tab.page /\ bare.standing = tab.standing /\ bare.held = tab.held
        /\ bare.org = tab.org /\ bare.roster = tab.roster /\ bare.mine = tab.mine
    BY <1>1, <2>1 DEF TabRecord
  <2>3. /\ tab' = bare /\ calls' = calls /\ me' = me /\ log' = log
        /\ tab.dialog # None /\ MayClose
    BY <1>2 DEF Close, Show, seeds
  <2> HIDE DEF bare
  <2>4. TabGood(bare, log, me)
    BY <1>1, <2>2, TenancyAssumption DEF TabGood, Shows, None
  <2>5. \A c \in calls : c.mounted => ~Anchored(c, me)
    <3> SUFFICES ASSUME NEW c \in calls, c.mounted, Anchored(c, me)
                 PROVE  FALSE
      OBVIOUS
    <3>1. tab.dialog = c.kind
      BY <1>1 DEF Beside
    <3>2. InFlight({tab.dialog})
      BY <3>1 DEF InFlight
    <3> QED
      BY <2>3, <3>1, <3>2 DEF MayClose, Anchored, Console
  <2>6. Beside(bare, calls, me)
    BY <1>1, <2>2, <2>5 DEF Beside, None
  <2> QED
    BY <2>3, <2>4, <2>6, PageAlone
<1>3. ASSUME NEW d \in {"add", "edit", "delete", "create"}, OpenDialog(d)
      PROVE  IInv'
  <2> DEFINE open == [tab EXCEPT !.dialog = d]
  <2>1. /\ open \in TabRecord /\ open.dialog = d /\ open.about = tab.about
        /\ open.page = tab.page /\ open.standing = tab.standing /\ open.held = tab.held
        /\ open.org = tab.org /\ open.roster = tab.roster /\ open.mine = tab.mine
    BY <1>1 DEF TabRecord
  <2>2. tab' = open /\ calls' = calls /\ me' = me /\ log' = log /\ MayOpen(d)
    BY <1>3 DEF OpenDialog, Show
  <2> HIDE DEF open
  <2>3. /\ tab.dialog = None /\ tab.page = IF d = "create" THEN "list" ELSE "org"
        /\ d = "add" /\ me \notin Operator => ~InFlight({"standing", "remove"})
    BY <2>2 DEF MayOpen, Idle, Console, Pending
  <2>4. TabGood(open, log, me)
    BY <1>1, <2>1, <2>3 DEF TabGood, Shows, None
  <2>5. Beside(open, calls, me)
    BY <1>1, <2>1, <2>3 DEF Beside, InFlight, Anchored, None
  <2> QED
    BY <2>2, <2>4, <2>5, PageAlone
<1>4. ASSUME NEW p \in Person, OpenRemoval(p)
      PROVE  IInv'
  <2> DEFINE open == [tab EXCEPT !.dialog = "remove", !.about = p]
  <2>1. /\ open \in TabRecord /\ open.dialog = "remove" /\ open.about = p
        /\ open.page = tab.page /\ open.standing = tab.standing /\ open.held = tab.held
        /\ open.org = tab.org /\ open.roster = tab.roster /\ open.mine = tab.mine
    BY <1>1 DEF TabRecord
  <2>2. /\ tab' = open /\ calls' = calls /\ me' = me /\ log' = log
        /\ tab.dialog = None /\ tab.page = "org" /\ p \notin Above
        /\ me \notin Operator => ~InFlight({"standing", "remove"})
    BY <1>4 DEF OpenRemoval, Show, Idle, HasMenu, Pending, Console
  <2> HIDE DEF open
  <2>3. TabGood(open, log, me)
    BY <1>1, <2>1, <2>2 DEF TabGood, Shows
  <2>4. Beside(open, calls, me)
    BY <1>1, <2>1, <2>2 DEF Beside, InFlight, Anchored, None, Member
  <2> QED
    BY <2>2, <2>3, <2>4, PageAlone
<1>5. ASSUME NEW s \in Standing, ChooseStanding(s)
      PROVE  IInv'
  <2>1. /\ calls' = calls /\ me' = me /\ log' = log /\ me \notin Operator
        /\ tab' = [tab EXCEPT !.standing = s, !.held = Mine] /\ s \in Grantable(Mine)
    BY <1>5 DEF ChooseStanding, Show, Held, Console, Offered
  <2>2. Mine \in Standing \cup {None}
    BY <1>1, <2>1, NowIsOne, Somebody DEF TabGood, Mine, OrgRecord
  <2> DEFINE held == Mine
             chosen == [tab EXCEPT !.standing = s, !.held = held]
  <2> HIDE DEF held
  <2>3. /\ chosen \in TabRecord /\ chosen.dialog = tab.dialog /\ chosen.about = tab.about
        /\ chosen.page = tab.page /\ chosen.standing = s /\ chosen.held = held
        /\ chosen.org = tab.org /\ chosen.roster = tab.roster /\ chosen.mine = tab.mine
    BY <1>1, <2>2 DEF TabRecord, held
  <2>4. tab' = chosen /\ s \in Grantable(held)
    BY <2>1 DEF held
  <2> HIDE DEF chosen
  <2>5. TabGood(chosen, log, me) /\ Beside(chosen, calls, me)
    BY <1>1, <2>3, <2>4 DEF TabGood, Shows, Beside
  <2> QED
    BY <2>1, <2>4, <2>5, PageAlone
<1>6. ASSUME NEW f \in Field, NEW v \in Value, TypeField(f, v)
      PROVE  IInv'
  <2> DEFINE typed == [tab EXCEPT !.field[f] = v]
  <2>1. /\ typed \in TabRecord /\ typed.dialog = tab.dialog /\ typed.about = tab.about
        /\ typed.page = tab.page /\ typed.standing = tab.standing /\ typed.held = tab.held
        /\ typed.org = tab.org /\ typed.roster = tab.roster /\ typed.mine = tab.mine
    BY <1>1 DEF TabRecord
  <2>2. tab' = typed /\ calls' = calls /\ me' = me /\ log' = log
    BY <1>6 DEF TypeField, Show
  <2> HIDE DEF typed
  <2>3. TabGood(typed, log, me) /\ Beside(typed, calls, me)
    BY <1>1, <2>1 DEF TabGood, Shows, Beside
  <2> QED
    BY <2>2, <2>3, PageAlone
<1> QED
  BY <1>2, <1>3, <1>4, <1>5, <1>6

-----------------------------------------------------------------------------
(* A call sent.                                                              *)
LEMMA CallAdded ==
  ASSUME NEW s, NEW m, CallsGood(s, m), NEW c, CallFine(c, m),
         c.kind \in Member => \A d \in s : d.mounted => d.kind \notin Member,
         c.kind = "edit" => \A d \in s : d.mounted => d.kind # "edit"
  PROVE  CallsGood(s \cup {c}, m)
<1>1. Exclusive(Member, s \cup {c})
  BY DEF CallsGood, Exclusive
<1>2. Exclusive({"edit"}, s \cup {c})
  BY DEF CallsGood, Exclusive
<1> QED
  BY <1>1, <1>2 DEF CallsGood

LEMMA CallIsFresh ==
  /\ Call \in CallRecord /\ Call.verdict = "pending" /\ Call.mounted = TRUE
  /\ Call.kind = "add" /\ Call.who = None /\ Call.standing = None /\ Call.held = None
  BY DEF Call, CallRecord

(* Sent from the page as it is, or with its removal or deletion dialog put   *)
(* away, by a page that has nothing of the kind under way.                   *)
LEMMA SubmitIsFine ==
  ASSUME IInv, NEW page, NEW c, Submit(page, c), CallFine(c, me), TabGood(page, log, me),
         Beside(page, calls \cup {c}, me),
         c.kind \in Member => ~InFlight(Member),
         c.kind = "edit" => ~InFlight({"edit"})
  PROVE  IInv'
<1>1. tab' = page /\ calls' = calls \cup {c} /\ me' = me /\ log' = log
  BY DEF Submit
<1>2. LogGood(log) /\ CallsGood(calls, me)
  BY DEF IInv
<1>3. CallsGood(calls \cup {c}, me)
  BY <1>2, CallAdded DEF InFlight
<1> QED
  BY <1>1, <1>2, <1>3, Gathered

LEMMA AdditionIsFine ==
  ASSUME IInv, NEW p \in Person, NEW s \in Standing, SubmitAdd(p, s)
  PROVE  IInv'
<1>1. TabGood(tab, log, me) /\ Beside(tab, calls, me) /\ tab \in TabRecord
  BY DEF IInv, TabGood
<1> DEFINE h == IF s \in Offered THEN Held ELSE tab.held
           c == [Call EXCEPT !.who = p, !.standing = s, !.held = h]
<1>2. Held \in Standing \cup {None}
  BY <1>1, NowIsOne, Somebody DEF TabGood, Mine, OrgRecord, Held, Console
<1>3. h \in Standing \cup {None}
  BY <1>1, <1>2 DEF TabRecord
<1>4. me \notin Operator => s \in Grantable(h)
  <2> SUFFICES ASSUME me \notin Operator
               PROVE  s \in Grantable(h)
    OBVIOUS
  <2>1. Held = Mine /\ Offered = Grantable(Mine) /\ Offered # {} /\ s = tab.standing
    BY DEF Held, Console, Offered, SubmitAdd
  <2>2. CASE s \in Offered
    BY <2>1, <2>2
  <2>3. CASE s \notin Offered
    <3>1. "viewer" \in Offered
      BY <1>2, <2>1, ViewerIsOffered
    <3> QED
      BY <1>1, <2>1, <2>3, <3>1 DEF TabGood
  <2> QED
    BY <2>2, <2>3
<1>5. Submit(tab, c) /\ tab.dialog = "add" /\ ~InFlight(IF Console THEN Member ELSE {"add"})
  BY DEF SubmitAdd
<1> HIDE DEF h
<1>6. /\ c \in CallRecord /\ c.verdict = "pending" /\ c.mounted = TRUE /\ c.kind = "add"
      /\ c.who = p /\ c.standing = s /\ c.held = h
  BY <1>3, CallIsFresh DEF CallRecord
<1> HIDE DEF c
<1>7. CallFine(c, me)
  BY <1>4, <1>6 DEF CallFine, Member
<1>8. ~InFlight(Member)
  BY <1>1, <1>5 DEF Beside, InFlight, Member, Console
<1>9. Beside(tab, calls \cup {c}, me)
  BY <1>1, <1>5, <1>6 DEF Beside, TabGood, None
<1> QED
  BY <1>1, <1>5, <1>6, <1>7, <1>8, <1>9, SubmitIsFine

LEMMA ChangeIsFine ==
  ASSUME IInv, NEW p \in Person, NEW s \in Standing, ChangeStanding(p, s)
  PROVE  IInv'
<1>1. TabGood(tab, log, me) /\ Beside(tab, calls, me) /\ tab \in TabRecord
  BY DEF IInv, TabGood
<1> DEFINE h == Held
           c == [Call EXCEPT !.kind = "standing", !.who = p, !.standing = s, !.held = h]
<1>2. h \in Standing \cup {None}
  BY <1>1, NowIsOne, Somebody DEF TabGood, Mine, OrgRecord, Held, Console
<1>3. /\ Submit(tab, c) /\ tab.dialog = None /\ tab.page = "org" /\ p \notin Above
      /\ ~InFlight(IF Console THEN Member ELSE {"standing", "remove"})
      /\ me \notin Operator => s \in Grantable(h)
  BY DEF ChangeStanding, Idle, HasMenu, Pending, Offered, Held, Console
<1> HIDE DEF h
<1>4. /\ c \in CallRecord /\ c.verdict = "pending" /\ c.mounted = TRUE
      /\ c.kind = "standing" /\ c.who = p /\ c.standing = s /\ c.held = h
  BY <1>2, CallIsFresh DEF CallRecord
<1> HIDE DEF c
<1>5. CallFine(c, me)
  BY <1>3, <1>4 DEF CallFine, Member
<1>6. ~InFlight(Member)
  BY <1>1, <1>3 DEF Beside, InFlight, Member, Console, Anchored, None
<1>7. Beside(tab, calls \cup {c}, me)
  BY <1>1, <1>3, <1>4 DEF Beside, Anchored, None
<1> QED
  BY <1>1, <1>3, <1>4, <1>5, <1>6, <1>7, SubmitIsFine

LEMMA RemovalIsFine ==
  ASSUME IInv, ConfirmRemoval
  PROVE  IInv'
<1>1. TabGood(tab, log, me) /\ Beside(tab, calls, me) /\ tab \in TabRecord
  BY DEF IInv, TabGood
<1> DEFINE bare == [tab EXCEPT !.dialog = None, !.about = None]
           c == [Call EXCEPT !.kind = "remove", !.who = tab.about]
<1>2. /\ Submit(bare, c) /\ tab.dialog = "remove" /\ tab.about \in Person
      /\ tab.about \notin Above /\ tab.page = "org"
      /\ me \in Operator => ~InFlight(Member)
  BY <1>1 DEF ConfirmRemoval, TabGood, Console, Pending, None
<1>3. /\ bare \in TabRecord /\ bare.dialog = None /\ bare.about = None
      /\ bare.page = tab.page /\ bare.standing = tab.standing /\ bare.held = tab.held
      /\ bare.org = tab.org /\ bare.roster = tab.roster /\ bare.mine = tab.mine
  BY <1>1 DEF TabRecord
<1>4. /\ c \in CallRecord /\ c.verdict = "pending" /\ c.mounted = TRUE
      /\ c.kind = "remove" /\ c.who = tab.about
  BY <1>2, CallIsFresh DEF CallRecord
<1> HIDE DEF bare, c
<1>5. CallFine(c, me)
  BY <1>2, <1>4 DEF CallFine, Member
<1>6. ~InFlight(Member)
  BY <1>1, <1>2 DEF Beside, InFlight
<1>7. TabGood(bare, log, me)
  BY <1>1, <1>3, TenancyAssumption DEF TabGood, Shows, None
<1>8. Beside(bare, calls \cup {c}, me)
  BY <1>1, <1>2, <1>3, <1>4 DEF Beside, Anchored, Member, None
<1> QED
  BY <1>2, <1>4, <1>5, <1>6, <1>7, <1>8, SubmitIsFine

LEMMA EditIsFine ==
  ASSUME IInv, SubmitEdit
  PROVE  IInv'
<1>1. TabGood(tab, log, me) /\ Beside(tab, calls, me) /\ tab \in TabRecord
  BY DEF IInv, TabGood
<1> DEFINE sent == [f \in Field |-> IF tab.field[f] = Org.field[f] THEN None ELSE tab.field[f]]
           c == [Call EXCEPT !.kind = "edit", !.sent = sent]
<1>2. Submit(tab, c) /\ tab.dialog = "edit" /\ ~InFlight({"edit"})
  BY DEF SubmitEdit
<1>3. sent \in [Field -> Value \cup {None}]
  BY <1>1 DEF TabRecord
<1> HIDE DEF sent
<1>4. /\ c \in CallRecord /\ c.verdict = "pending" /\ c.mounted = TRUE /\ c.kind = "edit"
  BY <1>3, CallIsFresh DEF CallRecord
<1> HIDE DEF c
<1>5. CallFine(c, me)
  BY <1>4 DEF CallFine, Member
<1>6. Beside(tab, calls \cup {c}, me)
  BY <1>1, <1>2, <1>4 DEF Beside, TabGood, None
<1> QED
  BY <1>1, <1>2, <1>4, <1>5, <1>6, SubmitIsFine DEF Member

LEMMA DeletionIsFine ==
  ASSUME IInv, ConfirmDelete
  PROVE  IInv'
<1>1. TabGood(tab, log, me) /\ Beside(tab, calls, me) /\ tab \in TabRecord
  BY DEF IInv, TabGood
<1> DEFINE bare == [tab EXCEPT !.dialog = None]
           c == [Call EXCEPT !.kind = "delete"]
<1>2. Submit(bare, c) /\ tab.dialog = "delete" /\ tab.page = "org"
  BY <1>1 DEF ConfirmDelete, TabGood, None
<1>3. /\ bare \in TabRecord /\ bare.dialog = None /\ bare.about = tab.about
      /\ bare.page = tab.page /\ bare.standing = tab.standing /\ bare.held = tab.held
      /\ bare.org = tab.org /\ bare.roster = tab.roster /\ bare.mine = tab.mine
  BY <1>1 DEF TabRecord
<1>4. /\ c \in CallRecord /\ c.verdict = "pending" /\ c.mounted = TRUE /\ c.kind = "delete"
  BY CallIsFresh DEF CallRecord
<1> HIDE DEF bare, c
<1>5. CallFine(c, me)
  BY <1>4 DEF CallFine, Member
<1>6. TabGood(bare, log, me)
  BY <1>1, <1>2, <1>3 DEF TabGood, Shows, None
<1>7. Beside(bare, calls \cup {c}, me)
  BY <1>1, <1>2, <1>3, <1>4 DEF Beside, Anchored, None
<1> QED
  BY <1>2, <1>4, <1>5, <1>6, <1>7, SubmitIsFine DEF Member

LEMMA CreationIsFine ==
  ASSUME IInv, SubmitCreate
  PROVE  IInv'
<1>1. TabGood(tab, log, me) /\ Beside(tab, calls, me) /\ tab \in TabRecord
  BY DEF IInv, TabGood
<1> DEFINE c == [Call EXCEPT !.kind = "create"]
<1>2. Submit(tab, c) /\ tab.dialog = "create" /\ tab.page = "list"
  BY <1>1 DEF SubmitCreate, TabGood, None
<1>3. /\ c \in CallRecord /\ c.verdict = "pending" /\ c.mounted = TRUE /\ c.kind = "create"
  BY CallIsFresh DEF CallRecord
<1> HIDE DEF c
<1>4. CallFine(c, me)
  BY <1>3 DEF CallFine, Member
<1>5. Beside(tab, calls \cup {c}, me)
  BY <1>1, <1>2, <1>3 DEF Beside
<1> QED
  BY <1>1, <1>2, <1>3, <1>4, <1>5, SubmitIsFine DEF Member

-----------------------------------------------------------------------------
(* What platform makes of a call.                                            *)
LEMMA WritesAreOfTheKind ==
  ASSUME IInv, NEW c \in calls, c.verdict = "pending", c.kind # "create"
  PROVE  After(c) \in OrgRecord
<1>1. /\ c \in CallRecord
      /\ c.kind \in Member => c.who \in Person
      /\ c.kind \in {"add", "standing"} => c.standing \in Standing
  BY DEF IInv, CallsGood, CallFine
<1>2. Now \in OrgRecord
  BY NowIsOne
<1>3. CASE c.kind \in {"add", "standing"}
  <2>1. c.who \in Person /\ c.standing \in Standing
    BY <1>1, <1>3 DEF Member
  <2>2. After(c) = [Now EXCEPT !.holds[c.who] = c.standing]
    BY <1>3 DEF After
  <2> QED
    BY <1>2, <2>1, <2>2 DEF OrgRecord
<1>4. CASE c.kind = "remove"
  <2>1. After(c) = [Now EXCEPT !.holds[c.who] = None]
    BY <1>4 DEF After
  <2> QED
    BY <1>2, <2>1 DEF OrgRecord
<1>5. CASE c.kind = "edit"
  <2> DEFINE field == [f \in Field |-> IF c.sent[f] = None THEN Now.field[f] ELSE c.sent[f]]
  <2>1. After(c) = [Now EXCEPT !.field = field]
    BY <1>2, <1>5 DEF After, OrgRecord
  <2>2. field \in [Field -> Value]
    BY <1>1, <1>2 DEF CallRecord, OrgRecord
  <2> QED
    BY <1>2, <2>1, <2>2 DEF OrgRecord
<1>6. CASE c.kind = "delete"
  <2>1. After(c) = [Now EXCEPT !.live = FALSE]
    BY <1>6 DEF After
  <2> QED
    BY <1>2, <2>1 DEF OrgRecord
<1> QED
  BY <1>1, <1>3, <1>4, <1>5, <1>6 DEF CallRecord

(* An escalation is one by the rule the page offered the standing by, so the *)
(* standing it went by is no longer the one held.                            *)
LEMMA VerdictsAreFine ==
  ASSUME IInv, NEW c \in calls, c.verdict = "pending", NEW v \in Decisions(c)
  PROVE  LET a == AnswerTo(c, v)
         IN  /\ a \in CallRecord /\ a.kind = c.kind /\ a.mounted = c.mounted
             /\ a.mounted \/ a.verdict = "pending" \/ Navigates(a) => CallFine(a, me)
<1> DEFINE stale == me \notin Operator /\ Now.holds[me] # c.held
           a == [Call EXCEPT !.kind = c.kind, !.mounted = c.mounted, !.verdict = v,
                             !.stale = stale]
<1>7. a = AnswerTo(c, v)
  BY DEF AnswerTo, Console
<1>1. CallFine(c, me) /\ c \in CallRecord
  BY DEF IInv, CallsGood, CallFine
<1>2. v \in {"done", "refused", "inherited", "escalation"}
  BY DEF Decisions
<1>8. stale \in BOOLEAN
  OBVIOUS
<1> HIDE DEF stale
<1>3. /\ a \in CallRecord /\ a.kind = c.kind /\ a.mounted = c.mounted
      /\ a.verdict = v /\ a.stale = stale
  BY <1>1, <1>2, <1>8, CallIsFresh DEF CallRecord
<1>4. v = "escalation" => stale
  <2> SUFFICES ASSUME v = "escalation", ~stale
               PROVE  FALSE
    OBVIOUS
  <2>1. Escalates(c)
    BY DEF Decisions
  <2>2. /\ me \notin Operator /\ Now.holds[me] = c.held
        /\ ~MayGrant(GrantCeiling(Permits(c.held)), c.standing)
    BY <2>1 DEF Escalates, Console, stale
  <2>3. c.standing \in Grantable(c.held)
    BY <1>1, <2>1, <2>2 DEF CallFine, Escalates
  <2> QED
    BY <2>2, <2>3 DEF Grantable
<1>5. v = "inherited" => c.kind = "add"
  BY <1>1 DEF Decisions, CallFine, Member
<1> HIDE DEF a
<1>6. a.mounted \/ a.verdict = "pending" \/ Navigates(a) => CallFine(a, me)
  BY <1>2, <1>3, <1>4, <1>5 DEF CallFine
<1> QED
  BY <1>7, <1>3, <1>6

LEMMA ReachIsFine ==
  ASSUME IInv, NEW c \in calls, Reach(c)
  PROVE  IInv'
<1>1. c.verdict = "pending" /\ me' = me /\ tab' = tab
  BY DEF Reach
<1>2. PICK v \in Decisions(c) :
        /\ v = "done" /\ c.kind # "create" => Len(log) <= MaxWrites
        /\ log' = IF v = "done" /\ c.kind # "create" THEN Append(log, After(c)) ELSE log
        /\ calls' = Heard((calls \ {c}) \cup {AnswerTo(c, v)})
  BY DEF Reach
<1>3. LogGood(log) /\ TabGood(tab, log, me) /\ CallsGood(calls, me) /\ Beside(tab, calls, me)
  BY DEF IInv
<1>4. LogGood(log') /\ TabGood(tab, log', me)
  <2>1. CASE v = "done" /\ c.kind # "create"
    <3>1. After(c) \in OrgRecord
      BY <1>1, <2>1, WritesAreOfTheKind
    <3> QED
      BY <1>2, <1>3, <2>1, <3>1, LogGrows, TabKeeps
  <2>2. CASE ~(v = "done" /\ c.kind # "create")
    BY <1>2, <1>3, <2>2
  <2> QED
    BY <2>1, <2>2
<1> DEFINE a == AnswerTo(c, v)
<1>5. /\ a.kind = c.kind /\ a.mounted = c.mounted
      /\ a.mounted \/ a.verdict = "pending" \/ Navigates(a) => CallFine(a, me)
  BY <1>1, VerdictsAreFine
<1>6. \A d \in calls' : /\ (d \in calls /\ d # c) \/ d = a
                        /\ d.mounted \/ d.verdict = "pending" \/ Navigates(d)
  BY <1>2 DEF Heard
<1> HIDE DEF a
<1>7. CallsGood(calls', me)
  <2>1. \A d \in calls' : CallFine(d, me)
    BY <1>3, <1>5, <1>6 DEF CallsGood
  <2>2. ASSUME NEW kinds, Exclusive(kinds, calls)
        PROVE  Exclusive(kinds, calls')
    BY <1>5, <1>6, <2>2 DEF Exclusive
  <2> QED
    BY <1>3, <2>1, <2>2 DEF CallsGood
<1>8. Beside(tab, calls', me)
  BY <1>3, <1>5, <1>6 DEF Beside, Anchored
<1> QED
  BY <1>1, <1>4, <1>7, <1>8, Gathered

LEMMA ElsewhereIsFine ==
  ASSUME IInv, Elsewhere
  PROVE  IInv'
<1>1. /\ Len(log) <= MaxWrites /\ me' = me /\ tab' = tab /\ calls' = calls
      /\ LogGood(log) /\ TabGood(tab, log, me) /\ CallsGood(calls, me) /\ Beside(tab, calls, me)
  BY DEF IInv, Elsewhere
<1>2. Now \in OrgRecord
  BY NowIsOne
<1> DEFINE named == {[Now EXCEPT !.field[f] = v] : f \in IF Console THEN Field ELSE {}, v \in Value}
           given == {[Now EXCEPT !.holds[p] = s] : p \in Person \ Above, s \in Standing \cup {None}}
<1>3. PICK next \in {[Now EXCEPT !.live = FALSE]} \cup named \cup given : log' = Append(log, next)
  BY DEF Elsewhere
<1>5. next \in named => \E f \in Field, v \in Value : next = [Now EXCEPT !.field[f] = v]
  OBVIOUS
<1>6. next \in given =>
        \E p \in Person, s \in Standing \cup {None} : next = [Now EXCEPT !.holds[p] = s]
  OBVIOUS
<1> HIDE DEF named, given
<1>4. next \in OrgRecord
  <2>1. CASE next = [Now EXCEPT !.live = FALSE]
    BY <1>2, <2>1 DEF OrgRecord
  <2>2. ASSUME NEW f \in Field, NEW v \in Value, next = [Now EXCEPT !.field[f] = v]
        PROVE  next \in OrgRecord
    BY <1>2, <2>2 DEF OrgRecord
  <2>3. ASSUME NEW p \in Person, NEW s \in Standing \cup {None},
               next = [Now EXCEPT !.holds[p] = s]
        PROVE  next \in OrgRecord
    BY <1>2, <2>3 DEF OrgRecord
  <2> QED
    BY <1>3, <1>5, <1>6, <2>1, <2>2, <2>3
<1> QED
  BY <1>1, <1>3, <1>4, LogGrows, TabKeeps, Gathered

(* An addition or an edit that closes its dialog leaves no other behind that *)
(* was to be answered there.                                                 *)
LEMMA AnswerIsFine ==
  ASSUME IInv, NEW c \in calls, Answer(c)
  PROVE  IInv'
<1>1. TabGood(tab, log, me) /\ Beside(tab, calls, me) /\ tab \in TabRecord
  BY DEF IInv, TabGood
<1>2. LogGood(log) /\ CallsGood(calls, me) /\ CallFine(c, me)
  BY DEF IInv, CallsGood
<1>3. CASE Navigates(c)
  <2>1. /\ Unmount(IF c.kind = "delete" THEN "list" ELSE "away", tab, calls \ {c})
        /\ me' = me /\ log' = log
    BY <1>3 DEF Answer
  <2>2. tab.org \in 1..Len(log) /\ tab.roster \in 1..Len(log) /\ tab.mine \in 1..Len(log)
    BY <1>1 DEF TabGood
  <2> QED
    BY <2>1, <2>2, UnmountIsFine
<1>4. CASE ~Navigates(c)
  <2> DEFINE closes == c.verdict = "done" /\ c.kind \in {"add", "edit"} /\ tab.dialog = c.kind
             bare == [tab EXCEPT !.dialog = None]
  <2>1. /\ me' = me /\ log' = log /\ calls' = calls \ {c} /\ c.mounted
        /\ tab' = IF closes THEN bare ELSE tab
    BY <1>2, <1>4 DEF Answer, CallFine
  <2>2. CallsGood(calls', me) /\ Beside(tab, calls', me)
    BY <1>1, <1>2, <2>1 DEF CallsGood, Exclusive, Beside
  <2>3. CASE ~closes
    BY <1>1, <1>2, <2>1, <2>2, <2>3, Gathered
  <2>4. CASE closes
    <3>1. /\ bare \in TabRecord /\ bare.dialog = None /\ bare.about = tab.about
          /\ bare.page = tab.page /\ bare.standing = tab.standing /\ bare.held = tab.held
          /\ bare.org = tab.org /\ bare.roster = tab.roster /\ bare.mine = tab.mine
      BY <1>1 DEF TabRecord
    <3>2. tab' = bare /\ c.kind \in {"add", "edit"} /\ tab.dialog = c.kind
      BY <2>1, <2>4
    <3> HIDE DEF bare, closes
    <3>3. TabGood(bare, log, me)
      BY <1>1, <3>1, <3>2 DEF TabGood, Shows, None
    <3>4. \A d \in calls' : d.mounted => ~Anchored(d, me)
      <4> SUFFICES ASSUME NEW d \in calls, d # c, d.mounted, Anchored(d, me)
                   PROVE  FALSE
        BY <2>1
      <4>1. d.kind = c.kind
        BY <1>1, <3>2 DEF Beside
      <4> QED
        BY <1>2, <2>1, <3>2, <4>1 DEF CallsGood, Exclusive, Member
    <3>5. Beside(bare, calls', me)
      BY <2>2, <3>1, <3>4 DEF Beside, None
    <3> QED
      BY <1>2, <2>1, <2>2, <3>2, <3>3, <3>5, Gathered
  <2> QED
    BY <2>3, <2>4
<1> QED
  BY <1>3, <1>4

-----------------------------------------------------------------------------
LEMMA Initially ==
  Init => IInv
<1> SUFFICES ASSUME Init
             PROVE  IInv
  OBVIOUS
<1> DEFINE org == [field |-> [f \in Field |-> First], holds |-> Start, live |-> TRUE]
<1>1. org \in OrgRecord
  BY TenancyAssumption DEF OrgRecord
<1>2. log = <<org>> /\ tab = Home /\ calls = {} /\ me \in Visitor \cup Operator
  BY DEF Init
<1> HIDE DEF org
<1>3. LogGood(log)
  <2>1. MaxWrites \in Nat
    BY TenancyAssumption
  <2> QED
    BY <1>1, <1>2, <2>1 DEF LogGood
<1>4. /\ Home \in TabRecord /\ Home.dialog = None /\ Home.about = None /\ Home.page = "list"
      /\ Home.standing = "viewer" /\ Home.org = 1 /\ Home.roster = 1 /\ Home.mine = 1
  BY TenancyAssumption DEF Home, TabRecord
<1>5. TabGood(tab, log, me)
  BY <1>2, <1>4, TenancyAssumption DEF TabGood, None
<1> QED
  BY <1>2, <1>3, <1>5 DEF IInv, CallsGood, Exclusive, Beside

LEMMA Preserved ==
  IInv /\ [Next]_vars => IInv'
<1> SUFFICES ASSUME IInv, [Next]_vars
             PROVE  IInv'
  OBVIOUS
<1>1. CASE Page
  BY <1>1, MovesAreFine, RefetchIsFine, DialogsAreFine DEF Page
<1>2. CASE Write
  BY <1>2, RemovalIsFine, EditIsFine, DeletionIsFine, CreationIsFine, AdditionIsFine,
     ChangeIsFine DEF Write
<1>3. CASE Elsewhere
  BY <1>3, ElsewhereIsFine
<1>4. ASSUME NEW c \in calls, Reach(c) \/ Answer(c)
      PROVE  IInv'
  BY <1>4, ReachIsFine, AnswerIsFine
<1>5. CASE UNCHANGED vars
  BY <1>5, Gathered DEF vars, IInv
<1> QED
  BY <1>1, <1>2, <1>3, <1>4, <1>5 DEF Next

(* The four parts hold of every state the tab and platform can reach.        *)
THEOREM Invariant == Spec => []IInv
  BY Initially, Preserved, PTL DEF Spec

-----------------------------------------------------------------------------
(* The shape of the state.                                                   *)
THEOREM TypeCorrect == Spec => []TypeOK
<1>1. IInv => TypeOK
  <2> SUFFICES ASSUME IInv
               PROVE  TypeOK
    OBVIOUS
  <2>1. LogGood(log) /\ TabGood(tab, log, me) /\ tab \in TabRecord
    BY DEF IInv, TabGood
  <2>2. tab.page = "org" => Found(tab)
    BY <2>1 DEF TabGood, Shows, Found, Console
  <2>3. \A c \in calls :
          /\ c.held \in Standing \cup {None}
          /\ c.verdict \in {"pending", "done", "refused", "inherited", "escalation"}
          /\ c.mounted => tab.page = IF c.kind = "create" THEN "list" ELSE "org"
    BY DEF IInv, CallsGood, CallFine, CallRecord, Beside
  <2>4. log \in Seq([field : [Field -> Value], holds : [Person -> Standing \cup {None}],
                     live : BOOLEAN])
    BY <2>1 DEF LogGood, OrgRecord
  <2> QED
    BY <2>1, <2>2, <2>3, <2>4 DEF TypeOK, IInv, LogGood, TabGood, TabRecord
<1> QED
  BY <1>1, Invariant, PTL

(* While its page stands, the answer to an addition or a creation of the id  *)
(* app, and to an edit, finds the dialog it was sent from still open, however*)
(* many calls are in flight and whatever is read in between.                 *)
THEOREM AnswersFindTheirDialogs == Spec => []AnswerFindsItsDialog
<1>1. IInv => AnswerFindsItsDialog
  BY DEF IInv, Beside, Anchored, AnswerFindsItsDialog, Console
<1> QED
  BY <1>1, Invariant, PTL

(* A page has one write to the roster under way at a time, in either app.    *)
THEOREM WritesAreSingle == Spec => []OneWriteAtATime
<1>1. IInv => OneWriteAtATime
  BY DEF IInv, CallsGood, Exclusive, OneWriteAtATime
<1> QED
  BY <1>1, Invariant, PTL

(* Platform refuses a standing the id app offered as above its granter only  *)
(* if the granter's own changed since the page read it, and no row's menu    *)
(* for an inherited standing.                                                *)
THEOREM RefusalsAreStale == Spec => []RefusedOnlyWhenStale
<1>1. IInv => RefusedOnlyWhenStale
  BY DEF IInv, CallsGood, CallFine, RefusedOnlyWhenStale
<1> QED
  BY <1>1, Invariant, PTL
=============================================================================
