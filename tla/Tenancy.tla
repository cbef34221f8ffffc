------------------------------ MODULE Tenancy ------------------------------
(***************************************************************************)
(* An organization as the two apps manage it: the id app's tenancy pages,  *)
(* where a person acts as themselves, and the console's, where an operator *)
(* acts through platform's admin API.  A page reads platform in the        *)
(* browser, query by query, and writes in mutations of their own, so it    *)
(* shows what was so when its queries last ran.                            *)
(*                                                                         *)
(* One tab of either app is followed.  Platform is external: it keeps the  *)
(* organization, answers, and takes everybody else's writes at any time.   *)
(***************************************************************************)
EXTENDS Naturals, Sequences, FiniteSets

CONSTANTS
  Operator,   \* who has the console open, where it is that app's tab
  Visitor,    \* who has the id app open, where it is that app's
  Person,     \* everybody who may hold a standing
  Above,      \* those whose standing is inherited from a group above
  Standing,   \* the standings in play, of the five there are
  Start,      \* person -> the standing held at first
  Field,      \* what an organization's edit covers
  Value,      \* contents of a field
  First,      \* what the fields hold at first
  MaxWrites,  \* bound: writes platform accepts
  MaxCalls,   \* bound: mutations in flight at once
  Faults      \* a subset of {"read"}: may reading the organization fail?

Rank == [owner |-> 5, admin |-> 4, manager |-> 3, editor |-> 2, viewer |-> 1]
None == "none"

ASSUME TenancyAssumption ==
  /\ Visitor \cup Above \subseteq Person
  /\ Operator \cap Person = {}
  /\ "viewer" \in Standing /\ Standing \subseteq DOMAIN Rank
  /\ Start \in [Person -> Standing \cup {None}]
  /\ First \in Value /\ None \notin Person \cup Value
  /\ {MaxWrites, MaxCalls} \subseteq Nat

Member == {"add", "standing", "remove"}   \* the writes to the roster

VARIABLES
  me,     \* whose tab this is
  log,    \* what platform held: at first, and after each write it accepted
  tab,    \* the page: its reads, as moments of log, and its dialogs
  calls   \* the mutations in flight

vars == <<me, log, tab, calls>>

Console == me \in Operator
Now     == log[Len(log)]
Org     == log[tab.org]            \* the organization, as last read
Roster  == log[tab.roster].holds
Mine    == log[tab.mine].holds[me]
Held    == IF Console THEN None ELSE Mine   \* of use to the id app alone

Home == [page |-> "list", org |-> 1, roster |-> 1, mine |-> 1, dialog |-> None,
         about |-> None, standing |-> "viewer", held |-> None,
         field |-> [f \in Field |-> None]]
Call == [kind |-> "add", who |-> None, standing |-> None, held |-> None,
         sent |-> [f \in Field |-> None], verdict |-> "pending", stale |-> FALSE,
         mounted |-> TRUE]

(***************************************************************************)
(* Standings.                                                              *)
(***************************************************************************)
Permits(s) == [own    |-> s = "owner",
               admin  |-> s \in {"owner", "admin"},
               manage |-> s \in {"owner", "admin", "manager"}]

GrantCeiling(permits) ==
  CASE permits.own    -> "owner"
    [] permits.admin  -> "admin"
    [] permits.manage -> "manager"
    [] OTHER          -> None

(* Strictly below the granter's own, but that an owner makes a peer.         *)
MayGrant(ceiling, s) ==
  /\ ceiling # None
  /\ ceiling = "owner" \/ Rank[s] < Rank[ceiling]

(* Slip: everything is offered, as the console offers it.                    *)
EveryStanding(s) == IF s = None THEN {} ELSE Standing

(* grantableStandings: platform's own rule, on the standing last read.       *)
Grantable(s) ==
  LET ceiling == GrantCeiling(Permits(s))
  IN  {granted \in Standing : MayGrant(ceiling, granted)}

(* What the add dialog's select and a row's menu offer.                      *)
Offered == IF Console THEN Standing ELSE Grantable(Mine)

CanManage == ~Console => Permits(Mine).manage

(* A row has a menu where the standing is direct and may be managed.         *)
HasMenu(p) == CanManage /\ p \notin Above /\ Roster[p] # None

(***************************************************************************)
(* What is pending.  A hook knows the mutation it started while the page   *)
(* that started it is mounted.                                             *)
(***************************************************************************)
InFlight(kinds) == \E c \in calls : c.mounted /\ c.kind \in kinds

(* Slip: the console's table forgets the addition.                           *)
PendingButAddition == InFlight({"standing", "remove"})

(* isPending of the roster.  The console's covers the addition, whose dialog *)
(* may be closed over it; the id app's need not, as its dialog stays open.   *)
Pending == InFlight(IF Console THEN Member ELSE {"standing", "remove"})

(* Slip: a dialog closes whatever is under way.                              *)
ClosesAnyTime == TRUE

(* handleOpenChange: a dialog with its call under way does not close, but    *)
(* the console's additions, and its creations, whose dialog is the library's.*)
MayClose ==
  tab.dialog = "edit" \/ (~Console /\ tab.dialog \in {"add", "create"})
    => ~InFlight({tab.dialog})

(***************************************************************************)
(* Platform.                                                               *)
(***************************************************************************)
(* Is the write refused whatever else is so?                                 *)
Barred(c) ==
  \/ c.kind # "create" /\ ~Now.live
  \/ c.kind = "add" /\ Now.holds[c.who] # None
  \/ c.kind \in {"standing", "remove"} /\ Now.holds[c.who] = None
  \/ c.kind = "remove" /\ ~Console /\ ~Permits(Now.holds[me]).manage

Escalates(c) ==
  /\ c.kind \in {"add", "standing"} /\ ~Console
  /\ ~MayGrant(GrantCeiling(Permits(Now.holds[me])), c.standing)

(* It may always refuse for a reason of its own.                             *)
Decisions(c) ==
  CASE Barred(c)                           -> {"refused"}
    [] c.kind \in Member /\ c.who \in Above -> {"inherited"}
    [] Escalates(c)                        -> {"escalation"}
    [] OTHER                               -> {"done", "refused"}

After(c) ==
  CASE c.kind \in {"add", "standing"} -> [Now EXCEPT !.holds[c.who] = c.standing]
    [] c.kind = "remove" -> [Now EXCEPT !.holds[c.who] = None]
    [] c.kind = "edit"   -> [Now EXCEPT !.field =
         [f \in Field |-> IF c.sent[f] = None THEN @[f] ELSE c.sent[f]]]
    [] c.kind = "delete" -> [Now EXCEPT !.live = FALSE]

Navigates(c) == c.verdict = "done" /\ c.kind \in {"delete", "create"}

(* Of an answer a page waits for, what it says; held and stale are history:  *)
(* the caller's standing as read when the standing sent was offered, and     *)
(* whether it was another by now.                                            *)
AnswerTo(c, verdict) ==
  [Call EXCEPT !.kind = c.kind, !.mounted = c.mounted, !.verdict = verdict,
     !.stale = ~Console /\ Now.holds[me] # c.held]

(* An answer counts where its page still stands, or where it navigates.      *)
Heard(answers) == {c \in answers : c.mounted \/ c.verdict = "pending" \/ Navigates(c)}

Reach(c) ==
  /\ c.verdict = "pending"
  /\ \E v \in Decisions(c) :
       LET writes == v = "done" /\ c.kind # "create"   \* that one is another's
       IN  /\ writes => Len(log) <= MaxWrites
           /\ log' = IF writes THEN Append(log, After(c)) ELSE log
           /\ calls' = Heard((calls \ {c}) \cup {AnswerTo(c, v)})
  /\ UNCHANGED <<me, tab>>

(* A write of anybody else's, from a tab of either app.  A new name makes no *)
(* difference to the id app.                                                 *)
Elsewhere ==
  /\ Now.live /\ Len(log) <= MaxWrites
  /\ \E next \in
          {[Now EXCEPT !.live = FALSE]}
            \cup {[Now EXCEPT !.field[f] = v] : f \in IF Console THEN Field ELSE {}, v \in Value}
            \cup {[Now EXCEPT !.holds[p] = s] : p \in Person \ Above, s \in Standing \cup {None}} :
       /\ next # Now
       /\ log' = Append(log, next)
  /\ UNCHANGED <<me, tab, calls>>

(***************************************************************************)
(* A page.                                                                 *)
(***************************************************************************)
(* Slip: the hooks outlive the page.                                         *)
OrphanedNever(remaining) == Heard(remaining)

(* The calls of a page that is gone go on without it.                        *)
Orphaned(remaining) == Heard({[c EXCEPT !.mounted = FALSE] : c \in remaining})

(* The page goes, and its dialogs with it.                                   *)
Unmount(page, read, remaining) ==
  /\ tab' = [Home EXCEPT !.page = page, !.org = read.org, !.roster = read.roster,
                         !.mine = read.mine]
  /\ calls' = Orphaned(remaining)

(* notFound: no organization any more, or nothing on it to read.             *)
Found(read) ==
  /\ log[read.org].live
  /\ ~Console => log[read.mine].holds[me] # None

(* The page mounts on what its queries hold: the edit dialog's fields and    *)
(* the add dialog's standing are seeded, and follow no later read.           *)
Mount(read) ==
  IF Found(read)
  THEN /\ \E s \in IF Console \/ Offered = {} THEN {"viewer"} ELSE Offered :
            tab' = [read EXCEPT !.page = "org", !.standing = s, !.held = Held,
                                !.field = log[read.org].field]
       /\ calls' = Orphaned(calls)
  ELSE Unmount("away", read, calls)

Enter ==
  /\ tab.page = "list" /\ tab.dialog = None
  /\ Mount(tab)
  /\ UNCHANGED <<me, log>>

(* By the link, or by the browser's own button over an open dialog.          *)
Leave ==
  /\ tab.page # "list"
  /\ Unmount("list", tab, calls)
  /\ UNCHANGED <<me, log>>

(* A query runs again: on focus, on a timer, after a write.  The console's   *)
(* removal dialog is its row's, and goes with the row.                       *)
Refetch(query) ==
  LET read == [tab EXCEPT ![query] = Len(log)]
      rowGone == Console /\ tab.dialog = "remove" /\ log[read.roster].holds[tab.about] = None
  IN  /\ tab.page = "org" /\ tab[query] < Len(log)
      /\ IF Found(read)
           THEN /\ tab' = IF rowGone THEN [read EXCEPT !.dialog = None, !.about = None]
                                     ELSE read
                /\ UNCHANGED calls
           ELSE Unmount("away", read, calls)
      /\ UNCHANGED <<me, log>>

(* A read that fails, once is enough, puts the error where the page was; its *)
(* button reads again.                                                       *)
ReadFails ==
  /\ "read" \in Faults
  /\ tab.page = "org"
  /\ Unmount("failed", tab, calls)
  /\ UNCHANGED <<me, log>>

Retry ==
  /\ tab.page = "failed"
  /\ Mount([tab EXCEPT !.org = Len(log)])
  /\ UNCHANGED <<me, log>>

(***************************************************************************)
(* Dialogs.                                                                *)
(***************************************************************************)
Submit(page, call) ==
  /\ Cardinality(calls) < MaxCalls
  /\ tab' = page
  /\ calls' = calls \cup {call}
  /\ UNCHANGED <<me, log>>

(* A change of the page alone.                                               *)
Show(page) == tab' = page /\ UNCHANGED <<me, log, calls>>

Idle(page) == tab.page = page /\ tab.dialog = None

(* The id app's Add member is disabled while a write is pending, the         *)
(* console's never; its menu of the organization is while a deletion is.     *)
MayOpen(dialog) ==
  CASE dialog = "add"                -> Idle("org") /\ CanManage /\ (~Console => ~Pending)
    [] dialog \in {"edit", "delete"} -> Idle("org") /\ Console /\ ~InFlight({"delete"})
    [] dialog = "create"             -> Idle("list")

OpenDialog(dialog) ==
  /\ MayOpen(dialog)
  /\ Show([tab EXCEPT !.dialog = dialog])

OpenRemoval(p) ==
  /\ Idle("org") /\ HasMenu(p) /\ ~Pending
  /\ Show([tab EXCEPT !.dialog = "remove", !.about = p])

(* Closing an edit forgets what was typed, and seeds it anew.                *)
Close ==
  /\ tab.dialog # None /\ MayClose
  /\ Show([tab EXCEPT !.dialog = None, !.about = None,
             !.field = IF tab.dialog = "edit" THEN Org.field ELSE @])

ChooseStanding(s) ==
  /\ tab.dialog = "add" /\ ~Console /\ s \in Offered \ {tab.standing}
  /\ Show([tab EXCEPT !.standing = s, !.held = Held])

(* The address is settled when the form is sent, and so is the standing the  *)
(* console sends, all being offered.  In the id app a choice made earlier    *)
(* stays in the select, though it be offered no longer, and goes along.      *)
SubmitAdd(p, s) ==
  /\ tab.dialog = "add" /\ Offered # {}
  /\ ~InFlight(IF Console THEN Member ELSE {"add"})
  /\ Console \/ s = tab.standing
  /\ Submit(tab, [Call EXCEPT !.who = p, !.standing = s,
                    !.held = IF s \in Offered THEN Held ELSE tab.held])

ChangeStanding(p, s) ==
  /\ Idle("org") /\ HasMenu(p) /\ ~Pending
  /\ s \in Offered \ {Roster[p]}
  /\ Submit(tab, [Call EXCEPT !.kind = "standing", !.who = p, !.standing = s,
                              !.held = Held])

ConfirmRemoval ==
  /\ tab.dialog = "remove"
  /\ Console => ~Pending
  /\ Submit([tab EXCEPT !.dialog = None, !.about = None],
            [Call EXCEPT !.kind = "remove", !.who = tab.about])

TypeField(f, v) ==
  /\ tab.dialog = "edit" /\ ~InFlight({"edit"}) /\ tab.field[f] # v
  /\ Show([tab EXCEPT !.field[f] = v])

(* Only the fields that differ from what is shown now are sent.              *)
SubmitEdit ==
  /\ tab.dialog = "edit" /\ ~InFlight({"edit"})
  /\ Submit(tab, [Call EXCEPT !.kind = "edit", !.sent =
       [f \in Field |-> IF tab.field[f] = Org.field[f] THEN None ELSE tab.field[f]]])

(* Its dialog asks for the name as it is shown, which can always be typed.    *)
ConfirmDelete ==
  /\ tab.dialog = "delete"
  /\ Submit([tab EXCEPT !.dialog = None], [Call EXCEPT !.kind = "delete"])

SubmitCreate ==
  /\ tab.dialog = "create" /\ ~InFlight({"create"})
  /\ Submit(tab, [Call EXCEPT !.kind = "create"])

(* The answer comes back.  A refusal leaves the dialog as it is, or is a     *)
(* toast; a deletion or a creation navigates, wherever the tab now is; an    *)
(* addition or an edit closes its dialog, the edit's seeds as they were.     *)
Answer(c) ==
  /\ c.verdict # "pending"
  /\ IF Navigates(c)
     THEN Unmount(IF c.kind = "delete" THEN "list" ELSE "away", tab, calls \ {c})
     ELSE /\ calls' = calls \ {c}
          /\ tab' = IF c.verdict = "done" /\ c.kind \in {"add", "edit"} /\ tab.dialog = c.kind
                    THEN [tab EXCEPT !.dialog = None] ELSE tab
  /\ UNCHANGED <<me, log>>

(***************************************************************************)
(* The whole.                                                              *)
(***************************************************************************)
Init ==
  /\ me \in Visitor \cup Operator
  /\ log = <<[field |-> [f \in Field |-> First], holds |-> Start, live |-> TRUE]>>
  /\ tab = Home
  /\ calls = {}

Page ==
  \/ Enter \/ Leave \/ ReadFails \/ Retry \/ Close
  \/ Refetch("org") \/ Refetch("roster") \/ (~Console /\ Refetch("mine"))
  \/ \E d \in {"add", "edit", "delete", "create"} : OpenDialog(d)
  \/ \E p \in Person : OpenRemoval(p)
  \/ \E s \in Standing : ChooseStanding(s)
  \/ \E f \in Field, v \in Value : TypeField(f, v)

Write ==
  \/ ConfirmRemoval \/ SubmitEdit \/ ConfirmDelete \/ SubmitCreate
  \/ \E p \in Person, s \in Standing : SubmitAdd(p, s) \/ ChangeStanding(p, s)

Next ==
  \/ Page \/ Write \/ Elsewhere
  \/ \E c \in calls : Reach(c) \/ Answer(c)

Spec == Init /\ [][Next]_vars

(***************************************************************************)
(* Properties.                                                             *)
(***************************************************************************)
(* The shape of the state: a page with a dialog is mounted, and what it or a *)
(* call refers to is a moment of what platform held.                         *)
TypeOK ==
  /\ me \in Visitor \cup Operator
  /\ log \in Seq([field : [Field -> Value], holds : [Person -> Standing \cup {None}],
                   live : BOOLEAN])
  /\ Len(log) \in 1..(MaxWrites + 1)
  /\ {tab.org, tab.roster, tab.mine} \subseteq 1..Len(log)
  /\ tab.page \in {"list", "org", "failed", "away"}
  /\ tab.dialog \in {None, "add", "remove", "edit", "delete", "create"}
  /\ tab.dialog # None => tab.page = IF tab.dialog = "create" THEN "list" ELSE "org"
  /\ tab.page = "org" => Found(tab)
  /\ (tab.dialog = "remove") = (tab.about \in Person)
  /\ \A c \in calls :
       /\ c.held \in Standing \cup {None}
       /\ c.verdict \in {"pending", "done", "refused", "inherited", "escalation"}
       /\ c.mounted => tab.page = IF c.kind = "create" THEN "list" ELSE "org"

(* While its page stands, the answer to an addition or a creation of the id  *)
(* app, and to an edit, finds the dialog it was sent from still open, so a   *)
(* refusal is read where it was caused and a success closes nothing else     *)
(* (create.dialog: "A dialog closed mid-flight would leave the action        *)
(* running with nothing to report back to").                                 *)
AnswerFindsItsDialog ==
  \A c \in calls :
    /\ c.mounted
    /\ c.kind = "edit" \/ (c.kind \in {"add", "create"} /\ ~Console)
    => tab.dialog = c.kind

(* A page has one write to the roster under way at a time, in either app:    *)
(* the console's by one pending flag over three mutations, the id app's by a *)
(* flag over two and a dialog that cannot be left over the third.            *)
OneWriteAtATime ==
  \A c, d \in {e \in calls : e.mounted /\ e.kind \in Member} : c = d

(* The id app offers only what the write would accept: platform refuses a    *)
(* standing as above the granter only if the granter's own changed after the *)
(* page read it, and never refuses a row's menu for an inherited standing.   *)
RefusedOnlyWhenStale ==
  \A c \in calls :
    /\ c.verdict = "escalation" => c.stale
    /\ c.verdict = "inherited" => c.kind = "add"
=============================================================================
