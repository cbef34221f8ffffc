---------------------------- MODULE Applications ----------------------------
(***************************************************************************)
(* OAuth client registrations as the console manages them                  *)
(* (apps/console/src/app/(console)/applications): the create and the edit  *)
(* form, the rotation of a secret, the deletion, and the audit row each    *)
(* leaves.  An operator's tab reads, writes and records in calls of their  *)
(* own, so what one read another may change; an answer may be lost on its  *)
(* way back, a row's insert may fail, and a tab may be left over its call. *)
(*                                                                         *)
(* The form's fields are two: grants, which the response types follow, and *)
(* value, which stands for all the others.                                 *)
(***************************************************************************)
EXTENDS Naturals, Sequences, FiniteSets

CONSTANTS
  Tab,         \* the operators' tabs
  Client,      \* the client ids Hydra can mint
  Seeded,      \* those registered before by a seeding script
  Value,       \* contents of the form's plain fields
  Blank,       \* what there is before there is a form
  MaxChanges,  \* bound: changes Hydra makes
  MaxRows,     \* bound: rows of the audit trail
  Faults       \* a subset of {"hydra", "answer", "audit", "view"}: a call is
               \* rejected, its answer lost, an insert fails, a page is left

ASSUME ApplicationsAssumption ==
  /\ {MaxChanges, MaxRows} \subseteq Nat
  /\ IsFiniteSet(Tab)
  /\ Seeded \subseteq Client
  /\ Blank \notin Value

Grant == {"authorization_code", "client_credentials"}
Form  == [value : Value \cup {Blank}, grants : SUBSET Grant]
Field == {"value", "grants"}
Kind  == {"create", "update", "rotate", "delete"}

VARIABLES
  client,   \* client id -> its registration at Hydra
  tab,      \* tab -> what it shows or has under way
  trail,    \* the audit rows about applications, in the order recorded
  made,     \* history: the changes Hydra made, and what of each was lost
  secrets,  \* secrets 1..secrets were generated
  known     \* the secrets some operator was shown

vars == <<client, tab, trail, made, secrets, known>>

NoForm == [value |-> Blank, grants |-> {}]
Unborn == [status |-> "unborn", value |-> Blank, grants |-> {}, types |-> {},
           public |-> FALSE, secret |-> 0]

(* since and nth are history: the changes made before what was read, and the *)
(* change that was made.                                                     *)
Quiet  == [step |-> "idle", kind |-> "update", on |-> {}, form |-> NoForm,
           public |-> FALSE, read |-> Unborn, secret |-> 0,
           left |-> FALSE, since |-> 0, nth |-> 0]

Live(c)   == client[c].status = "live"
InCall(o) == tab[o].step \in {"reading", "writing", "recording", "failing"}

(* What the edit form shows of a client.                                     *)
Shows(c) == [value |-> client[c].value, grants |-> client[c].grants]

(* refuse: a name and well-formed URIs, and at least one grant.              *)
Acceptable(form) == form.value # Blank /\ form.grants # {}

(* Slip: the response types follow the grants the client had.                *)
ResponseTypesOfRead(c, grants) ==
  IF "authorization_code" \in c.grants THEN c.types \cup {"code"}
                                       ELSE c.types \ {"code"}

(* Slip: the response types are the grants.                                  *)
ResponseTypesAsGrants(c, grants) == c.types \cup grants

(* responseTypesFor: only "code" follows the grants.                         *)
ResponseTypesFor(c, grants) ==
  IF "authorization_code" \in grants THEN c.types \cup {"code"}
                                     ELSE c.types \ {"code"}

(* Slip: before and after changed places.                                    *)
ChangedFieldsSwapped(c, form) ==
  {[field |-> f, from |-> form[f], to |-> c[f]] : f \in {g \in Field : c[g] # form[g]}}

(* changedFieldsOf: before and after of every field that differs.            *)
ChangedFieldsOf(c, form) ==
  {[field |-> f, from |-> c[f], to |-> form[f]] : f \in {g \in Field : c[g] # form[g]}}

-----------------------------------------------------------------------------
(* What an operator starts. *)

(* Whatever is started may end in a change and in a row.                     *)
Start(o) ==
  LET calls == Cardinality({p \in Tab : InCall(p)})
  IN  /\ tab[o].step \in {"idle", "editing"}
      /\ Len(made) + calls < MaxChanges
      /\ Len(trail) + calls < MaxRows

(* The edit page, of the client as Hydra has it now.                         *)
OpenForm(o, c) ==
  /\ tab[o].step = "idle"
  /\ Live(c)
  /\ tab' = [tab EXCEPT ![o] = [Quiet EXCEPT !.step = "editing", !.on = {c}]]
  /\ UNCHANGED <<client, trail, made, secrets, known>>

(* The form is submitted with whatever the operator made of it; one that the *)
(* check or getActor refuses stays on screen as it is.                       *)
UpdateApplication(o, c, form) ==
  /\ tab[o].step = "editing"
  /\ tab[o].on = {c}
  /\ Acceptable(form)
  /\ Start(o)
  /\ tab' = [tab EXCEPT ![o] = [@ EXCEPT !.form = form, !.step = "reading"]]
  /\ UNCHANGED <<client, trail, made, secrets, known>>

(* A public client authenticates by PKCE and has no secret.                  *)
CreateApplication(o, c, form, public) ==
  /\ tab[o].step = "idle"
  /\ client[c].status = "unborn"
  /\ \A p \in Tab : tab[p].on # {c}
  /\ Acceptable(form)
  /\ Start(o)
  /\ tab' = [tab EXCEPT ![o] = [Quiet EXCEPT
               !.step = "writing", !.kind = "create", !.on = {c}, !.form = form,
               !.public = public]]
  /\ UNCHANGED <<client, trail, made, secrets, known>>

(* Both confirmed in a dialog, of a page that may be older than the client   *)
(* is; a public client's offers no rotation.                                 *)
RotateOrDelete(o, c, kind) ==
  /\ tab[o].step = "idle"
  /\ client[c].status # "unborn"
  /\ kind = "rotate" => ~client[c].public
  /\ Start(o)
  /\ tab' = [tab EXCEPT ![o] = [Quiet EXCEPT
               !.step = "reading", !.kind = kind, !.on = {c}]]
  /\ UNCHANGED <<client, trail, made, secrets, known>>

-----------------------------------------------------------------------------
(* The calls of a server action. *)

(* A refused edit is back in its form, if anybody stayed.                    *)
Edited(o, c) ==
  IF tab[o].left THEN Quiet ELSE [Quiet EXCEPT !.step = "editing", !.on = {c}]

(* getOAuth2Client.  An update needs the client; the others read its name    *)
(* alone, for the row, and go on without it.                                 *)
ReadClient(o, c) ==
  /\ tab[o].step = "reading"
  /\ tab[o].on = {c}
  /\ \/ /\ tab[o].kind = "update" => Live(c)
        /\ tab' = [tab EXCEPT ![o] =
             IF tab[o].kind = "update"
             THEN [@ EXCEPT !.step = "writing", !.read = client[c], !.since = Len(made)]
             ELSE [@ EXCEPT !.step = "writing"]]
     \/ /\ tab[o].kind = "update"
        /\ "answer" \in Faults \/ ~Live(c)
        /\ tab' = [tab EXCEPT ![o] = Edited(o, c)]
  /\ UNCHANGED <<client, trail, made, secrets, known>>

Mints(o) == tab[o].kind = "rotate" \/ (tab[o].kind = "create" /\ ~tab[o].public)

(* Slip: PUT in place of PATCH, which clears what the form does not carry.   *)
RegistrationPut(o, c) ==
  [status |-> "live", value |-> tab[o].form.value, grants |-> tab[o].form.grants,
   types |-> IF "authorization_code" \in tab[o].form.grants THEN {"code"} ELSE {},
   public |-> client[c].public, secret |-> client[c].secret]

(* What the call makes of the registration; an edit patches the fields it    *)
(* names.                                                                    *)
Registration(o, c) ==
  CASE tab[o].kind = "create" ->
         [status |-> "live", value |-> tab[o].form.value,
          grants |-> tab[o].form.grants,
          types |-> ResponseTypesFor(Unborn, tab[o].form.grants),
          public |-> tab[o].public,
          secret |-> IF Mints(o) THEN secrets + 1 ELSE 0]
    [] tab[o].kind = "update" ->
         [client[c] EXCEPT
            !.value = tab[o].form.value, !.grants = tab[o].form.grants,
            !.types = ResponseTypesFor(tab[o].read, tab[o].form.grants)]
    [] tab[o].kind = "rotate" -> [client[c] EXCEPT !.secret = secrets + 1]
    [] tab[o].kind = "delete" ->
         [Unborn EXCEPT !.status = "deleted", !.public = client[c].public]

(* Hydra makes the change.                                                   *)
Apply(o, c, lost) ==
  /\ tab[o].step = "writing"
  /\ tab[o].on = {c}
  /\ tab[o].kind = "create" \/ Live(c)
  /\ client' = [client EXCEPT ![c] = Registration(o, c)]
  /\ secrets' = IF Mints(o) THEN secrets + 1 ELSE secrets
  /\ made' = Append(made, [verb |-> tab[o].kind, on |-> c, before |-> Shows(c),
                           after |-> Shows(c)',
                           secret |-> IF Mints(o) THEN secrets + 1 ELSE 0,
                           lost |-> lost])
  /\ UNCHANGED <<trail, known>>

Write(o, c) ==
  /\ Apply(o, c, {})
  /\ tab' = [tab EXCEPT ![o] = [@ EXCEPT
               !.step = "recording", !.nth = Len(made) + 1,
               !.secret = IF Mints(o) THEN secrets + 1 ELSE 0]]

(* The catch: an update and a rotation are recorded as failures; a creation  *)
(* says so in the form and a deletion in a toast, and neither leaves a row.  *)
Caught(o, nth) ==
  tab' = [tab EXCEPT ![o] =
    IF tab[o].kind \in {"update", "rotate"}
    THEN [Quiet EXCEPT !.step = "failing", !.kind = tab[o].kind, !.on = tab[o].on,
                       !.left = tab[o].left, !.nth = nth]
    ELSE Quiet]

(* Slip: a change that was refused is recorded like one that was made.       *)
WriteRefusedRecorded(o, c) ==
  /\ tab[o].step = "writing"
  /\ tab[o].on = {c}
  /\ ~Live(c) /\ tab[o].kind # "create"
  /\ tab' = [tab EXCEPT ![o].step = "recording"]
  /\ UNCHANGED <<client, trail, made, secrets, known>>

(* Hydra rejects the call, or has no such client any more.                   *)
WriteRefused(o, c) ==
  /\ tab[o].step = "writing"
  /\ tab[o].on = {c}
  /\ "hydra" \in Faults \/ (~Live(c) /\ tab[o].kind # "create")
  /\ Caught(o, 0)
  /\ UNCHANGED <<client, trail, made, secrets, known>>

(* The catch also takes an answer that is lost: the change is made, and a    *)
(* secret with it that nobody will see.                                      *)
WriteUnanswered(o, c) ==
  /\ "answer" \in Faults
  /\ Apply(o, c, {"answer"})
  /\ Caught(o, Len(made) + 1)

(* Slip: only a creation's answer carries the secret.                        *)
ShownAtCreation(o) == IF tab[o].kind = "create" THEN {tab[o].secret} ELSE {}

(* The answer carries the secret that was minted.                            *)
Shown(o) == {tab[o].secret} \ {0}

(* What becomes of the change under way is lost.                             *)
Lose(o, lost) ==
  made' = IF tab[o].nth = 0 THEN made
          ELSE [made EXCEPT ![tab[o].nth].lost = @ \cup lost]

(* The action's answer, if anybody is left to see it: a secret is shown this *)
(* once, and a failed update is back in its form.                            *)
Reply(o, c) ==
  /\ known' = IF tab[o].left THEN known ELSE known \cup Shown(o)
  /\ tab' = [tab EXCEPT ![o] =
       IF tab[o].step = "failing" /\ tab[o].kind = "update" THEN Edited(o, c) ELSE Quiet]
  /\ UNCHANGED <<client, secrets>>

Unseen(o) == IF tab[o].left THEN {"view"} ELSE {}

(* recordConsoleEvent, and the answer.                                       *)
Record(o, c) ==
  /\ tab[o].step \in {"recording", "failing"}
  /\ tab[o].on = {c}
  /\ trail' = Append(trail,
       [verb |-> tab[o].kind, on |-> c,
        status |-> IF tab[o].step = "recording" THEN "success" ELSE "failure",
        changes |-> IF tab[o].step = "recording" /\ tab[o].kind = "update"
                    THEN ChangedFieldsOf(tab[o].read, tab[o].form) ELSE {},
        since |-> tab[o].since, nth |-> tab[o].nth])
  /\ Lose(o, Unseen(o))
  /\ Reply(o, c)

(* recordEvent never throws: the insert fails, and the answer is the same.   *)
RecordDropped(o, c) ==
  /\ "audit" \in Faults
  /\ tab[o].step \in {"recording", "failing"}
  /\ tab[o].on = {c}
  /\ Lose(o, Unseen(o) \cup {"row"})
  /\ Reply(o, c)
  /\ UNCHANGED trail

(* An open form is left.                                                     *)
Cancel(o) ==
  /\ tab[o].step = "editing"
  /\ tab' = [tab EXCEPT ![o] = Quiet]
  /\ UNCHANGED <<client, trail, made, secrets, known>>

(* A page is left over its call, which the server runs to its end, or the    *)
(* action's own answer is lost: there is nobody to show it to.               *)
Leave(o) ==
  /\ "view" \in Faults
  /\ InCall(o) /\ ~tab[o].left
  /\ tab' = [tab EXCEPT ![o] = [@ EXCEPT !.left = TRUE]]
  /\ UNCHANGED <<client, trail, made, secrets, known>>

-----------------------------------------------------------------------------
(* What seed-platform-client.ts and seed-oauth-client.ts register, and a     *)
(* hybrid client registered by hand: their secrets were shown elsewhere.     *)
Registered ==
  {[status |-> "live", value |-> v, grants |-> {"authorization_code"} \cup more,
    types |-> {"code", "id_token"}, public |-> FALSE, secret |-> 0] :
     v \in Value, more \in SUBSET {"client_credentials"}}

Init ==
  /\ client \in [Client -> {Unborn} \cup Registered]
  /\ \A c \in Client : Live(c) <=> c \in Seeded
  /\ tab = [o \in Tab |-> Quiet]
  /\ trail = <<>>
  /\ made = <<>>
  /\ secrets = 0
  /\ known = {}

Operate(o, c) ==
  \/ OpenForm(o, c)
  \/ \E form \in Form : UpdateApplication(o, c, form)
  \/ \E form \in Form, public \in BOOLEAN : CreateApplication(o, c, form, public)
  \/ \E kind \in {"rotate", "delete"} : RotateOrDelete(o, c, kind)

Call(o, c) ==
  \/ ReadClient(o, c)
  \/ Write(o, c) \/ WriteRefused(o, c) \/ WriteUnanswered(o, c)
  \/ Record(o, c) \/ RecordDropped(o, c)

Next ==
  \/ \E o \in Tab, c \in Client : Operate(o, c) \/ Call(o, c)
  \/ \E o \in Tab : Cancel(o) \/ Leave(o)

Spec == Init /\ [][Next]_vars

-----------------------------------------------------------------------------
(* Properties. *)

ClientRecord ==
  [status : {"unborn", "live", "deleted"}, value : Value \cup {Blank},
   grants : SUBSET Grant, types : SUBSET {"code", "id_token"}, public : BOOLEAN,
   secret : Nat]

TabRecord ==
  [step : {"idle", "editing", "reading", "writing", "recording", "failing"},
   kind : Kind, on : SUBSET Client, form : Form, public : BOOLEAN, read : ClientRecord,
   secret : Nat, left : BOOLEAN, since : Nat, nth : Nat]

ChangeRecord ==
  [verb : Kind, on : Client, before : Form, after : Form, secret : Nat,
   lost : SUBSET {"answer", "row", "view"}]

(* Every variable holds a value of its kind. *)
TypeOK ==
  /\ client \in [Client -> ClientRecord]
  /\ tab \in [Tab -> TabRecord]
  /\ \A i \in DOMAIN trail :
       /\ trail[i].on \in Client /\ trail[i].status \in {"success", "failure"}
       /\ trail[i].nth \in 0..Len(made)
  /\ made \in Seq(ChangeRecord)
  /\ secrets \in Nat
  /\ known \subseteq Nat

(* A registration offers the code response exactly when it has the grant it  *)
(* belongs to, though an update computes the one from a client read before   *)
(* and writes the other from the form (responseTypesFor, updateApplication). *)
CodeFollowsGrants ==
  \A c \in Client :
    Live(c) => ("code" \in client[c].types <=>
                  "authorization_code" \in client[c].grants)

(* An edit leaves alone what its form does not carry: a hybrid client stays  *)
(* hybrid, and only a rotation changes the secret.                           *)
NothingElseChanges ==
  [][\A c \in Client : Live(c) /\ Live(c)' =>
       /\ "id_token" \in client[c].types <=> "id_token" \in client[c].types'
       /\ client[c].secret' # client[c].secret =>
            \A f \in Field : client[c][f]' = client[c][f]]_vars

UnderWay(n) == \E o \in Tab : InCall(o) /\ tab[o].nth = n

(* A secret in force that no operator has seen, and none is about to, is one *)
(* whose page was left, or whose answer was lost on its way from Hydra, and  *)
(* then no row calls that creation or rotation a success: whoever stays on   *)
(* the page is either shown the secret or told that something failed         *)
(* (createApplication, rotateApplicationSecret).                             *)
SecretIsHeld ==
  \A n \in DOMAIN made :
    made[n].secret # 0 /\ client[made[n].on].secret = made[n].secret =>
      \/ made[n].secret \in known
      \/ UnderWay(n)
      \/ "view" \in made[n].lost
      \/ /\ "answer" \in made[n].lost
         /\ \A i \in DOMAIN trail : trail[i].nth = n => trail[i].status = "failure"

(* The row names every field that went from one to the other, and no more.   *)
Says(row, from, to) ==
  /\ \A x \in row.changes :
       x.from = from[x.field] /\ x.to = to[x.field] /\ x.from # x.to
  /\ \A f \in Field : from[f] # to[f] => \E x \in row.changes : x.field = f

(* A row that says success is about a change Hydra made: what it says a      *)
(* field was, the client had at a moment after the action began and before   *)
(* its write, and what it says it became is what that write left, however    *)
(* the actions of several operators overlap (changedFieldsOf).               *)
Truthful(row) ==
  row.status = "success" =>
    /\ row.nth \in DOMAIN made
    /\ made[row.nth].verb = row.verb /\ made[row.nth].on = row.on
    /\ row.verb = "update" =>
         \E k \in (row.since + 1)..row.nth :
           made[k].on = row.on /\ Says(row, made[k].before, made[row.nth].after)

(* A row that says failure: Hydra made no change, or was not heard.          *)
Excusable(row) ==
  row.status = "failure" /\ row.nth # 0 => "answer" \in made[row.nth].lost

(* What the trail says of a change took place, it says it once, and what     *)
(* took place it says, unless the insert of the row failed or an answer was  *)
(* lost, of a creation or a deletion, for which nothing is recorded then.    *)
TrailIsTrue ==
  /\ \A i \in DOMAIN trail : Truthful(trail[i]) /\ Excusable(trail[i])
  /\ \A i, j \in DOMAIN trail : trail[i].nth = trail[j].nth /\ trail[i].nth # 0 => i = j
  /\ \A n \in DOMAIN made :
       \/ \E i \in DOMAIN trail : trail[i].nth = n
       \/ UnderWay(n)
       \/ "row" \in made[n].lost
       \/ "answer" \in made[n].lost /\ made[n].verb \in {"create", "delete"}
=============================================================================
