------------------------------ MODULE AuditFeed ------------------------------
(***************************************************************************)
(* Reading the audit trail in the console (packages/db audit.repository,   *)
(* apps/console audit pages and audit.feed): a log that grows while one    *)
(* operator pages through it by offset, narrows it, follows the links the  *)
(* analytics view and the activity cards offer, and loads views made of    *)
(* several statements.                                                     *)
(*                                                                         *)
(* A row has one column filter (status), one actor and one subject; the    *)
(* other columns behave as one of these does.                              *)
(***************************************************************************)
EXTENDS Naturals, FiniteSets

CONSTANTS
  Party,       \* identities that act and are acted on
  None,        \* a null column: nobody signed in, nothing acted on
  Unset,       \* a filter that is not set
  RowKinds,    \* what the rows recorded say: status, actor and subject
  PageSize,    \* rows of a page of the log
  CardSize,    \* rows of an activity card
  Window,      \* how far back the range reaches, in ticks
  Followed,    \* the kinds of view whose links the operator follows
  MaxRows,     \* bound: rows recorded
  MaxTime      \* bound: ticks of the clock

ASSUME AuditFeedAssumption ==
  /\ {PageSize, CardSize, Window, MaxRows} \subseteq Nat \ {0}
  /\ MaxTime \in Nat
  /\ None \notin Party /\ Unset \notin Party \cup {None}
  /\ RowKinds \subseteq [status : {"success", "refused"}, actor : Party \cup {None},
                      subject : Party \cup {None}]
  /\ Followed \subseteq {"analytics", "identity", "subject", "event"}

Status  == {"success", "refused"}
Figures == {"status", "actor", "subject"}

Row == [id : 1..MaxRows, at : 0..MaxTime, status : Status,
        actor : Party \cup {None}, subject : Party \cup {None}]

(* The query string: one column filter, the range, and the two keys only     *)
(* links set.                                                                *)
Filters == [status : Status \cup {Unset}, range : {Unset, "recent"},
            actor : Party \cup {Unset}, subject : Party \cup {Unset}]

Unfiltered == [status |-> Unset, range |-> Unset, actor |-> Unset, subject |-> Unset]

VARIABLES
  now,     \* the database's clock
  log,     \* the rows recorded
  screen,  \* the view on screen and the query string it was rendered from
  load,    \* a view under way: the statements answered so far
  walk,    \* paging forward since page one: the rows there were, those seen
  chosen,  \* what the operator's own controls say is selected
  linked   \* the rows behind the link followed last

feedVars == <<now, log, screen, load, walk, chosen, linked>>

NoWalk  == [start |-> {}, seen |-> {}]
NoScreen == [view |-> "none", filters |-> Unfiltered, page |-> 1, after |-> 0,
             rows |-> {}, total |-> 0, pages |-> 1]
NoLoad   == [kind |-> "none", of |-> None, after |-> 0, begun |-> [p \in {} |-> {}],
             read |-> [p \in {} |-> {}]]

-----------------------------------------------------------------------------
(* The repository. *)

(* ORDER BY created_at DESC, id DESC: a row comes after those newer than it. *)
Newer(a, b) == a.at > b.at \/ (a.at = b.at /\ a.id > b.id)

Place(r, rows) == Cardinality({x \in rows : Newer(x, r)})

(* LIMIT and OFFSET.                                                         *)
Slice(rows, limit, offset) ==
  {r \in rows : Place(r, rows) >= offset /\ Place(r, rows) < offset + limit}

(* predicate: every filter that is set.                                      *)
Predicate(filters, after) ==
  {r \in log :
     /\ r.at >= after
     /\ filters.status \in {Unset, r.status}
     /\ filters.actor \in {Unset, r.actor}
     /\ filters.subject \in {Unset, r.subject}}

(* selectedAfter: from the clock, once for every request.                    *)
SelectedAfter(range) ==
  IF range = Unset \/ now < Window THEN 0 ELSE now - Window

(* recordEvent.  created_at is the clock as the statement began, so a row    *)
(* may appear behind one already read; ids are random and order nothing.  A  *)
(* row that cannot be written is given up.                                   *)
RecordEvent(row) ==
  /\ [status |-> row.status, actor |-> row.actor, subject |-> row.subject] \in RowKinds
  /\ \A r \in log : r.id # row.id
  /\ row.at \in {now} \cup {n \in {now - 1} : now > 0}
  /\ log' = log \cup {row}
  /\ UNCHANGED <<now, screen, load, walk, chosen, linked>>

Tick ==
  /\ now < MaxTime
  /\ now' = now + 1
  /\ UNCHANGED <<log, screen, load, walk, chosen, linked>>

-----------------------------------------------------------------------------
(* The log's page. *)

(* Slip: pages counted from nought.                                          *)
PageOffsetFromNought(page) == page * PageSize

PageOffset(page) == (page - 1) * PageSize

(* The pages a total fills; a slip where the pages there are is meant, since *)
(* an empty log has one.                                                     *)
PagesOfRows(total) == (total + PageSize - 1) \div PageSize

Pages(total) == IF total = 0 THEN 1 ELSE PagesOfRows(total)

(* listEvents, and the page around it: the total comes with the rows, so a   *)
(* page without rows has none.                                               *)
ListEvents(filters, page) ==
  LET after   == SelectedAfter(filters.range)
      matched == Predicate(filters, after)
      rows    == Slice(matched, PageSize, PageOffset(page))
      total   == IF rows = {} THEN 0 ELSE Cardinality(matched)
  IN [view |-> "log", filters |-> filters, page |-> page, after |-> after,
      rows |-> rows, total |-> total,
      pages |-> Pages(total)]

Show(filters) ==
  /\ screen' = ListEvents(filters, 1)
  /\ walk' = [start |-> Predicate(filters, SelectedAfter(filters.range)),
              seen |-> screen'.rows]
  /\ load' = NoLoad
  /\ UNCHANGED <<now, log>>

OnLog == screen.view = "log"

(* The sidebar's link, and "Clear all filters".                              *)
OpenLog ==
  /\ Show(Unfiltered)
  /\ chosen' = [status |-> Unset, range |-> Unset]
  /\ linked' = {}

(* A column's filter: the other keys stay, the page does not.                *)
ColumnFilter(value) ==
  /\ OnLog
  /\ Show([screen.filters EXCEPT !.status = value])
  /\ chosen' = [chosen EXCEPT !.status = value]
  /\ linked' = {}

(* Slip: the form submits its own fields alone.                              *)
ToolbarFieldsOwn(range) == [Unfiltered EXCEPT !.range = range]

(* The toolbar's form carries the columns' filters in hidden fields, and no  *)
(* key that only a link sets.                                                *)
ToolbarFields(range) ==
  [Unfiltered EXCEPT !.status = screen.filters.status, !.range = range]

ToolbarSubmit(range) ==
  /\ OnLog
  /\ Show(ToolbarFields(range))
  /\ chosen' = [chosen EXCEPT !.range = range]
  /\ linked' = {}

(* AuditPagination: previous, next, the first and the last page and the      *)
(* neighbours, as the pages were when this one was rendered.                 *)
PageLinks ==
  {IF screen.page = 1 THEN 1 ELSE screen.page - 1}
  \cup ({1, screen.pages, screen.page, screen.page + 1} \cap (1..screen.pages))

Turn(page) ==
  /\ OnLog
  /\ page \in PageLinks
  /\ screen' = ListEvents(screen.filters, page)
  /\ walk' = CASE page = 1 ->
                    [start |-> Predicate(screen.filters, screen'.after),
                     seen |-> screen'.rows]
               [] page \in 2..(screen.page + 1) ->
                    [walk EXCEPT !.seen = @ \cup screen'.rows]
               [] OTHER -> NoWalk
  /\ UNCHANGED <<now, log, load, chosen, linked>>

-----------------------------------------------------------------------------
(* The views made of several statements. *)

(* Analytics groups three ways; a person's card has two halves; the card of  *)
(* an event looks for its subject, else its actor.                           *)
Parts(kind, of) ==
  CASE kind = "analytics" -> Figures
    [] kind = "identity"  -> {"subject", "actor"}
    [] kind = "subject"   -> {"subject"}
    [] kind = "event" /\ of.subject # None -> {"subject"}
    [] kind = "event" /\ of.subject = None /\ of.actor # None -> {"actor"}
    [] OTHER -> {}

(* Slip: each figure reckons the range when its own turn comes.              *)
StatementAfresh(kind, of, after, part) ==
  {r \in Predicate(Unfiltered, SelectedAfter("recent")) : r[part] # None}

(* What one statement asks for; a group without a name is left out.          *)
Statement(kind, of, after, part) ==
  CASE kind = "analytics" ->
         {r \in Predicate(Unfiltered, after) : r[part] # None}
    [] kind = "event" -> Predicate([Unfiltered EXCEPT ![part] = of[part]], 0)
    [] OTHER -> Predicate([Unfiltered EXCEPT ![part] = of], 0)

Begin(kind, of, range) ==
  LET after == SelectedAfter(range)
  IN load' = [kind |-> kind, of |-> of, after |-> after,
              begun |-> [p \in Parts(kind, of) |-> Statement(kind, of, after, p)],
              read |-> [p \in {} |-> {}]]

Leave ==
  /\ screen' = NoScreen
  /\ walk' = NoWalk
  /\ chosen' = [status |-> Unset, range |-> Unset]
  /\ linked' = {}
  /\ UNCHANGED <<now, log>>

OpenAnalytics(range) == Leave /\ Begin("analytics", None, range)

(* The Activity card of a person's page, and that of a thing's.              *)
OpenDetail(kind, i) ==
  /\ kind \in {"identity", "subject"}
  /\ Leave
  /\ Begin(kind, i, Unset)

OpenEvent(row) ==
  /\ OnLog
  /\ row \in screen.rows
  /\ Leave
  /\ Begin("event", row, Unset)

(* One statement is answered, in whatever order.                             *)
ReadPart(part) ==
  /\ part \in Parts(load.kind, load.of) \ DOMAIN load.read
  /\ load' = [load EXCEPT
       !.read = [p \in DOMAIN @ \cup {part} |->
                   IF p = part THEN Statement(load.kind, load.of, load.after, part)
                               ELSE @[p]]]
  /\ UNCHANGED <<now, log, screen, walk, chosen, linked>>

Loaded == load.kind # "none" /\ DOMAIN load.read = Parts(load.kind, load.of)

Half(part) == Slice(load.read[part], CardSize, 0)

(* Slip: the halves one after the other.                                     *)
MergedUnsorted ==
  LET rest == Half("actor") \ Half("subject")
  IN Half("subject") \cup Slice(rest, CardSize - Cardinality(Half("subject")), 0)

(* listEventsForIdentity: the halves joined by id and sorted by time, rows   *)
(* of one instant in the order they were joined, the subject's first.        *)
Before(a, b) ==
  \/ a.at > b.at
  \/ /\ a.at = b.at
     /\ b \in Half("subject") => a \in Half("subject")
     /\ (a \in Half("subject") /\ b \notin Half("subject")) \/ a.id > b.id

Merged ==
  LET joined == Half("subject") \cup Half("actor")
  IN {r \in joined : Cardinality({x \in joined : Before(x, r)}) < CardSize}

(* loadRelatedActivity asks for one more and leaves the event itself out.    *)
Related(part) ==
  Slice(load.read[part], CardSize + 1, 0) \ {load.of}

(* Slip: a person's card links to what they did.                             *)
ViewAllOfActor(part, value) == [Unfiltered EXCEPT !.actor = value]

ViewAll(part, value) == [Unfiltered EXCEPT ![part] = value]

(* The links on screen: where each leads, and the rows it stands for.        *)
Links ==
  CASE load.kind = "analytics" ->
         {[to |-> ViewAll(p, v), rows |-> {r \in load.read[p] : r[p] = v}] :
            p \in Figures, v \in Status \cup Party}
    [] load.kind = "identity" ->
         {[to |-> ViewAll("subject", load.of), rows |-> Merged]}
    [] load.kind = "subject" ->
         {[to |-> ViewAll("subject", load.of), rows |-> Half("subject")]}
    [] load.kind = "event" ->
         {[to |-> ViewAll(p, load.of[p]), rows |-> Related(p)] :
            p \in DOMAIN load.read}
    [] OTHER -> {}

Follow(link) ==
  /\ Show(link.to)
  /\ chosen' = [status |-> link.to.status, range |-> Unset]
  /\ linked' = link.rows

FollowOne ==
  Loaded /\ load.kind \in Followed /\ \E link \in Links : link.rows # {} /\ Follow(link)

-----------------------------------------------------------------------------
FeedInit ==
  /\ now = 0
  /\ log = {}
  /\ screen = NoScreen
  /\ load = NoLoad
  /\ walk = NoWalk
  /\ chosen = [status |-> Unset, range |-> Unset]
  /\ linked = {}

OnPage ==
  \/ OpenLog
  \/ \E value \in Status \cup {Unset} : ColumnFilter(value)
  \/ \E range \in {Unset, "recent"} : ToolbarSubmit(range)
  \/ \E page \in 1..(MaxRows + 1) : Turn(page)

OnViews ==
  \/ \E range \in {Unset, "recent"} : OpenAnalytics(range)
  \/ \E kind \in {"identity", "subject"}, i \in Party : OpenDetail(kind, i)
  \/ \E row \in log : OpenEvent(row)
  \/ \E part \in Figures : ReadPart(part)
  \/ FollowOne

FeedNext == Tick \/ (\E row \in Row : RecordEvent(row)) \/ OnPage \/ OnViews

FeedSpec == FeedInit /\ [][FeedNext]_feedVars

-----------------------------------------------------------------------------
(* Properties. *)

(* Every variable holds a value of its kind. *)
FeedTypeOK ==
  /\ now \in 0..MaxTime
  /\ log \subseteq Row
  /\ screen.filters \in Filters
  /\ screen.page \in 1..(MaxRows + 1) /\ screen.pages \in 1..(MaxRows + 1)
  /\ screen.rows \subseteq log
  /\ load.after \in 0..MaxTime
  /\ \A p \in DOMAIN load.read : load.read[p] \subseteq log
  /\ walk.start \subseteq log /\ walk.seen \subseteq log

(* Paging forward misses nothing: on the last page the operator has seen     *)
(* every row there was at page one and that is still in range, though rows   *)
(* arrived in front, or behind rows already read, and others left the range  *)
(* (listEvents, AuditPagination).                                            *)
WalkMissesNothing ==
  OnLog /\ screen.page >= screen.pages =>
    \A r \in walk.start : r.at >= screen.after => r \in walk.seen

(* No control undoes what another selected: the rows answer for the column   *)
(* filter and the range last chosen (AuditTable, AuditToolbar).              *)
SelectionSurvives ==
  OnLog => /\ screen.filters.status = chosen.status
           /\ screen.filters.range = chosen.range
           /\ \A r \in screen.rows : chosen.status \in {Unset, r.status}

(* The figures of one view are of one moment but for the rows recorded while *)
(* it loads: each counts every row there was when loading began, and no row  *)
(* before the range (analytics load).                                        *)
FiguresAgree ==
  \A p \in DOMAIN load.read :
    load.begun[p] \subseteq load.read[p]
    /\ \A r \in load.read[p] : r.at >= load.after

(* A person's card shows no row without every newer one there was, though    *)
(* its two halves are cut off and read apart; and the total beside it is     *)
(* never short (listEventsForIdentity).                                      *)
CardMissesNothing ==
  Loaded /\ load.kind = "identity" =>
    LET all == load.begun["subject"] \cup load.begun["actor"]
    IN /\ \A shown \in Merged, r \in all :
            r.at > shown.at => r \in Merged
       /\ Cardinality(Merged) >= CardSize \/ Cardinality(Merged) >= Cardinality(all)
       /\ Cardinality(load.read["subject"]) + Cardinality(load.read["actor"])
            >= Cardinality(all)

(* What a view puts together from several statements is put together right.  *)
ViewsAgree == FiguresAgree /\ CardMissesNothing

(* A link leads to the rows it stands for: what a figure counted or a card   *)
(* showed is in the table its link opens (AuditBreakdown, AuditHistory).     *)
LinkDelivers == OnLog => linked \subseteq Predicate(screen.filters, 0)
=============================================================================
