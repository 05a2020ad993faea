----------------------------- MODULE DataViewer -----------------------------
(***************************************************************************)
(* A data viewer panel (src/data: dataViewerPanel.ts over                  *)
(* librarySource.ts and adapter.ts; webview/dataViewerEntry.tsx).  The     *)
(* grid asks for pages of rows, several at a time; a sort is read through  *)
(* a view the source makes in the session, keeps while sort and filter     *)
(* stay the same, and deletes.  A hidden panel loses its document.         *)
(* One panel from its opening to its end: another one, of the same table   *)
(* too, has a source of its own.  An order is a sort and a filter.  Left   *)
(* out: which rows of the order a page is, the columns, the wording.       *)
(***************************************************************************)
EXTENDS Naturals, FiniteSets, Sequences

CONSTANTS
    Requests,       \* slots for the requests of the grid
    Views,          \* the views the session may come to hold
    Sorts, Filters, \* the user's choices
    NoSort,         \* the choice of no sort
    NoFilter,       \* and of no filter
    None,           \* no view, no order
    DvMayMeet       \* what may happen besides: "failed delete"

ASSUME DataViewerAssumption ==
    /\ NoSort \in Sorts /\ NoFilter \in Filters /\ None \notin Views
    /\ DvMayMeet \subseteq {"failed delete"}

Orders == [sort : Sorts, filter : Filters]

VARIABLES
    panel,          \* "new", "loading", "open", "failed" or "closed"
    grid,           \* the order the document shows, None without a grid
    active,         \* the order of the last request of the panel
    held,           \* the source's view, and its order
    views,          \* the order of each view the session holds
    closing,        \* the view close deletes
    lost,           \* views whose delete failed
    unheard,        \* views made whose answer was lost, malformed or aborted
    queue,          \* the requests in ensureReadTargetChain
    requests,       \* the state of each request
    rows,           \* the order of the rows the grid shows, None if none
    banner          \* the order of the request whose failure it shows

dvVars == <<panel, grid, active, held, views, closing, lost, unheard, queue, requests,
          rows, banner>>
source == <<held, views, closing, lost, unheard, queue>>

NoRequest == [at |-> "none", order |-> None, known |-> FALSE, view |-> None]
Phases == {"queued", "discard", "create", "refused", "read"}

Free == {v \in Views : /\ views[v] = None /\ v \notin {held.view, closing}
                       /\ \A r \in Requests : requests[r].view # v}
Lives(v) == v # None /\ views[v] # None

-----------------------------------------------------------------------------
(* The panel and its document                                              *)
OpensPanel ==
    /\ panel = "new" /\ panel' = "loading"
    /\ UNCHANGED <<grid, active, source, requests, rows, banner>>

(* loadTable; a document that is there gets the init message.              *)
LoadsTable ==
    /\ panel = "loading"
    /\ \/ panel' = "failed" /\ UNCHANGED grid
       \/ panel' = "open" /\ grid' \in {None, active}
    /\ UNCHANGED <<active, source, requests, rows, banner>>

(* A document says it is ready, and is told the order as it is now.        *)
ShowsDocument ==
    /\ panel = "open" /\ grid = None
    /\ grid' = active
    /\ UNCHANGED <<panel, active, source, requests, rows, banner>>

ForgetsDocument ==
    /\ grid' = None /\ rows' = None /\ banner' = None
    /\ requests' = [r \in Requests |-> [requests[r] EXCEPT !.known = FALSE]]

HidesDocument ==
    /\ panel = "open" /\ grid # None
    /\ ForgetsDocument
    /\ UNCHANGED <<panel, active, source>>

(* The panel is disposed of: requests are aborted, close deletes the view. *)
ClosesPanel ==
    /\ panel \notin {"new", "closed"}
    /\ panel' = "closed"
    /\ ForgetsDocument
    /\ held' = [view |-> None, order |-> None] /\ closing' = held.view
    /\ UNCHANGED <<active, views, lost, unheard, queue>>

-----------------------------------------------------------------------------
(* A request                                                               *)

(* The grid asks for a page, of another order if the user chose one.       *)
AsksRows(r) ==
    /\ panel = "open" /\ grid # None /\ requests[r] = NoRequest
    /\ \E o \in Orders :
          /\ grid' = o /\ active' = o
          /\ rows' = IF o = grid THEN rows ELSE None
          /\ requests' = [requests EXCEPT ![r] =
                [NoRequest EXCEPT !.at = "queued", !.order = o, !.known = TRUE]]
    /\ queue' = Append(queue, r)
    /\ UNCHANGED <<panel, held, views, closing, lost, unheard, banner>>

(* The panel's signal, which every request carries.                        *)
Aborted == panel = "closed"

(* applySort's request, which is not sent any more once it is aborted.      *)
Sends == IF Aborted THEN "refused" ELSE "create"

(* Fault: the body runs at once.                                           *)
MyTurnAtOnce(r) == TRUE

(* ensureReadTarget: one body runs at a time.                              *)
MyTurn(r) == Head(queue) = r

Turn(r, at) == requests[r].at = at /\ MyTurn(r)

(* Fault: the order of the request is not compared again.                  *)
SupersededNever(o) == FALSE

(* Another order was asked for since.                                      *)
Superseded(o) == o # active

(* The answer goes to the document that asked, if it is still there.       *)
Answers(r, ok, read) ==
    LET o == requests[r].order
        good == ok /\ ~Superseded(o) IN
    /\ requests' = [requests EXCEPT ![r] = NoRequest]
    /\ IF ~requests[r].known THEN UNCHANGED <<rows, banner>>
       ELSE IF good THEN rows' = read /\ banner' = None
       ELSE banner' = o /\ UNCHANGED rows

(* The body whose turn it is ends: the next one may begin.                  *)
Leaves == queue' = Tail(queue)
Moves(r, at, v) ==
    /\ requests' = [requests EXCEPT ![r].at = at, ![r].view = v]
    /\ UNCHANGED <<rows, banner>>
DropsView == held' = [view |-> None, order |-> None]

(* Fault: only the sort is compared.                                       *)
SameOrderBySort(o) == held.order # None /\ held.order.sort = o.sort

(* The view there is is the one that is needed.                            *)
SameOrder(o) == held.order = o

(* ensureReadTargetLocked begins: what has to go first goes.               *)
StartsTarget(r) ==
    LET o == requests[r].order
        keep == o.sort # NoSort /\ SameOrder(o) IN
    /\ Turn(r, "queued")
    /\ IF held.view # None /\ ~keep
       THEN Moves(r, "discard", held.view) /\ DropsView /\ UNCHANGED queue
       ELSE /\ UNCHANGED held
            /\ IF o.sort = NoSort \/ keep
               THEN Moves(r, "read", held.view) /\ Leaves
               ELSE Moves(r, Sends, None) /\ UNCHANGED queue
    /\ UNCHANGED <<panel, grid, active, views, closing, lost, unheard>>

(* A delete: done, or failed at any point; it is sent once.                *)
Deletes(v) ==
    \/ views' = [views EXCEPT ![v] = None] /\ UNCHANGED lost
    \/ /\ "failed delete" \in DvMayMeet \/ panel = "closed"
       /\ lost' = lost \cup {v} /\ UNCHANGED views

DiscardsView(r) ==
    /\ Turn(r, "discard")
    /\ Deletes(requests[r].view)
    /\ IF requests[r].order.sort = NoSort
       THEN Moves(r, "read", None) /\ Leaves
       ELSE Moves(r, Sends, None) /\ UNCHANGED queue
    /\ UNCHANGED <<panel, grid, active, held, closing, unheard>>

(* The session makes the view; the answer is under way.                    *)
MakesView(r) ==
    /\ Turn(r, "create") /\ requests[r].view = None
    /\ \E v \in Free :
          /\ views' = [views EXCEPT ![v] = requests[r].order]
          /\ Moves(r, "create", v)
    /\ UNCHANGED <<panel, grid, active, held, closing, lost, unheard, queue>>

TakesView(r) ==
    LET q == requests[r] IN
    /\ Turn(r, "create") /\ q.view # None /\ ~Aborted
    /\ held' = [view |-> q.view, order |-> q.order]
    /\ Moves(r, "read", q.view) /\ Leaves
    /\ UNCHANGED <<panel, grid, active, views, closing, lost, unheard>>

(* Not sent, refused, or aborted; or the session has made the view, and    *)
(* its answer is lost, late, too large, or without the links it needs: the *)
(* source keeps no view then and asks for another one when it needs it.    *)
FailsView(r) ==
    LET v == requests[r].view IN
    /\ Turn(r, "create") \/ Turn(r, "refused")
    /\ Answers(r, FALSE, None)
    /\ Leaves
    /\ unheard' = unheard \cup ({v} \ {None})
    /\ UNCHANGED <<panel, grid, active, held, views, closing, lost>>

(* The read, which is outside the chain: its view may be gone by now.  A   *)
(* view has its filter inside, the table takes it with the request.        *)
ReadsRows(r) ==
    LET q == requests[r] IN
    /\ q.at = "read"
    /\ \/ /\ ~Aborted /\ (q.view = None \/ Lives(q.view))
          /\ Answers(r, TRUE, IF q.view = None THEN q.order ELSE views[q.view])
       \/ Answers(r, FALSE, None)
    /\ UNCHANGED <<panel, grid, active, source>>

(* close: its own delete carries no signal.                                *)
DeletesLast ==
    /\ closing # None
    /\ \/ views' = [views EXCEPT ![closing] = None] /\ UNCHANGED lost
       \/ "failed delete" \in DvMayMeet /\ lost' = lost \cup {closing} /\ UNCHANGED views
    /\ closing' = None
    /\ UNCHANGED <<panel, grid, active, held, unheard, queue, requests, rows, banner>>

DvInit ==
    /\ panel = "new" /\ grid = None
    /\ active = [sort |-> NoSort, filter |-> NoFilter]
    /\ held = [view |-> None, order |-> None]
    /\ views = [v \in Views |-> None]
    /\ closing = None /\ lost = {} /\ unheard = {} /\ queue = <<>>
    /\ requests = [r \in Requests |-> NoRequest]
    /\ rows = None /\ banner = None

DvNext ==
    \/ OpensPanel \/ LoadsTable \/ ShowsDocument \/ HidesDocument \/ ClosesPanel
    \/ DeletesLast
    \/ \E r \in Requests :
          \/ AsksRows(r) \/ StartsTarget(r) \/ DiscardsView(r) \/ MakesView(r)
          \/ TakesView(r) \/ FailsView(r) \/ ReadsRows(r)

DvSpec == DvInit /\ [][DvNext]_dvVars
-----------------------------------------------------------------------------
(* Properties                                                              *)

(* Every variable has its type.                                            *)
DvTypeOK ==
    /\ panel \in {"new", "loading", "open", "failed", "closed"}
    /\ {grid, active, held.order, rows, banner} \subseteq Orders \cup {None}
    /\ {held.view, closing} \subseteq Views \cup {None}
    /\ views \in [Views -> Orders \cup {None}]
    /\ lost \cup unheard \subseteq Views /\ queue \in Seq(Requests)
    /\ \A r \in Requests :
          requests[r] = NoRequest
          \/ requests[r] \in [at : Phases, order : Orders, known : BOOLEAN,
                              view : Views \cup {None}]

(* The rows the grid shows are those of the sort and the filter chosen     *)
(* last, whatever views were made and deleted while they were read.        *)
RowsFitTheChoice == rows # None => rows = grid

UnderWay == {requests[r].view : r \in {r \in Requests : requests[r].at \in {"discard", "create"}}}
InHand == IF panel = "closed" THEN {closing} ELSE {held.view}

(* The session holds no view but the one the source knows of, those being   *)
(* made or deleted, and those a failed delete or a request without a good   *)
(* answer left: no view that was answered for is forgotten, and two         *)
(* requests never make one each and keep one.                               *)
NoViewForgotten ==
    \A v \in Views : Lives(v) => v \in InHand \cup UnderWay \cup lost \cup unheard

(* docs/phases/phase-7.md: no leak survives an applySort in flight when    *)
(* the panel is disposed of.                                               *)
NoViewLeft ==
    panel = "closed" => \A v \in Views : Lives(v) => v \in {closing} \cup UnderWay \cup lost

(* docs/phases/phase-7.md: the project "must guarantee the delete fires     *)
(* whenever that state changes ... or the panel disposes - on every exit    *)
(* path": also while the panel is open the session holds no view that       *)
(* nothing will delete.                                                     *)
EveryViewIsReached ==
    panel # "closed" => \A v \in Views : Lives(v) => v \in InHand \cup UnderWay \cup lost

(* "so a stale error from an earlier failed fetch does not linger once a   *)
(* later one succeeds": with the rows of the order chosen last there is no *)
(* banner about another one.                                               *)
NoStaleBanner == rows # None /\ rows = grid => banner \in {None, grid}
=============================================================================
