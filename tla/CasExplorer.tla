---------------------------- MODULE CasExplorer ----------------------------
(***************************************************************************)
(* CAS in one window: the tree of one table (src/cas/casTree.ts) over the  *)
(* adapter of the active deployment (src/cas/adapter.ts), the account each *)
(* request is sent for (src/cas/casSession.ts), and the two commands that  *)
(* put an access token where the Python program finds it                   *)
(* (src/cas/casConnectCommand.ts).  Every await of a command is a step.    *)
(***************************************************************************)
EXTENDS Naturals, FiniteSets

CONSTANTS
  Deployments, People,
  MaxRefreshes, MaxReads,     \* refreshes in all, getColumns calls at once
  MaxDeaths,                  \* sessions that die
  CaMayMeet       \* "meanwhile": a refresh comes while columns are being read

ASSUME CaAssumption ==
  /\ {MaxRefreshes, MaxReads, MaxDeaths} \subseteq Nat /\ CaMayMeet \subseteq {"meanwhile"}
  /\ "none" \notin Deployments

VARIABLES
  endpoint,       \* the active profile's deployment
  signedIn,       \* the accounts the provider has
  sessionOf, gone,            \* deployment -> its session's number, those that died
  loaded,         \* the deployments whose CAS server has the table in memory
  node,           \* the table as the tree has it
  shown,          \* the columns drawn under it
  justLoaded, loadedTables, redraw,   \* SasCasTreeProvider's, and a fired change
  reads,          \* getColumns calls that have not answered
  refreshes,
  cmd,            \* the command
  sent            \* the token the last step sent, and to which deployment
tree == <<node, shown, justLoaded, loadedTables, redraw, reads, refreshes>>
accounts == <<signedIn, sessionOf, gone>>
caVars == <<endpoint, accounts, loaded, tree, cmd, sent>>

Accounts == Deployments \X People
NoAccount == <<>>
NoColumns == [dep |-> "none", at |-> 0]
NoTable == [dep |-> "none", at |-> 0, state |-> "none", icon |-> "none"]
NoCommand == [step |-> "idle", dep |-> "none", session |-> 0,
              account |-> NoAccount, cancelled |-> FALSE, dismissed |-> FALSE, answer |-> "none"]

CaInit ==
  /\ endpoint \in Deployments /\ signedIn \in SUBSET Accounts
  /\ sessionOf = [d \in Deployments |-> 1] /\ gone = {}
  /\ loaded = {} /\ node = NoTable /\ shown = NoColumns /\ justLoaded = NoColumns
  /\ loadedTables = NoColumns /\ redraw = FALSE /\ reads = {} /\ refreshes = 0
  /\ cmd = NoCommand /\ sent = {}

-----------------------------------------------------------------------------
(* Accounts *)

\* accountForEndpoint: the hint is the one account of that deployment, if it is the only one.
AccountForEndpoint(d) ==
  LET matches == {a \in signedIn : a[1] = d}
  IN  IF Cardinality(matches) = 1 THEN CHOOSE a \in matches : TRUE ELSE NoAccount

\* What getSession offers: the account hinted at while it has one; any, without a hint.
Offered(hint) == IF hint = NoAccount THEN signedIn ELSE signedIn \cap {hint}

\* Fault: what is offered is taken.
TakesAny(d, a) == TRUE
\* accountBelongsTo
Belongs(d, a) == a[1] = d

\* tokenFor: the accounts whose token a request to the deployment may be sent with.
TokenFor(d) == {a \in Offered(AccountForEndpoint(d)) : Belongs(d, a)}
SendsNone == sent' = {}
SendsAsOwner(d) == \E a \in TokenFor(d) : sent' = {[dep |-> d, account |-> a]}

-----------------------------------------------------------------------------
(* The tree *)

\* Fault: a refresh leaves what was kept for the call that never came.
KeepsLoaded(c) == c
\* refresh drops both caches.
Dropped(c) == NoColumns

\* Refresh CAS, a switch of profile, a sign-in or a sign-out: all is read again.
Refreshes(d) ==
  /\ refreshes < MaxRefreshes /\ refreshes' = refreshes + 1
  /\ reads = {} \/ "meanwhile" \in CaMayMeet
  /\ endpoint' = d /\ justLoaded' = Dropped(justLoaded) /\ loadedTables' = Dropped(loadedTables)
  /\ node' = NoTable /\ shown' = NoColumns /\ redraw' = FALSE
  /\ UNCHANGED <<accounts, loaded, reads, cmd>>
  /\ SendsNone

\* A table of the tree: whose listing it is of, which one, and as it is drawn.
TableItems == [dep : Deployments, at : 0 .. MaxRefreshes,
               state : {"loaded", "unloaded"}, icon : {"loaded", "unloaded"}]

\* getTreeItem: the listing's state, unless the table has been seen loading.
IconOf(state) == IF loadedTables # NoColumns THEN "loaded" ELSE state

\* getChildren of the caslib; the answer to a listing of before a refresh is not drawn.
ListsTable ==
  /\ node = NoTable /\ SendsAsOwner(endpoint)
  /\ LET state == IF endpoint \in loaded THEN "loaded" ELSE "unloaded"
     IN  node' = [dep |-> endpoint, at |-> refreshes, state |-> state, icon |-> IconOf(state)]
  /\ UNCHANGED <<endpoint, accounts, loaded, shown, justLoaded, loadedTables, redraw, reads,
                 refreshes, cmd>>

\* getColumnsAndRefreshIcon: what the load has just read is drawn at the next call, once.
ExpandsTable ==
  /\ node # NoTable
  /\ IF justLoaded # NoColumns
     THEN shown' = justLoaded /\ justLoaded' = NoColumns /\ UNCHANGED reads
     ELSE /\ Cardinality(reads) < MaxReads
          /\ \E n \in 1 .. MaxReads :
               /\ \A r \in reads : r.n # n
               /\ reads' = reads \cup {[n |-> n, of |-> node.dep, at |-> node.at,
                                        state |-> node.state,
                                        step |-> IF node.state = "loaded" THEN "columns" ELSE "load"]}
          /\ UNCHANGED <<shown, justLoaded>>
  /\ UNCHANGED <<endpoint, accounts, loaded, node, loadedTables, redraw, refreshes, cmd>>
  /\ SendsNone

\* load: the PUT that brings the table into memory.
LoadsIntoMemory(r) ==
  /\ r.step = "load" /\ SendsAsOwner(r.of)
  /\ loaded' = loaded \cup {r.of}
  /\ reads' = (reads \ {r}) \cup {[r EXCEPT !.step = "columns"]}
  /\ UNCHANGED <<endpoint, accounts, node, shown, justLoaded, loadedTables, redraw, refreshes, cmd>>

\* Fault: a changed copy is fired, an element VS Code has never been handed.
FiresCopy(r) == FALSE
\* changed.fire(table), with the very object that was handed in: it is redrawn if it is there.
Fires(r) == node.dep = r.of /\ node.at = r.at

\* getColumns has answered.
ReadsColumns(r) ==
  /\ r.step = "columns" /\ r.of \in loaded /\ SendsAsOwner(r.of)
  /\ reads' = reads \ {r}
  /\ LET columns == [dep |-> r.of, at |-> r.at] IN
     /\ shown' = IF node.dep = r.of /\ node.at = r.at THEN columns ELSE shown
     /\ IF r.state # "loaded"
        THEN justLoaded' = columns /\ loadedTables' = columns /\ redraw' = (redraw \/ Fires(r))
        ELSE UNCHANGED <<justLoaded, loadedTables, redraw>>
  /\ UNCHANGED <<endpoint, accounts, loaded, node, refreshes, cmd>>

\* Either request fails: a node says so instead.
FailsRead(r) ==
  /\ reads' = reads \ {r}
  /\ UNCHANGED <<endpoint, accounts, loaded, node, shown, justLoaded, loadedTables, redraw, refreshes, cmd>>
  /\ SendsNone

Redraws ==
  /\ redraw /\ redraw' = FALSE /\ node' = [node EXCEPT !.icon = IconOf(node.state)]
  /\ UNCHANGED <<endpoint, accounts, loaded, shown, justLoaded, loadedTables, reads, refreshes, cmd>>
  /\ SendsNone

-----------------------------------------------------------------------------
(* The commands *)

\* All that is left of a command is what was said, and why it may have been nothing.
Ends(answer) == cmd' = [NoCommand EXCEPT !.step = "ended", !.answer = answer,
                          !.cancelled = (answer = "silent") /\ cmd.cancelled]

\* Fault: an answer that was not in time is told apart from nothing.
SaysNothingIfLate(late) == cmd.cancelled \/ late
\* What a failure is said with: nothing if the user cancelled, as the token says.
SaysNothing(late) == cmd.cancelled
FailsTelling == \E late \in BOOLEAN : Ends(IF SaysNothing(late) THEN "silent" ELSE "reported")

\* connectedProfile: the active profile, and the session it holds.
Connected == sessionOf[endpoint] # 0
BeginsAt(s) ==
  /\ cmd.step = "idle"
  /\ \/ /\ Connected
        /\ cmd' = [cmd EXCEPT !.step = s, !.dep = endpoint, !.session = sessionOf[endpoint]]
     \/ Ends("reported")
  /\ UNCHANGED <<endpoint, accounts, loaded, tree>>
  /\ SendsNone

\* Insert CAS Connection Snippet: no session, no Python file, or no usable fileref name is
\* said at once.
BeginsInsert == BeginsAt("servers")
\* Refresh CAS Token: no session or no usable name.
BeginsRefresh == BeginsAt("accounts")

\* getServers: none is said, one is taken, several are asked about.
GetsServers ==
  /\ cmd.step = "servers"
  /\ \/ FailsTelling /\ SendsNone
     \/ /\ SendsAsOwner(cmd.dep)
        /\ \/ Ends("reported")
           \/ \E s \in {"picking", "connection"} : cmd' = [cmd EXCEPT !.step = s]
  /\ UNCHANGED <<endpoint, accounts, loaded, tree>>

PicksServer ==
  /\ cmd.step = "picking"
  /\ \/ cmd' = [cmd EXCEPT !.step = "connection"]
     \/ cmd' = [NoCommand EXCEPT !.step = "ended", !.dismissed = TRUE, !.answer = "silent"]
  /\ UNCHANGED <<endpoint, accounts, loaded, tree>>
  /\ SendsNone

GetsConnection ==
  /\ cmd.step = "connection"
  /\ \/ FailsTelling /\ SendsNone
     \/ SendsAsOwner(cmd.dep) /\ cmd' = [cmd EXCEPT !.step = "accounts"]
  /\ UNCHANGED <<endpoint, accounts, loaded, tree>>

\* deliverToken: listAccounts ...
ListsAccounts ==
  /\ cmd.step = "accounts"
  /\ cmd' = [cmd EXCEPT !.step = "session", !.account = AccountForEndpoint(cmd.dep)]
  /\ UNCHANGED <<endpoint, accounts, loaded, tree>>
  /\ SendsNone

\* ... getSession; another deployment's counts as none ...
GetsSession ==
  /\ cmd.step = "session"
  /\ \/ Offered(cmd.account) = {} /\ Ends("reported")
     \/ \E a \in Offered(cmd.account) :
          IF Belongs(cmd.dep, a) THEN cmd' = [cmd EXCEPT !.step = "writing", !.account = a]
          ELSE Ends("reported")
  /\ UNCHANGED <<endpoint, accounts, loaded, tree>>
  /\ SendsNone

\* ... and writeCasToken into the session the command began with.
WritesToken ==
  /\ cmd.step = "writing"
  /\ \/ /\ <<cmd.dep, cmd.session>> \notin gone
        /\ sent' = {[dep |-> cmd.dep, account |-> cmd.account]}
        /\ \/ Ends("done")          \* the editor has the snippet, or a message says so
           \/ Ends("reported")      \* the name is held for a file of the user's
        /\ UNCHANGED sessionOf
     \/ FailsTelling /\ UNCHANGED sessionOf /\ SendsNone
     \/ /\ <<cmd.dep, cmd.session>> \in gone
        /\ sessionOf' = [sessionOf EXCEPT ![cmd.dep] = 0]       \* forgetProfile
        /\ FailsTelling /\ SendsNone
  /\ UNCHANGED <<endpoint, signedIn, gone, loaded, tree>>

CancelsCommand ==
  /\ cmd.step \notin {"idle", "ended"} /\ ~cmd.cancelled
  /\ cmd' = [cmd EXCEPT !.cancelled = TRUE]
  /\ UNCHANGED <<endpoint, accounts, loaded, tree>>
  /\ SendsNone

-----------------------------------------------------------------------------
(* Around them *)

\* Someone signs in or out; the tree is refreshed by the event, a step of its own.
SignsInOrOut(a) ==
  /\ signedIn' = (signedIn \ {a}) \cup ({a} \ signedIn)
  /\ UNCHANGED <<endpoint, sessionOf, gone, loaded, tree, cmd>>
  /\ SendsNone

SessionDies(d) ==
  /\ sessionOf[d] = 1 /\ Cardinality(gone) < MaxDeaths /\ gone' = gone \cup {<<d, 1>>}
  /\ UNCHANGED <<endpoint, signedIn, sessionOf, loaded, tree, cmd>>
  /\ SendsNone

\* Disconnect, or Connect to a new session.
Connects(d) ==
  /\ <<d, 1>> \in gone /\ \E n \in {0, 2} : sessionOf' = [sessionOf EXCEPT ![d] = n]
  /\ UNCHANGED <<endpoint, signedIn, gone, loaded, tree, cmd>>
  /\ SendsNone

\* Another client, or the server, drops the table.
DropsTable(d) ==
  /\ d \in loaded /\ loaded' = loaded \ {d}
  /\ UNCHANGED <<endpoint, accounts, tree, cmd>>
  /\ SendsNone

Reads(r) == LoadsIntoMemory(r) \/ ReadsColumns(r) \/ FailsRead(r)
CaNext ==
  \/ \E d \in Deployments : Refreshes(d) \/ SessionDies(d) \/ Connects(d) \/ DropsTable(d)
  \/ ListsTable \/ ExpandsTable \/ Redraws
  \/ \E r \in reads : Reads(r)
  \/ BeginsInsert \/ BeginsRefresh \/ GetsServers \/ PicksServer \/ GetsConnection \/ ListsAccounts
  \/ GetsSession \/ WritesToken \/ CancelsCommand
  \/ \E a \in Accounts : SignsInOrOut(a)
caSpec == CaInit /\ [][CaNext]_caVars

-----------------------------------------------------------------------------
(* What is being checked. *)

\* Every variable has its type.
CaTypeOK ==
  LET Columns == [dep : Deployments, at : 0 .. MaxRefreshes] \cup {NoColumns} IN
  /\ endpoint \in Deployments /\ signedIn \subseteq Accounts /\ loaded \subseteq Deployments
  /\ sessionOf \in [Deployments -> 0 .. 2] /\ gone \subseteq Deployments \X {1}
  /\ {shown, justLoaded, loadedTables} \subseteq Columns /\ redraw \in BOOLEAN
  /\ node \in TableItems \cup {NoTable}
  /\ Cardinality(reads) <= MaxReads /\ refreshes \in 0 .. MaxRefreshes
  /\ cmd.answer \in {"none", "silent", "reported", "done"}

\* A token goes only to the deployment that issued it, whoever is signed in where.
TokenFitsSession == \A s \in sent : s.account[1] = s.dep

\* A command that ends without a word was cancelled, or its picker was dismissed.
EveryCommandIsAnswered == cmd.answer = "silent" => cmd.cancelled \/ cmd.dismissed

\* What is drawn of a table was read since the tree was last refreshed, from the
\* deployment the tree is of.
ShownIsCurrent ==
  /\ shown # NoColumns => shown.dep = node.dep /\ shown.at = node.at
  /\ loadedTables # NoColumns /\ node # NoTable
     => loadedTables.dep = node.dep /\ loadedTables.at = node.at

\* A table whose columns are drawn is drawn as loaded, once the change is.
IconFits == shown # NoColumns /\ ~redraw => node.icon = "loaded"

CasIsOwn == TokenFitsSession /\ EveryCommandIsAnswered /\ ShownIsCurrent /\ IconFits
=============================================================================
