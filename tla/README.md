# Formal models of Python on Viya

This directory holds TLA+ models of the parts of the extension in which order
matters: what is held, claimed, remembered, buffered, written and cancelled
while requests are out. TLC checks the models on small instances, and TLAPS
proves some of their properties for every value of the constants.
`PROJECT.json` lists the runs, the faults each property catches, the source
lines each definition stands for, the hazards and the findings. Paths below
are relative to `src/src/`.

## Inventory

The extension runs in VS Code's extension host: one thread, in which code
between two awaits is not interrupted, and every request, prompt, timer and
command is a point at which others run. Other windows share the secret
storage, the user's settings, and the SAS session of the workspace.

| Part | State | Operations | What is hard | Model |
|---|---|---|---|---|
| `ComputeSessionManager` (`compute/sessionManager.ts`, `bindingStore.ts`) | `live`, `connecting`, `generations`, `busySubmissions` per profile; the binding in `workspaceState` | connect, disconnect, forget, startSubmission, endSubmission, dispose | concurrent connects and disconnects, a profile switched or edited during a request, a session created but not yet remembered, reloads | `SessionManager` |
| Profile store (`profile/`) | the setting, the secrets, each window's pointer | add, edit, rename, remove, switch, import | every write writes all profiles as they were read; a profile and its secret are kept apart | `ProfileStore` |
| Log stream (`compute/logStream.ts`, `job.ts`) | cursor, buffer, drop counters, cancellation | pump, drain, cancel, the consumer's iterator | a consumer slower than the log, a job ending between two requests, a cancel racing the end, paging that never ends | `LogStream` |
| Backend cache (`run/backendCache.ts`) | one backend per profile | backendFor, dispose | a connect shared by two commands, a reconnect over a backend at work | `RunWindow` |
| `ProcPythonBackend` (`backend/`) | connected, active run, controllers, what has been uploaded and seeded | execute, cancel, reset, probeRuntime, close | cancellation between any two of a dozen requests, one claim per profile | `RunWindow` |
| Filerefs (`compute/fileref.ts`, `casToken.ts`) | names assigned in a session, a counter per connection | claim, seed, write | two windows on one session, names that run out, a token in a file of the user's | `Filerefs` |
| Rich output (`backend/richOutput.ts`, `compute/files.ts`) | the session's working directory | list, fetch, delete | what is new is told from two listings, either of which may fail | `RichCapture` |
| Run commands (`run/commands.ts`) | `currentRun`, `currentReset`, the `running` context key | run, reset, show environment, cancel | one set of variables, several profiles | `RunWindow` |
| Results panel (`run/resultPanel.ts`, `webview/entry.ts`) | the run's items, a document that comes and goes | emit, reveal, replay | messages in flight both ways while the document is thrown away | `ResultPanel` |
| Stubs for Pylance (`run/pylanceStubSync.ts`) | a tree of files, one setting | probe, synchronise | several writes, the user's own setting, a notice that is owed | `EnvironmentStubs` |
| Notebook, interactive window (`notebook/`) | one slot for the current run; the tracked notebook | execute cells, interrupt, close, run a selection | cells of several notebooks on one backend, indices that move | `NotebookRun`, `InteractiveWindow` |
| Authentication (`auth/`) | sessions in memory, renewals, stored sign-ins | getSessions, createSession, removeSession | renewals shared by callers, refresh tokens that are used once, other windows | `AuthProvider` |
| Browser sign-in (`auth/browserFlow.ts`) | attempts that listen | callback, paste box, exchange | stale, doubled and early callbacks | `SignInFlow` |
| Requests (`auth/transport.ts`, the clients) | one exchange | send, abort, time out | bodies that break off, redirects, late events | `HttpExchange` |
| SAS Content (`content/`) | members of folders, the clipboard, tags of open files | new, rename, move, copy, recycle, delete, save, download | several requests, one of which fails; answers lost | `ContentCommands`, `EditorFiles`, `Transfers` |
| SAS server files (`server/`) | versions of files | new, upload, rename, move, delete, save | guards that go stale, a session replaced under a command | `ServerFiles`, `EditorFiles` |
| Data viewer (`data/`) | a view in the session, requests of the grid | open, sort, filter, scroll, close | answers out of order, views to delete | `DataViewer` |
| CSV export (`data/csvExport*.ts`) | a temporary file | page, write, rename | a cancel or a failing disk at each step | `CsvExport` |
| CAS (`cas/`) | one tree, the account of a deployment | expand, refresh, insert a snippet, refresh a token | accounts that change under a command | `CasExplorer` |
| Dialects, wire, views, snippets | none of consequence | pure functions, rendering | - | - |

`extension.ts` builds two session managers, one for Run File and one for
notebooks with a binding of its own, each with a backend cache. A removed auth
session makes it forget the profile's connection. The Disconnect command
disconnects both managers, one after the other; they share nothing else, so one
manager is modelled.

## Modules

| Module | Models | State and actions |
|---|---|---|
| `ConnectionService` | what the session manager promises | per profile the session in use and the one remembered; Remember, Use, LetGo, End, Reload |
| `SessionManager` | `sessionManager.ts` with the binding | the maps under their own names; each connect() and disconnect() invocation is a record with its place in the code (`pc`) and its captured values; one action from one await to the next |
| `SessionManagerProofs` | - | theorems about `SessionManager`: types, single flight and the binding; then what rests on them, with the refinement |
| `LogWindow` | what the log stream promises, without pages, requests or cancellation | lines read, lines no longer waiting, shown, told lost, not yet told lost |
| `LogStream` | `streamJobLog` and `EventBuffer` | the pump's place, cursor and counters, the queue of events and its tallies, the job and its log |
| `LogWindowProofs`, `LogStreamProofs` | - | theorems about `LogWindow`; about how a stream ends and what it loses, and that `LogStream` implements `LogWindow` |
| `RunWindow` | `run/commands.ts`, `run/backendCache.ts` and the submissions of `backend/procPython.ts` | command invocations by place in the code, connection and backend objects, sessions, the cache and the handlers' shared variables |
| `RunWindowProofs` | - | theorems about `RunWindow` |
| `AuthProvider` | `authProvider.ts`, `sessionStore.ts` | `live`, `resolving`, `published`, the stored entries; invocations of the three calls; tokens that know whose they are, which only deployments read |
| `SignInFlow` | `browserFlow.ts`, `signIn.ts`, `uriHandler.ts` | an attempt's place in the race, its box and what it captured |
| `HttpExchange` | `transport.ts` and the verdicts of the clients | one exchange: head, chunks, timer, listener, verdict |
| `AccountsProofs` | - | theorems about the three modules above |
| `ProfileStore` | `profile/store.ts`, `profile/commands.ts` | the setting, secrets, pointers; a write is two steps, since it lands later than it read |
| `NotebookRun` | `notebookController.ts` | calls of the execute handler by place, the slot, the run of each backend, open notebooks |
| `InteractiveWindow` | `interactiveWindow.ts` | `tracked`, `creatingTracked`, `pendingRun`, `selectedNotebooks` |
| `ResultPanel` | `resultPanel.ts` and its document | the items kept, two queues of messages, the document |
| `EnvironmentStubs` | the environment commands, `pylanceStubSync.ts` | cache, tree, setting, the notice owed |
| `ContentCommands` | `contentCommands.ts`, `copy.ts`, `contentMove.ts`, drag and drop, over `adapter.ts` | the service's folders, each command as the list of requests it still has to send, the clipboard |
| `EditorFiles` | `contentFileSystem.ts`, `server/editorFiles.ts` | a file's version, each window's buffer and tag |
| `ServerFiles` | `serverCommands.ts`, drag and drop, over `server/adapter.ts` | paths with tags, the session, commands by place |
| `Transfers` | `content/transfer.ts`, `contentTransfer.ts` | the walk of a graph of folders, then the writes |
| `FilesProofs` | - | theorems about `EditorFiles`, `ServerFiles`, `ContentCommands` and `Transfers` |
| `WorkbenchProofs` | - | theorems about `ProfileStore`, `NotebookRun`, `InteractiveWindow`, `ResultPanel` and `EnvironmentStubs`, and about the workbench as a whole |
| `DataViewer` | the panel, `librarySource.ts`, the grid | orders chosen, requests, the view and its makers |
| `CsvExport` | the export command and its sources | the table, temporary files, the destination |
| `CasExplorer` | `casTree.ts`, `casSession.ts`, `casConnectCommand.ts` | the tree of a table, reads under way, one command by place, the token the last step sent |
| `Filerefs` | `fileref.ts`, `casToken.ts` and their callers in `procPython.ts` | names with owner, content and tag; writers by place |
| `RichCapture` | `captureRichOutput`, `richOutput.ts`, `files.ts` | the directory, both listings, what was fetched |
| `SessionDataProofs` | - | theorems about `DataViewer`, `CsvExport`, `CasExplorer`, `Filerefs` and `RichCapture` |

`MCSessionManager`, `MCLogStream` and `MCRunWindow` give TLC constants and
symmetry. `MCAccounts`, `MCWorkbench` and `MCSessionData` each put several
modules into one run: these modules share no variable, so a behaviour is a
behaviour of one of them, the `part` chosen at the start, and the others stay
at one initial state. Running parts side by side would multiply the states and
add no behaviour of any part. Their properties are conjunctions, named for
what they say; the conjuncts are defined and explained in the parts' modules.

`SessionManager` implements `ConnectionService` and `LogStream` implements
`LogWindow`; both are checked as properties (`ImplementsService`,
`ImplementsWindow`) and proved. Where one module needs what another one has in full, it
has it as a single step: a connect in `RunWindow` succeeds or fails in one
action and reading a log ends with the job or by a cancel; `NotebookRun` has
of a backend only its run; `Filerefs` and `RichCapture` have of a run only the
requests they are about.

Definitions marked "Fault" are wrong variants of the definition below them.
No specification uses them: they show which mistake each property would catch.

### What is abstracted

* A session, connection, backend, context, file or token is an opaque value. A
  line of the log is its number and its length; a version of a file is a number
  that is also its tag.
* A request is one step: it is answered, or it fails, and where it matters it
  may have been done although its answer is lost. Only `HttpExchange` looks
  inside one.
* `RunWindow` distinguishes events from microtasks. The continuation of a
  promise that has settled runs before the next event, so an event waits until
  no continuation is pending (`Quiet`). Two continuations run in either order.
  `SessionManager` needs this only for a disconnect that was waiting
  (`Drained`); all else happens between one await and the next.
* What reaches the user as text is left out, unless a property is about which
  text it is: the message above the grid, the note for a figure that is not
  shown, the notice to reload.
* The secret storage of a sign-in and a sign-out, and the memory that holds the
  bindings, are taken to succeed: that a write of theirs rejects is not
  modelled. Nor is that VS Code's list of accounts, or a session asked of it,
  rejects under a CAS command.
* What the document of a panel is sent arrives at once, except in `ResultPanel`,
  which has both queues.
* Calls in an untrusted folder or without an active profile report and end at
  once, and are left out.
* `RunWindow` has one window life; reloading is `SessionManager`'s, and that of
  a backend `Filerefs`'.

## Runs

| Run | Bounds | What it shows |
|---|---|---|
| `session_profiles` | 2 profiles, 2 connects, 1 disconnect, 2 sessions | the connection held is the one remembered; results go to the profile asked for; a disconnect ends what was under way; refinement |
| `session_edits` | 1 profile, 2 deployments, 1 edit, 2 sessions | no session is lost silently; what is cached and written back fits the deployment |
| `session_settles` | 1 profile, 2 connects, 1 disconnect | connects and disconnects are answered |
| `disconnect_under_switch` | as `session_profiles`, with switches during a disconnect | finding 1 |
| `log_window` | 7 lines, 2 unreadable, pages of 2, a buffer of 3 lines and 3 characters | accounting, bounds, completeness, cancellation, refinement, termination |
| `run_claims` | 1 profile, 2 commands, 1 session, 3 connections, 3 backends; disconnects, sign-outs and failures under commands | Cancel and its verdict; one backend per connection, replaced runs are stopped |
| `run_seeds` | 2 profiles, 2 commands, 2 sessions, 2 connections; overlapping connects, switches under commands | claims; reuse of closed backends; the snippet runs first; only dead sessions are forgotten |
| `run_settles` | 1 profile, sign-outs under commands | commands end |
| `accounts` | provider: 1 account, 2 deployments, 2 calls, 3 grants, 1 move; flow: 2 attempts, 5 pastes; exchange: 3 chunks | sessions and tokens are their own account's and deployment's; a sign-in ends with what was answered to it; a part of an answer is not taken for the whole; all of them end |
| `workbench` | two of each actor; 3 documents of the panel, 2 items made in Content, 3 versions and 2 sessions of the server, a tree of 5 nodes | cells are started and ended as their own, the panel shows the run there is, secrets fit, files are not lost, and no step changes what belongs to another |
| `session_data` | 2 requests, 3 views; tables of up to 4 rows in pages of 2; 2 deployments; 2 windows on one session, 3 names held, 2 attempts; 2 figures, 2 jobs | rows are those of the choice made last, exports are whole, requests go out with their own token, a program runs that is its own, figures are shown or noted |
| `names_run_out` | 2 windows, 4 programs, 3 attempts | finding 2 |

Two of everything that is created (sessions, connections, backends, grants,
versions, views) are enough for one to be replaced by another while work on
the first goes on, and two invocations are enough for each race between them;
where a third matters (a waiter, a leader and one that joined; the view that a
superseded request makes after another was made; in `run_claims` a
connection between the one a run began on and the one in use) there are three. The log's
seven lines make the buffer overflow more than once, with a marker already in
it, and one line is longer than the whole buffer. A table of three rows ends
in a short page, one of four in a full one. Trees hold cycles and names that
differ only in case. In `Filerefs` three names are held, one more than the
attempts and than a first page has. When a bound runs out the corresponding
action stops being possible; the runs do not check for deadlock where the
system may come to rest: the log stream after it has ended, the run commands,
and all parts of the last three passing runs.

### Assumptions about the surroundings

Constants say what may happen while something else is under way, so that a
property the code does not keep in general is checked where it does keep it,
and each way out is known. The runs allow what is not listed here.

| Assumption of the passing runs | Where | What fails without it |
|---|---|---|
| `SwitchDuringDisconnect = FALSE` | `SessionManager` | `DisconnectSticks`, finding 1 |
| `Mishaps` without `overlap` in `run_claims` | `RunWindow` | `OneBackendAtWork`: two commands that awaited one connect each build a backend; the claim still keeps them apart, as `run_seeds` shows with `overlap` |
| one profile in `run_claims` | `RunWindow` | `RunningKeyHolds`, finding 3 |
| no `signout`, `blip` or `disconnect` in `run_seeds` | `RunWindow` | `SnippetFirst`, finding 4; `ForgetsOnlyGone`, finding 12: a run on a replaced connection forgets, by profile, its successor |
| `Meetings` without renewals under a sign-in or a sign-out, and without another window writing between a second reading and the removal that follows it | `AuthProvider` | `SessionsAreOwn`, finding 6; `DiscardsOnlyJudged` |
| one user | `AuthProvider` | `NamedForToken`, finding 5, which no run checks |
| `MayMeet = {}`: no switch of profile, no cell started while another drains | `NotebookRun` | `InterruptReaches`, finding 7. `StartedIsEnded`, `InterruptIsOwn` and `NothingStartsClosed` hold all the same |
| `IwMayMeet = {}`: the user adds no cells | `InteractiveWindow` | `RunsItsOwn`, finding 9 |
| `RpMayMeet = {}`: one run at a time | `ResultPanel` | `ClickGoesHome`, finding 17 |
| `EnMayMeet = {}`: writes succeed and the user leaves `stubPath` alone | `EnvironmentStubs` | `NoticeIsGiven`, `TheirsIsLeft`, findings 18 and 19 |
| `PsMayMeet = {}` | `ProfileStore` | `SecretsFit` without the first, second, third or fourth of: all profiles can be read; the setting is not edited while a write of it is out (also `OthersSurvive`); writes succeed; one command at a time on a profile |
| no other reader of an open file | `EditorFiles` | `NoLostUpdate`, finding 11, and `TagIsOfShown` |
| `DvMayMeet = {"failed delete"}` allows views whose deletion fails | `DataViewer` | nothing; `NoViewLeft`, `NoStaleBanner` and `EveryViewIsReached` fail in any case, findings 14, 15 and 25. A view may always be made without the source hearing of it |
| `CxMayMeet = {}`: no cancel after the last page | `CsvExport` | `CancelledLeavesIt`, finding 20 |
| `FrMayMeet = {"user"}`: pages of a listing do not fail after the first, SAS code does not take the token's name while it is written | `Filerefs` | `SeededIsPast`, finding 21; `TokenStaysHome` |
| one backend on the session | `RichCapture` | `FiguresAreShown`: two windows capture from one directory; `OneJobAtATime`, finding 22 |
| `CaMayMeet = {}`: no refresh while columns are read | `CasExplorer` | `ShownIsCurrent`, finding 23 |

### Fairness

Requests end: each has a timeout, so an outstanding request is eventually
answered or fails, and a prompt is answered or dismissed. `SessionManager`
asks weak fairness of each invocation's next step and `LogStream` of the pump.
`RunWindow` asks strong fairness of each command, since another command's
continuations disable its event again and again without taking it out of the
queue. `AuthProvider` asks it only of its deadline and of the answer it then
publishes: a renewal may hang. `SignInFlow` asks that somebody answers each
paste box, if only by dismissing it, and that the exchange, which has a
timeout, ends. `HttpExchange` asks only that its timer fires. No fairness is
asked of the user's commands, of the consumer of a log, of a program's end,
nor of the deployment.

## Findings

Where the code does something else than its comments or documents say, or
loses something it means to keep. `PROJECT.json` quotes them. The first two
are runs; for the others it names the constants under which TLC shows the
named property violated in the module.

1. `disconnect()` reads the active profile again after its wait
   (`compute/sessionManager.ts:467`); after a switch it ends a profile whose
   own connect is in flight, and that connect then comes up.
2. Names for filerefs run out in one window when another on the same session
   has run as many programs as there are attempts since this one listed them
   (`backend/procPython.ts:2001`).
3. Two profiles can each have a run, but there is one `currentRun` and one
   `running` key (`run/commands.ts:587`).
4. Whether the startup snippet is due is derived from whether this connect
   created the session (`backend/procPython.ts:847`).
5. A sign-in that fails after its grant was stored leaves the first user's name
   on the second user's tokens (`auth/browserFlow.ts:187`).
6. A renewal under way at a sign-out writes its session afterwards
   (`auth/authProvider.ts:410`).
7. A cell that starts while another still drains loses the slot, and cannot be
   interrupted (`notebook/notebookController.ts:528`).
8. A cell that raises after its notebook was closed publishes a diagnostic for
   it (`notebook/notebookController.ts:520`).
9. The interactive window runs a cell by the index it had
   (`notebook/interactiveWindow.ts:376`).
10. A cut comes back to the clipboard although the item has moved
    (`content/contentCommands.ts:490`).
11. Compare with Saved can make a save overwrite another's
    (`content/contentFileSystem.ts:148`).
12. A server command, or a run, whose session is gone can forget its successor
    (`compute/sessionManager.ts:356`).
13. An upload that was done without an answer is reported as left empty
    (`server/adapter.ts:446`).
14. A view made while the panel is disposed of stays in the session
    (`data/dataViewerPanel.ts:193`).
15. The failure of a request for an order the user has left is shown above the
    rows of the new one (`webview/dataViewerEntry.tsx:311`).
16. A profile with a typo is dropped from the settings by the next command on
    another one (`profile/store.ts:165`).
17. With two runs, a click in the panel can open a line of the wrong program
    (`run/resultPanel.ts:385`).
18. When recording a change of the stubs fails, nobody tells the user to reload
    (`run/pylanceStubSync.ts:446`).
19. A `stubPath` set during a synchronisation is overwritten
    (`run/pylanceStubSync.ts:400`).
20. A cancel after the last page is not heard and the destination is replaced
    (`data/csvExportCommand.ts:393`).
21. A listing that breaks off after its first page counts as complete
    (`backend/procPython.ts:2051`).
22. Two windows on one session each run a job in it
    (`compute/sessionManager.ts:361`).
23. Columns that arrive after a refresh put back what it had dropped
    (`cas/casTree.ts:298`).
24. When a table grows while it is exported, the rows shown can be more than
    are in the file (`data/csvExportModel.ts:237`). The attempt to prove the
    property found it; the tables of the run are too short to.
25. When the answer to the request for a view is lost, late or malformed, the
    view stays in the session and nothing deletes it, also while the panel is
    open (`data/librarySource.ts:194`).

Further, without a property of its own: a window that closes between a
session's creation and the write of its binding leaves a session nothing
refers to (`Reload` counts it in `left`).

## Proofs

`SessionManagerProofs` proves, for any number of profiles, deployments,
sessions, connects and disconnects, from `ConstantsAssumption` and
`NoneAssumption`:

* `TypeCorrect`: `Spec => []TypeOK`. Types are not inductive alone: an action
  reads a setting, a binding or a connection that may be `None`, and what makes
  it a record there is where its call stands. `TypeInv` adds what a call holds
  at each place in `runConnect`.
* `HeldIsNeverOverwritten`: `Spec => NeverOverwritten`. It rests on
  `SingleFlight`: the `connecting` map names exactly the calls in flight, so a
  profile has one at a time, and it holds no connection while one is in flight
  before `hold`. `FlightInvariant` proves both.
* `LiveIsRemembered`: `Spec => []BindingMatchesLive`, if no profile is switched
  during a disconnect. A call that reached `hold` has its session in the
  binding, and nothing clears the binding while it is there: a disconnect of
  that profile would be waiting for it. `FullInvariant` joins it to the two
  above.
* `AnswersAreOwn`: `Spec => []ResultIsForAskedProfile`. A call joins the leader
  of its own profile, because `connecting` has one (`OwnInv`).
* `KnownFits`: `Spec => []KnownFitsEndpoint`. Before a write-back the setting
  is compared with the endpoint the connect began on, and the context it writes
  is one which that endpoint offers (`KnownInv`).
* `NothingIsLost`: `Spec => []NoSilentOrphan`. A session that only memory
  refers to is one whose start a call in flight awaits, or one a disconnect is
  about to delete; a call that puts its session into the binding finds none
  there (`BoundOnce`), because it is its profile's only one. No hypothesis on
  switches is needed.
* `DisconnectsStick`: `Spec => []DisconnectSticks`, if no profile is switched
  during a disconnect. The connects a disconnect keeps in view are still in
  flight (`OlderFlies`), and it decides only when its own profile's is not.
* `ManagerImplementsService`: `Spec => ImplementsService`, under the same
  hypothesis. Each step is a step of `ConnectionService` or a stutter; the
  invariant it takes beyond the above is that no two profiles refer to one
  session (`OneOwner`).

Each invariant is preserved action by action: one lemma per group of actions
(connecting, moving a call along, settling, holding, disconnecting, the
surroundings, reloading), joined in the theorem.

`RunWindowProofs` proves, for any number of profiles, commands, sessions,
connections and backends, from `RunWindowAssumption` and `NullAssumption`:

* `RunWindowTypes`: `Spec => []TypeOK`, from `ShapeInv`: what a command holds
  at each place, that what points at a connection or a backend points at one
  that was made, of the same profile, and that `currentRun` and `currentReset`
  name submissions under way.
* `ClaimsHold`: `Spec => []ClaimMatchesWork`. `ClaimFits` says it of commands
  in place of backends: a profile is claimed exactly while one command of its
  executes. A backend's profile never changes, so the two agree.
* `CancelledStaysCancelled`: `Spec => []CancelledIsCancelled`.
* `HandedOverConnected`: `Spec => []ReadyIsConnected`. Between two events all
  commands in a continuation hold one connection (`SameConn`), so what one of
  them closes is not what its neighbour is about to use. This is where it
  matters that continuations run before events.
* `CancelFindsIt`: `Spec => []RunningKeyHolds`, for one profile, or if nobody
  switches profiles under a command (finding 3 is the other case). Then all
  commands are of the active profile (`AtActive`) and the claim leaves one
  submission for the variables to name (`KeyFits`).
* `OneBackendEach`: `Spec => []OneBackendAtWork`, if connects do not overlap.
  `BackendInv` says in addition that the backend a command is building has its
  connection for itself, that one handed out is the cached one, and that a
  cached backend that does not fit is of a connection no longer in use.
* `SnippetComesFirst`: `Spec => []SnippetFirst`, and `ForgetsTheGone`:
  `Spec => ForgetsOnlyGone`, if a connection is forgotten only because its
  session is gone: `Mishaps` without `signout`, `disconnect` and `blip`, the
  setting of `run_seeds` (findings 4 and 12 are the other cases). `SeedInv`
  follows the session: whatever is remembered is used or gone, every
  connection created its session, a command under way holds its profile's
  connection unless the session is gone, and a backend without a snippet
  pending, or a run past its start, has a session that had it.

`LogWindowProofs` proves from `PositiveBounds`, the condition that
`positiveInteger` enforces, that every line is accounted for
(`WindowAccounts`), that the lines that wait are bounded (`WindowIsBounded`)
and that a consumer that has caught up knows of every line
(`CaughtUpKnowsAll`). The stream implements `LogWindow`, as the next module
proves.

`LogStreamProofs` proves from `LogAssumption`, for logs, pages and buffers of
any size and for any lines that do not parse:

* `EndHolds`: `Spec => []EndIsTold`. `EndInv` keeps the cursor and the next link
  within the log, and lets the drain begin only after the job is over, so that
  the log it reads to the end no longer grows.
* `LogIsKept`: `Spec => []LogIsAccounted`. What the consumer was handed and what
  waits account together for every line up to the cursor, read in order
  (`Buffers`): each line stands behind as many lines and losses as come before
  it in the log, a marker waits only at the front of the queue, and it stands
  for at least one line. A page goes to the end of the queue (`PageIs`), `Trim`
  takes whole events off the front and leaves a marker that counts as much
  (`TrimIs`), and the consumer moves the first event over (`TakeIs`); none
  changes what the whole counts for.
* `StreamImplementsWindow`: `Spec => ImplementsWindow`. With that invariant each
  page is `Read(n, k)` for the n lines of it and the k lost to make room, a line
  handed out is `Show`, a marker is `Tell`, and no other step can be seen.
* `StreamTyped`: `Spec => []TypeOK`.

The totals are sums over places of a sequence, so the lemmas before these say
that `SumFunctionOnSet` adds up in any order, over disjoint places, and after a
shift. They go by induction over the size of a set, with `WFMin` in place of
the induction theorems that take an operator (`BySize`, `ByNumber`).

`AccountsProofs` proves, for any number of profiles, deployments, callers,
attempts, pastes, grants and chunks, from `AuthAssumption`,
`AbsenceAssumption`, `FlowAssumption` and `HttpAssumption`:

* `ExchangeHolds`: `AccountsSpec => []ExchangeIsWhole`. Only the end of a body
  that has come whole gives a verdict on what was answered (`Fits`), and no
  event changes an exchange that is settled.
* `FlowHolds`: `AccountsSpec => []FlowIsOwn`. The list of the callback handler
  holds exactly the attempts that wait, each once; taking one out of it leaves
  the others (`Removed` and the lemmas after it).
* `SessionsFit`: `AnswerFits` and `TokensStayHome`, whatever meets what. A
  renewal keeps the endpoint it began with, whatever the profile says later,
  and a call that waits has joined one for the endpoint it was asked about
  (`AuthInv`). A token that does not know whose it is is the first of its
  profile, and once refused it is only in an entry that is being judged
  (`TokensInv`).
* `SessionsHold`: `AccountsSpec => []SessionsAreOwn`, which adds that a
  sign-out sticks, if no renewal or sign-in of a profile is under way while it
  is signed out (`"work under sign-out" \notin Meetings`, finding 6). A profile
  signed out has no session, no entry and no renewal that has read one
  (`SignedOutInv`).
* `DiscardsHold`: `AccountsSpec => DiscardsOnlyJudged`, if no renewal is under
  way at a sign-in and no other window writes between the second reading and
  the removal. The entry about to be removed is then the one that was refused
  (`GapInv`).
* `AccountsTyped`: `AccountsSpec => []AccountsTypeOK`.

A lemma for each action says what it does to the renewal and to the call that
takes it (`RenewalMoves`, `CallMoves`); the four invariants rest on these.

`SessionDataProofs` proves, for any number of windows, names, programs, views,
requests, exports and rows, from the assumptions of the five modules (among
them that the tree's word for no deployment names none, `"none" \notin
Deployments`):

* `FilerefsHold`: `SessionDataSpec => []FilerefsAreOwn`, if no page of the
  listing is lost and the user leaves the token's name alone while it is
  written (`FrMayMeet \subseteq {"user"}`, the surroundings of the run; the
  other case is finding 21). A name that a run has found free is its own until
  it lets go of it: two runs never write one name, except the snippet's, to
  which both write the same (`Apart`). What a run is about to submit is in its
  name (`RunStands`).
* `CasHolds`: `SessionDataSpec => []CasIsOwn`, if no refresh comes while
  columns are read (finding 23). What is read, kept or drawn of a table is of
  the node as it is, and columns kept to be drawn bring its icon with them
  (`TreeFits`).
* `FiguresHold`: `SessionDataSpec => []FiguresAreShown`, with one window at
  the session (finding 22). What the listing before the job does not have as it
  is now, the job has written (`RunFits`); hence what is told from the two
  listings is its own, and all that is new is told.
* `TablesFit`: rows are those of the order chosen last, no view is forgotten
  that the source was answered for (views made without a good answer are in
  `unheard`, finding 25), and an exported file is the whole table, also under a
  late cancel. Only the
  request at the head of the queue is at work (`QueueFits`), and a view is of
  the order of whoever has it in hand (`ViewsFit`). The temporary file holds
  what was read through, as long as the table is still the one that was opened
  (`FileFits`).
* `TablesHold`: `SessionDataSpec => []TablesAreWhole`, if nobody cancels between
  the last page and the rename (`"late cancel" \notin CxMayMeet`, finding 20).
* `SessionDataTyped`: `SessionDataSpec => []SessionDataTypeOK`, without
  hypothesis. Types need what the steps keep: a run that looks for a name has a
  try left (`TriesLeft`), a request of the viewer is none or has its order and
  its phase (`ViewerShapes`), a table to be redrawn is one the tree has
  (`CaTyped`), and a run past its start has a job (`RcTyped`).

`FilesProofs` proves, for any number of windows, versions, commands, files,
sessions, items and folders, and for any finite tree to download, from
`EditorFilesAssumption`, `ServerFilesAssumption`, `ContentAssumption` and
`TransfersAssumption`, of the workbench (a step of it is a step of each part,
or leaves the part alone: `PartsStep`):

* `NothingIsLost`: `WorkbenchSpec => NoLostUpdate`, and `TagStaysOfShown`:
  `WorkbenchSpec => []TagIsOfShown`, if nobody else reads the open file through
  the extension (`"other reader" \notin EfMayMeet`, finding 11). `WindowFits`
  follows one window: the tag of a read under way is no later than the bytes it
  will show, the tag kept and that of a save under way are no later than what
  the editor shows, and an editor that is being read has no unsaved changes and
  no save. A save that lands then lands on the version the editor showed
  (`LandsOnItsBase`), whatever came between VS Code's check and the request.
* `ServerCommandsKeep`: `WorkbenchSpec => RemovesWhatItSaw /\ ToldIsDone /\
  ForgetsAfterGone`, with lost answers and reconnects and without hypothesis.
  `Shaped` says which operation can be at which request.
* `NothingIsStranded`: `WorkbenchSpec => [](NothingUnlinked /\ CopiedOnce /\
  ClipboardIsLatest)`, without hypothesis: requests may be refused or lost,
  commands cancelled and overlap in any order. A command is the list of
  requests it has still to send, and `TodoFits` says for each kind of command
  what such a list can be: one that has made a file has still to put it into a
  folder or to remove it, and a copy is made once. No two commands share a
  number (`JobsFit`), so the copies made are of different commands
  (`CopiesFit`); a cut that nothing has replaced is the clipboard's latest
  entry; an item in no folder is in some command's hands, or was left there by
  an answer that never came (`Linked`). `CtInv` joins these.
* `DownloadsAreWhole`: `WorkbenchSpec => [](OneFilePerPath /\ WalkEnds /\
  AllAccounted)`, without hypothesis, for trees that loop, share folders, repeat
  names in another case or are listed in part. In `TrInv`, `PathsApart` says
  that what the walk has planned and what it has still to visit are at
  different paths whatever their case; `VisitedFits` that no folder is listed
  twice under one key and, where a folder has none, none below the limit; `MembersMet` that each member
  of a listed folder is planned, to be visited, or told of; `WritingFits` that
  the writes follow the plan, one by one.

`WorkbenchProofs` proves, for any number of notebooks, cells, calls,
selections, windows, runs, outputs, packages, profiles, clients and commands,
from the assumptions of the parts (`PsAssumption` and `NoneIsNoObject` for the
profiles):

* `SecretsStayFit`: `WorkbenchSpec => []SecretsFit`, `OtherProfilesStay`:
  `WorkbenchSpec => OthersSurvive`, and `RenamesAreFollowed`: `WorkbenchSpec =>
  RenameIsFollowed`, if nothing of `PsMayMeet` happens. `SecretsFit` speaks of
  moments at which nothing is at work, so the invariant says what each command
  in between knows: `CommandFits` gives for each place in it what it has read
  and what it is about to write (`ShapeFits`, `FitsSettings`), whose secret it
  holds (`FitsSecrets`) and what its window points at (`FitsWindow`);
  `ApartFrom` that two commands are about different names and identities;
  `KeepsSecrets` that a secret is its profile's or that of a command which is
  about to put it there or take it away; `OneName` that no two profiles share
  an identity. A write puts back what it read of the other profiles, and that
  is what they are now, because every edit in between is of a command that it
  excludes (`WhatIsWritten`, `LandedIs`).
* `CellsStayTheirOwn`: `WorkbenchSpec => []CellsAreOwn`, from `CellsStayOwn` and
  `SelectionsRunTheirOwn`. Of notebooks, if the active profile stays while a
  call is under way and no cell starts while another drains (`MayMeet \cap
  {"switch", "drain"} = {}`, finding 7): the calls of one notebook are at
  different cells (`Apart`), one call at most reads output (`OneReads`), and
  the slot names it. Of the interactive window, if the user adds no cell
  meanwhile (`"edits" \notin IwMayMeet`, finding 9): a command that has
  inserted its cell and not yet run it is the head of the chain, so its index
  still names that cell (`SelectionFits`).
* `ShownStaysOfTheRun`: `WorkbenchSpec => []ShownIsOfTheRun`, from
  `PanelShowsTheRun`, `ClicksGoHome` and `StubsAreWhole`. The panel shows the
  run there is also where runs overlap: what the document has shown, what is on
  its way to it and what is kept for it are together the run's items, once and
  in order (`BacklogFits`, `DocumentFits`). A click goes home if runs follow
  one another (`"overlap" \notin RpMayMeet`, finding 17; `HomeInv`: whatever
  is shown or on its way carries the token of its own run). The stubs are whole
  if writes succeed and `stubPath` stays under a synchronisation (`EnMayMeet =
  {}`, findings 18 and 19): one command at most is at work on the tree
  (`OneAtWork`), what it has yet to delete and write makes the tree that of its
  answer (`StubFits`), and a notice owed is owed by one command or the
  restart's (`OwedByOne`).
* `StepsStayTheirOwn`: `WorkbenchSpec => StepsKeepToTheirOwn`, from the theorems
  on steps above, `StartsOnlyOpen` (`NothingStartsClosed`, without hypothesis)
  and `TheirStubsAreLeft` (`TheirsIsLeft`).

* `FilesStayKept`: `WorkbenchSpec => []FilesAreKept`, from `NothingIsStranded`,
  `TagStaysOfShown` and `DownloadsAreWhole`; the hypothesis is the second's.
* `WorkbenchIsTyped`: `WorkbenchSpec => []WorkbenchTypeOK`. The types of a part
  are a conjunct of its invariant, so the hypotheses are those under which the
  invariants hold: `MayMeet \cap {"switch", "drain"} = {}`, `"edits" \notin
  IwMayMeet`, `EnMayMeet = {}` and `PsMayMeet = {}`.

Each hypothesis of a theorem is an assumption of the table above, and the runs
make it too, so that it is met by the states they reach.

With these, every invariant and action property that a passing run checks is
stated by a theorem. Only checked by TLC are the liveness properties, with the
fairness they assume, which the prover does not reach; and the two properties
that the code does not have, of which TLC finds the counterexample.

## Not modelled, and the plan

Left to model: uploads to SAS Content and folder uploads to the server with their conflicts
(`content/contentTransfer.ts`, `server/`); the data viewer over CAS tables
(`cas/casTableSource.ts`); the jobs of a session one by one, so that a job
whose creating request was cancelled is seen to stay behind; `dispose` of the
backend cache.

Left out for good: the wire layer's readers, dialect tables, HTML sanitising,
the trees' drawing, snippets and views, which keep no state and whose
functions unit tests cover.
