----------------------------- MODULE RunWindow -----------------------------
(***************************************************************************)
(* The run commands of one window: Run File, Run Selection, Reset Python   *)
(* State, Show Environment and Cancel (src/run/commands.ts), the cache of  *)
(* backends they share (src/run/backendCache.ts), the life of a            *)
(* ProcPythonBackend (src/backend/procPython.ts) and the per-profile claim *)
(* of ComputeSessionManager that serialises submissions.                   *)
(*                                                                         *)
(* Two kinds of step.  What ends an await on a request, a prompt or a      *)
(* gesture is an event; the continuations it releases run as microtasks    *)
(* before the next event (Quiet).  Reading a job's log is LogStream's and  *)
(* connecting is SessionManager's: here each is one await.                 *)
(***************************************************************************)
EXTENDS Naturals, FiniteSets

CONSTANTS
    Profiles, Cmds,     \* profile ids; slots for command invocations
    Sessions,           \* compute sessions, each used once
    Conns, Backends,    \* ComputeConnection and ProcPythonBackend objects
    Startup,            \* the profiles that have a Python startup snippet
    Mishaps,            \* what the surroundings may do, of the kinds below
    None

(* "overlap": a command is invoked while another is still connecting;      *)
(* "switch": the active profile changes under a command; "disconnect": the *)
(* user disconnects under one; "signout": an auth session is removed;      *)
(* "blip": a request fails although its compute session is alive.          *)
MishapKinds == {"overlap", "switch", "disconnect", "signout", "blip"}

ASSUME RunWindowAssumption ==
    /\ None \notin Profiles \cup Cmds \cup Sessions \cup Conns \cup Backends
    /\ Startup \subseteq Profiles
    /\ Mishaps \subseteq MishapKinds

VARIABLES
    active,      \* the active profile
    live,        \* the connection ComputeSessionManager holds per profile
    binding,     \* the session the workspace remembers per profile
    claimed,     \* ComputeSessionManager.busySubmissions
    session,     \* the compute sessions and what their interpreter has run
    conn,        \* the connections made
    backend,     \* the backends built
    cache,       \* backends, the map in backendCache.ts
    cmd,         \* the state of each command invocation
    currentRun, currentReset,  \* the closures' variables, as the command
    running      \* the context key pythonOnViya.running

manager == <<live, binding, claimed>>
window == <<currentRun, currentReset, running>>
vars == <<active, manager, session, conn, backend, cache, cmd, window>>

-----------------------------------------------------------------------------
Kinds == {"file", "selection", "reset", "probe"}
Connecting == {"connect", "got", "closing", "built", "ready"}
Microtasks == {"got", "built", "ready"}
Submitted == {"startup", "prepare", "submit", "stream", "syscc", "result", "capture"}
Outcomes == {"ok", "busy", "cancelled", "gone", "failed"}

Cmd == [pc : {"idle", "told"} \cup Connecting \cup Submitted,
        kind : Kinds \cup {None}, profile : Profiles \cup {None},
        conn : Conns \cup {None}, backend : Backends \cup {None},
        seeding : BOOLEAN, aborted : BOOLEAN, outcome : Outcomes \cup {None}]

IdleCmd == [pc |-> "idle", kind |-> None, profile |-> None, conn |-> None,
            backend |-> None, seeding |-> FALSE, aborted |-> FALSE, outcome |-> None]

Session == [state : {"unused", "alive", "gone"}, seeded : BOOLEAN, bare : BOOLEAN]
Connection == [profile : Profiles, session : Sessions, created : BOOLEAN]
Backend == [conn : Conns, connected : BOOLEAN, pending : BOOLEAN, uploaded : BOOLEAN]

ASSUME NullAssumption == None \notin Connection \cup Backend

Executing(c) == cmd[c].pc \in Submitted
IsRun(c) == cmd[c].kind \in {"file", "selection"}
Quiet == \A c \in Cmds : cmd[c].pc \notin Microtasks

ProfileOf(b) == conn[backend[b].conn].profile
SessionOf(c) == conn[backend[cmd[c].backend].conn].session

(* ProcPythonBackend.busy: a run of its own, or any claim of its profile.  *)
RunOn(b) == {c \in Cmds : Executing(c) /\ IsRun(c) /\ cmd[c].backend = b}
Busy(b) == RunOn(b) # {} \/ ProfileOf(b) \in claimed

-----------------------------------------------------------------------------
Init ==
    /\ active \in Profiles
    /\ live = [p \in Profiles |-> None]
    /\ binding = [p \in Profiles |-> None]
    /\ claimed = {}
    /\ session = [s \in Sessions |-> [state |-> "unused", seeded |-> FALSE, bare |-> FALSE]]
    /\ conn = [k \in Conns |-> None]
    /\ backend = [b \in Backends |-> None]
    /\ cache = [p \in Profiles |-> None]
    /\ cmd = [c \in Cmds |-> IdleCmd]
    /\ currentRun = None /\ currentReset = None /\ running = FALSE

-----------------------------------------------------------------------------
(* The connection side, as SessionManager lets it be seen                  *)

(* A command is invoked: connect() answers at once when it holds one.      *)
Invoke(c, kind) ==
    /\ Quiet /\ cmd[c].pc = "idle"
    /\ "overlap" \in Mishaps \/ \A d \in Cmds : cmd[d].pc \notin Connecting
    /\ cmd' = [cmd EXCEPT ![c] = [IdleCmd EXCEPT
          !.pc = IF live[active] = None THEN "connect" ELSE "got",
          !.kind = kind, !.profile = active, !.conn = live[active]]]
    /\ UNCHANGED <<active, manager, session, conn, backend, cache, window>>

Waiting(p) == {c \in Cmds : cmd[c].pc = "connect" /\ cmd[c].profile = p}

(* A connection comes up: the remembered session if it is there, else a    *)
(* new one.  Everyone who awaits it gets the same.                         *)
Connects(p) ==
    /\ Quiet /\ live[p] = None
    /\ Waiting(p) # {} \/ p = active
    /\ \E k \in Conns, s \in Sessions :
          /\ conn[k] = None
          /\ LET reattach == binding[p] # None /\ session[binding[p]].state = "alive"
             IN  /\ IF reattach THEN s = binding[p] ELSE session[s].state = "unused"
                 /\ session' = [session EXCEPT ![s].state = "alive"]
                 /\ conn' = [conn EXCEPT ![k] =
                        [profile |-> p, session |-> s, created |-> ~reattach]]
          /\ binding' = [binding EXCEPT ![p] = s]
          /\ live' = [live EXCEPT ![p] = k]
          /\ cmd' = [c \in Cmds |-> IF c \in Waiting(p)
                         THEN [cmd[c] EXCEPT !.pc = "got", !.conn = k] ELSE cmd[c]]
    /\ UNCHANGED <<active, claimed, backend, cache, window>>

ConnectFails(p) ==
    /\ Quiet /\ Waiting(p) # {}
    /\ cmd' = [c \in Cmds |-> IF c \in Waiting(p) THEN IdleCmd ELSE cmd[c]]
    /\ UNCHANGED <<active, manager, session, conn, backend, cache, window>>

(* The session is deleted, or the request fails and it stays alive.        *)
Disconnects ==
    LET p == active IN
    /\ Quiet /\ live[p] # None
    /\ "disconnect" \in Mishaps \/ \A c \in Cmds : cmd[c].pc \in {"idle", "told"}
    /\ live' = [live EXCEPT ![p] = None]
    /\ binding' = [binding EXCEPT ![p] = None]
    /\ \/ session' = [session EXCEPT ![conn[live[p]].session].state = "gone"]
       \/ UNCHANGED session
    /\ UNCHANGED <<active, claimed, conn, backend, cache, cmd, window>>

(* An auth session is removed: the profile's connection is forgotten.      *)
SignedOut(p) ==
    /\ Quiet /\ "signout" \in Mishaps /\ live[p] # None
    /\ live' = [live EXCEPT ![p] = None]
    /\ UNCHANGED <<active, binding, claimed, session, conn, backend, cache, cmd, window>>

SwitchesProfile(p) ==
    /\ Quiet /\ p # active
    /\ "switch" \in Mishaps \/ \A c \in Cmds : cmd[c].pc \in {"idle", "told"}
    /\ active' = p
    /\ UNCHANGED <<manager, session, conn, backend, cache, cmd, window>>

SessionReaped(s) ==
    /\ Quiet /\ session[s].state = "alive"
    /\ session' = [session EXCEPT ![s].state = "gone"]
    /\ UNCHANGED <<active, manager, conn, backend, cache, cmd, window>>

-----------------------------------------------------------------------------
(* backendFor()                                                            *)

(* A backend for a connection, not yet connected.  A session that connect  *)
(* created has not run the profile's snippet.                              *)
NewBackend(k) ==
    [conn |-> k, connected |-> FALSE, uploaded |-> FALSE,
     pending |-> conn[k].created /\ conn[k].profile \in Startup]

Build(c) ==
    \E b \in Backends :
        /\ backend[b] = None
        /\ backend' = [backend EXCEPT ![b] = NewBackend(cmd[c].conn)]
        /\ cmd' = [cmd EXCEPT ![c] = [@ EXCEPT !.pc = "built", !.backend = b]]

(* Fault: a cached backend is handed back as it was left.                  *)
UseCachedAsIs(c) ==
    LET b == cache[conn[cmd[c].conn].profile] IN
    /\ cmd[c].pc = "got" /\ b # None /\ backend[b].conn = cmd[c].conn
    /\ cmd' = [cmd EXCEPT ![c] = [@ EXCEPT !.pc = "ready", !.backend = b]]
    /\ UNCHANGED <<active, manager, session, conn, backend, cache, window>>

(* The cached backend is of this very connection: marked connected again.  *)
UseCached(c) ==
    LET b == cache[conn[cmd[c].conn].profile] IN
    /\ cmd[c].pc = "got" /\ b # None /\ backend[b].conn = cmd[c].conn
    /\ backend' = [backend EXCEPT ![b].connected = TRUE]
    /\ cmd' = [cmd EXCEPT ![c] = [@ EXCEPT !.pc = "ready", !.backend = b]]
    /\ UNCHANGED <<active, manager, session, conn, cache, window>>

(* The rest of close(): all that this backend does is told to stop, and it *)
(* is no longer connected.  A new backend takes its place.                 *)
WorkOn(b) == {c \in Cmds : Executing(c) /\ cmd[c].backend = b}
Replace(c, old) ==
    \E new \in Backends :
        /\ backend[new] = None
        /\ backend' = [backend EXCEPT ![old].connected = FALSE,
                                      ![new] = NewBackend(cmd[c].conn)]
        /\ cmd' = [d \in Cmds |->
              IF d = c THEN [cmd[c] EXCEPT !.pc = "built", !.backend = new]
              ELSE IF d \in WorkOn(old) THEN [cmd[d] EXCEPT !.aborted = TRUE]
              ELSE cmd[d]]

(* It is of a connection that was replaced, and at work: close() it first. *)
(* A run with a job is cancelled by a request, which is awaited.           *)
CloseReplaced(c) ==
    LET b == cache[conn[cmd[c].conn].profile] IN
    /\ cmd[c].pc = "got" /\ b # None /\ backend[b].conn # cmd[c].conn /\ Busy(b)
    /\ IF \E d \in RunOn(b) : cmd[d].pc = "stream"
       THEN /\ cmd' = [d \in Cmds |->
                  IF d = c THEN [cmd[c] EXCEPT !.pc = "closing", !.backend = b]
                  ELSE IF d \in RunOn(b) THEN [cmd[d] EXCEPT !.aborted = TRUE]
                  ELSE cmd[d]]
            /\ UNCHANGED backend
       ELSE Replace(c, b)
    /\ UNCHANGED <<active, manager, session, conn, cache, window>>

(* Fault: the busy backend of a replaced connection is left alone.         *)
BuildBesides(c) ==
    LET b == cache[conn[cmd[c].conn].profile] IN
    /\ cmd[c].pc = "got"
    /\ b # None => backend[b].conn # cmd[c].conn
    /\ Build(c)
    /\ UNCHANGED <<active, manager, session, conn, cache, window>>

(* Fault: a backend that was closed is not taken up again but replaced.    *)
BuildAfterClose(c) ==
    LET b == cache[conn[cmd[c].conn].profile] IN
    /\ cmd[c].pc = "got"
    /\ b # None => (backend[b].conn # cmd[c].conn \/ ~backend[b].connected) /\ ~Busy(b)
    /\ Build(c)
    /\ UNCHANGED <<active, manager, session, conn, cache, window>>

BuildNew(c) ==
    LET b == cache[conn[cmd[c].conn].profile] IN
    /\ cmd[c].pc = "got"
    /\ b # None => backend[b].conn # cmd[c].conn /\ ~Busy(b)
    /\ Build(c)
    /\ UNCHANGED <<active, manager, session, conn, cache, window>>

(* The cancel has been answered.                                           *)
Closed(c) ==
    /\ Quiet /\ cmd[c].pc = "closing"
    /\ Replace(c, cmd[c].backend)
    /\ UNCHANGED <<active, manager, session, conn, cache, window>>

(* connect() marks it ready and the cache takes it.                        *)
Store(c) ==
    /\ cmd[c].pc = "built"
    /\ backend' = [backend EXCEPT ![cmd[c].backend].connected = TRUE]
    /\ cache' = [cache EXCEPT ![conn[cmd[c].conn].profile] = cmd[c].backend]
    /\ cmd' = [cmd EXCEPT ![c].pc = "ready"]
    /\ UNCHANGED <<active, manager, session, conn, window>>

-----------------------------------------------------------------------------
(* Submitting                                                              *)

(* Fault: the handler keeps the backend where Cancel looks for the run.    *)
ShowsBackend(c) ==
    /\ currentRun' = IF IsRun(c) THEN cmd[c].backend ELSE currentRun
    /\ currentReset' = IF cmd[c].kind = "reset" THEN c ELSE currentReset
    /\ running' = (running \/ cmd[c].kind # "probe")

(* What the handler's own variables become as its command starts and ends. *)
Shows(c) ==
    /\ currentRun' = IF IsRun(c) THEN c ELSE currentRun
    /\ currentReset' = IF cmd[c].kind = "reset" THEN c ELSE currentReset
    /\ running' = (running \/ cmd[c].kind # "probe")
Hides(c) ==
    /\ currentRun' = IF IsRun(c) THEN None ELSE currentRun
    /\ currentReset' = IF cmd[c].kind = "reset" THEN None ELSE currentReset
    /\ running' = (running /\ cmd[c].kind = "probe")

Told(c, outcome) ==
    [IdleCmd EXCEPT !.pc = "told", !.kind = cmd[c].kind,
                    !.aborted = cmd[c].aborted, !.outcome = outcome]

(* Fault: the handler leaves the refusal to execute(), inside its own try. *)
RefusedLate(c) ==
    /\ cmd[c].pc = "ready" /\ Busy(cmd[c].backend)
    /\ cmd' = [cmd EXCEPT ![c] = Told(c, "busy")]
    /\ Hides(c)
    /\ UNCHANGED <<active, manager, session, conn, backend, cache>>

(* The handler finds the backend busy and says so.                         *)
Refused(c) ==
    /\ cmd[c].pc = "ready" /\ Busy(cmd[c].backend)
    /\ cmd' = [cmd EXCEPT ![c] = Told(c, "busy")]
    /\ UNCHANGED <<active, manager, session, conn, backend, cache, window>>

(* Where a command stands once the snippet is in its fileref.              *)
AfterStartup(c) == IF IsRun(c) THEN "prepare" ELSE "submit"

(* Fault: a run does not look at the claim its profile's other work holds. *)
StartUnclaimed(c) ==
    LET b == cmd[c].backend IN
    /\ cmd[c].pc = "ready" /\ RunOn(b) = {} /\ backend[b].connected
    /\ claimed' = claimed \cup {ProfileOf(b)}
    /\ cmd' = [cmd EXCEPT ![c].pc = AfterStartup(c)]
    /\ Shows(c)
    /\ UNCHANGED <<active, live, binding, session, conn, backend, cache>>

(* execute(), reset() or probeRuntime() claims the profile.  A whole file  *)
(* and a reset restart the interpreter and so carry the snippet; another   *)
(* run carries it while the session's interpreter has not had it.          *)
Start(c) ==
    LET b == cmd[c].backend
        seeding == /\ ProfileOf(b) \in Startup
                   /\ \/ cmd[c].kind \in {"file", "reset"}
                      \/ cmd[c].kind = "selection" /\ backend[b].pending
    IN
    /\ cmd[c].pc = "ready" /\ ~Busy(b) /\ backend[b].connected
    /\ claimed' = claimed \cup {ProfileOf(b)}
    /\ cmd' = [cmd EXCEPT ![c] = [@ EXCEPT !.seeding = seeding,
          !.pc = IF seeding /\ ~backend[b].uploaded THEN "startup" ELSE AfterStartup(c)]]
    /\ Shows(c)
    /\ UNCHANGED <<active, live, binding, session, conn, backend, cache>>

-----------------------------------------------------------------------------
(* What the backend awaits                                                 *)

Goes(c, pc) == cmd' = [cmd EXCEPT ![c].pc = pc]
Answers(c) == Quiet /\ Executing(c) /\ session[SessionOf(c)].state = "alive"

SnippetUploaded(c) ==
    /\ Answers(c) /\ cmd[c].pc = "startup"
    /\ backend' = [backend EXCEPT ![cmd[c].backend].uploaded = TRUE]
    /\ Goes(c, AfterStartup(c))
    /\ UNCHANGED <<active, manager, session, conn, cache, window>>

(* The program is in its fileref, the directory listed if it could be.     *)
Prepared(c) ==
    /\ Answers(c) /\ cmd[c].pc = "prepare"
    /\ Goes(c, "submit")
    /\ UNCHANGED <<active, manager, session, conn, backend, cache, window>>

(* The job is created and will run its steps, the snippet's first.         *)
JobCreated(c) ==
    LET s == SessionOf(c) IN
    /\ Answers(c) /\ cmd[c].pc = "submit"
    /\ session' = [session EXCEPT
          ![s].seeded = @ \/ cmd[c].seeding,
          ![s].bare = @ \/ (/\ IsRun(c) /\ ~cmd[c].seeding /\ ~session[s].seeded
                            /\ ProfileOf(cmd[c].backend) \in Startup)]
    /\ Goes(c, "stream")
    /\ UNCHANGED <<active, manager, conn, backend, cache, window>>

(* The log has been read to the end of a job nobody cancelled.             *)
JobEnded(c) ==
    /\ Answers(c) /\ cmd[c].pc = "stream" /\ ~cmd[c].aborted
    /\ Goes(c, "syscc")
    /\ UNCHANGED <<active, manager, session, conn, backend, cache, window>>

(* Fault: whatever job ends, the snippet is taken to have run.             *)
StatusOfAny(c) ==
    /\ Answers(c) /\ cmd[c].pc = "syscc" /\ ~cmd[c].aborted
    /\ cmd[c].kind = "reset" => cmd[c].seeding
    /\ backend' = [backend EXCEPT ![cmd[c].backend].pending = FALSE]
    /\ Goes(c, IF cmd[c].kind = "reset" THEN "result" ELSE "capture")
    /\ UNCHANGED <<active, manager, session, conn, cache, window>>

(* SYSCC is read and nobody has cancelled: a job that seeded has seeded.   *)
(* A reset without a snippet is over, one with it has its result to read.  *)
StatusRead(c) ==
    /\ Answers(c) /\ cmd[c].pc = "syscc" /\ ~cmd[c].aborted
    /\ cmd[c].kind = "reset" => cmd[c].seeding
    /\ backend' = IF cmd[c].seeding
                  THEN [backend EXCEPT ![cmd[c].backend].pending = FALSE] ELSE backend
    /\ Goes(c, IF cmd[c].kind = "reset" THEN "result" ELSE "capture")
    /\ UNCHANGED <<active, manager, session, conn, cache, window>>

(* Fault: any failure is taken to mean that the session is gone.           *)
SettleForgets(c, outcome) ==
    LET p == ProfileOf(cmd[c].backend) IN
    /\ claimed' = claimed \ {p}
    /\ cmd' = [cmd EXCEPT ![c] = Told(c, outcome)]
    /\ Hides(c)
    /\ live' = IF outcome \in {"gone", "failed"} THEN [live EXCEPT ![p] = None] ELSE live
    /\ UNCHANGED <<active, binding, session, conn, backend, cache>>

(* The call settles: its claim is released, its handler's variables are    *)
(* cleared, and a session found gone is forgotten by its profile.          *)
Settle(c, outcome) ==
    LET p == ProfileOf(cmd[c].backend) IN
    /\ claimed' = claimed \ {p}
    /\ cmd' = [cmd EXCEPT ![c] = Told(c, outcome)]
    /\ Hides(c)
    /\ live' = IF outcome = "gone" THEN [live EXCEPT ![p] = None] ELSE live
    /\ UNCHANGED <<active, binding, session, conn, backend, cache>>

(* The last answer has come, or failed to: capturing a run's rich output   *)
(* is best effort.  Whether it was cancelled is asked once more.           *)
Completes(c) ==
    /\ IF IsRun(c) THEN Quiet ELSE Answers(c)
    /\ \/ cmd[c].pc = "capture"
       \/ cmd[c].pc = "syscc" /\ cmd[c].kind = "reset" /\ ~cmd[c].seeding
    /\ Settle(c, IF cmd[c].aborted THEN "cancelled" ELSE "ok")

(* Fault: the failure is translated before cancellation is asked about.    *)
TranslatesFirst(c) ==
    /\ Quiet /\ Executing(c) /\ cmd[c].pc # "result"
    /\ cmd[c].pc = "capture" => ~IsRun(c)
    /\ \/ session[SessionOf(c)].state = "gone" /\ Settle(c, "gone")
       \/ session[SessionOf(c)].state = "alive" /\ Settle(c, "failed")

(* Fault: a cancel does not end the reading of the log.                    *)
FailsAfterLog(c) ==
    /\ Quiet /\ Executing(c) /\ cmd[c].pc \notin {"result", "stream"}
    /\ cmd[c].pc = "capture" => ~IsRun(c)
    /\ \/ cmd[c].aborted /\ Settle(c, "cancelled")
       \/ ~cmd[c].aborted /\ Settle(c, "failed")

(* A request, or the job, fails: cancelled if this backend was told to     *)
(* stop, gone if the session cannot be reached, failed otherwise.          *)
RequestFails(c) ==
    /\ Quiet /\ Executing(c) /\ cmd[c].pc # "result"
    /\ cmd[c].pc = "capture" => ~IsRun(c)
    /\ \/ cmd[c].aborted /\ Settle(c, "cancelled")
       \/ /\ ~cmd[c].aborted
          /\ session[SessionOf(c)].state = "gone" \/ "blip" \in Mishaps
          /\ Settle(c, "gone")
       \/ /\ ~cmd[c].aborted /\ session[SessionOf(c)].state = "alive"
          /\ Settle(c, "failed")

(* The snippet's result is read if it can be, whatever has happened since. *)
ResetReported(c) ==
    /\ Quiet /\ cmd[c].pc = "result"
    /\ \E outcome \in {"ok", "failed"} : Settle(c, outcome)

Return(c) ==
    /\ Quiet /\ cmd[c].pc = "told"
    /\ cmd' = [cmd EXCEPT ![c] = IdleCmd]
    /\ UNCHANGED <<active, manager, session, conn, backend, cache, window>>

-----------------------------------------------------------------------------
(* Cancelling                                                              *)

(* The Cancel command: the run it knows of, or else the reset, which has   *)
(* no handle and is stopped by closing its backend.                        *)
CancelRun ==
    /\ Quiet
    /\ IF currentRun # None
       THEN /\ cmd' = [cmd EXCEPT ![currentRun].aborted = TRUE]
            /\ UNCHANGED backend
       ELSE /\ currentReset # None
            /\ LET b == cmd[currentReset].backend IN
               /\ cmd' = [c \in Cmds |-> IF c \in WorkOn(b)
                            THEN [cmd[c] EXCEPT !.aborted = TRUE] ELSE cmd[c]]
               /\ backend' = [backend EXCEPT ![b].connected = FALSE]
    /\ UNCHANGED <<active, manager, session, conn, cache, window>>

(* The run's own progress notification has a Cancel of its own.            *)
CancelFromNotification(c) ==
    /\ Quiet /\ Executing(c) /\ IsRun(c)
    /\ cmd' = [cmd EXCEPT ![c].aborted = TRUE]
    /\ UNCHANGED <<active, manager, session, conn, backend, cache, window>>

-----------------------------------------------------------------------------
Continues(c) ==
    \/ UseCached(c) \/ CloseReplaced(c) \/ BuildNew(c) \/ Store(c)
    \/ Refused(c) \/ Start(c)

Answered(c) ==
    \/ RequestFails(c) \/ Closed(c) \/ SnippetUploaded(c) \/ Prepared(c)
    \/ JobCreated(c) \/ StatusRead(c) \/ Completes(c) \/ ResetReported(c)

Next ==
    \/ \E c \in Cmds :
          \/ \E kind \in Kinds : Invoke(c, kind)
          \/ Continues(c) \/ Answered(c) \/ JobEnded(c)
          \/ CancelFromNotification(c) \/ Return(c)
    \/ CancelRun
    \/ \E p \in Profiles :
          Connects(p) \/ ConnectFails(p) \/ SignedOut(p) \/ SwitchesProfile(p)
    \/ Disconnects
    \/ \E s \in Sessions : SessionReaped(s)

Spec == Init /\ [][Next]_vars

(* Continuations run, and every request is answered or times out.  The     *)
(* answer waits in the event loop's queue while other events and their     *)
(* continuations run, which disables it again and again and never takes it *)
(* away: strong fairness.  A program need not end, so nothing is asked of  *)
(* JobEnded, and a log read ends only with it or when cancelled.           *)
Progress(c) ==
    \/ Continues(c)
    \/ Answered(c) /\ (cmd[c].pc = "stream" => cmd[c].aborted)
    \/ cmd[c].pc = "connect" /\ (Connects(cmd[c].profile) \/ ConnectFails(cmd[c].profile))
FairSpec == Spec /\ \A c \in Cmds : SF_vars(Progress(c))

-----------------------------------------------------------------------------
(* Properties                                                              *)

(* Every variable keeps to its range.                                      *)
TypeOK ==
    /\ active \in Profiles
    /\ live \in [Profiles -> Conns \cup {None}]
    /\ binding \in [Profiles -> Sessions \cup {None}]
    /\ claimed \subseteq Profiles
    /\ session \in [Sessions -> Session]
    /\ conn \in [Conns -> Connection \cup {None}]
    /\ backend \in [Backends -> Backend \cup {None}]
    /\ cache \in [Profiles -> Backends \cup {None}]
    /\ cmd \in [Cmds -> Cmd]
    /\ currentRun \in Cmds \cup {None} /\ currentReset \in Cmds \cup {None}
    /\ running \in BOOLEAN

(* Across all the backends a profile's reconnects leave behind, at most    *)
(* one submission of it is under way, and the claim is held exactly while  *)
(* it is: a claim that leaked would refuse every later run.                *)
Works(c, p) == Executing(c) /\ ProfileOf(cmd[c].backend) = p
ClaimMatchesWork ==
    \A p \in Profiles :
        /\ p \in claimed <=> \E c \in Cmds : Works(c, p)
        /\ \A c, d \in Cmds : Works(c, p) /\ Works(d, p) => c = d

(* pythonOnViya.running is set exactly while a run or a reset of this      *)
(* window is under way, and then Cancel knows the one it is to stop.       *)
RunningKeyHolds ==
    LET InFlight == {c \in Cmds : Executing(c) /\ cmd[c].kind # "probe"} IN
    /\ running <=> InFlight # {}
    /\ InFlight \subseteq {currentRun, currentReset}

(* A run that somebody cancelled, from either place or by a reconnect,     *)
(* settles as cancelled, whatever its requests answered.                   *)
CancelledIsCancelled ==
    \A c \in Cmds : cmd[c].pc = "told" /\ IsRun(c) /\ cmd[c].aborted
                        => cmd[c].outcome = "cancelled"

(* A backend handed to a command is connected, also one that a Cancel or a *)
(* reconnect closed before.                                                *)
ReadyIsConnected ==
    \A c \in Cmds : cmd[c].pc = "ready" => backend[cmd[c].backend].connected

(* A run whose backend is no longer the cached one has been told to stop.  *)
ReplacedIsStopped ==
    \A c \in Cmds : Executing(c) /\ IsRun(c) =>
        \/ cache[ProfileOf(cmd[c].backend)] = cmd[c].backend
        \/ cmd[c].aborted

(* One backend for a connection: two would each seed the snippet, each     *)
(* count filerefs from zero, and one be out of the cache's reach.          *)
OneBackendPerConnection ==
    \A a, b \in Backends : backend[a] # None /\ backend[b] # None
                               /\ backend[a].conn = backend[b].conn => a = b

(* A connection has one backend, and one that was replaced has nothing left *)
(* to do.                                                                   *)
OneBackendAtWork == OneBackendPerConnection /\ ReplacedIsStopped

(* No run reaches an interpreter that has not had its profile's snippet.   *)
SnippetFirst == \A s \in Sessions : ~session[s].bare

(* A command that forgets a connection forgets one whose session is gone.  *)
ForgetsOnlyGone ==
    [][\A c \in Cmds, p \in Profiles :
          Executing(c) /\ cmd'[c].pc = "told" /\ live'[p] # live[p]
              => session[conn[live[p]].session].state = "gone"]_vars

(* A command comes to a verdict or to reading its program's log, and once  *)
(* cancelled it ends there too: none waits for ever on a connect, a close, *)
(* a request or a claim.                                                   *)
Owes(c) == /\ cmd[c].pc \notin {"idle", "told"}
           /\ cmd[c].pc = "stream" => cmd[c].aborted
CommandsEnd == \A c \in Cmds : Owes(c) ~> ~Owes(c)
=============================================================================
