--------------------------- MODULE SessionManager ---------------------------
(***************************************************************************)
(* One window's ComputeSessionManager (src/compute/sessionManager.ts): the *)
(* live connection it holds for each profile, the connect in flight for    *)
(* each profile, the remembered binding of src/compute/bindingStore.ts     *)
(* that outlives the window, and the compute sessions on the deployment.   *)
(*                                                                         *)
(* An action is what runs between two awaits.  Everything that happens     *)
(* while a request, a prompt or a settings write is outstanding is another *)
(* action: another call, a disconnect, an edit of the profile, the idle    *)
(* reaper, a window reload.                                                *)
(***************************************************************************)
EXTENDS Naturals, FiniteSets

CONSTANTS
    Profiles,               \* profile ids; a profile's name is its id here
    Endpoints, Contexts,    \* deployments, and compute contexts by name
    Sessions,               \* compute session ids, each given out at most once
    Calls, Discs,           \* slots for connect() and disconnect() invocations
    None,
    Offered,                \* the contexts each deployment lists
    DefaultProfile,         \* pythonOnViya.defaultProfile, or None
    MaxEdits,               \* bound on the user's edits of the settings
    SwitchDuringDisconnect  \* may the active profile change under a disconnect?

ASSUME ConstantsAssumption ==
    /\ None \notin Profiles \cup Endpoints \cup Contexts \cup Sessions \cup Calls
    /\ Offered \in [Endpoints -> SUBSET Contexts]
    /\ DefaultProfile \in Profiles \cup {None}
    /\ MaxEdits \in Nat
    /\ SwitchDuringDisconnect \in BOOLEAN

VARIABLES
    choice,       \* the profile this window was switched to, or None
    settings,     \* the profiles as the settings file has them; None: removed
    edits,        \* edits the user has made so far
    live,         \* ComputeSessionManager.live
    connecting,   \* ComputeSessionManager.connecting, as the leading call
    generations,  \* ComputeSessionManager.generations, as the probed endpoint
    call,         \* the state of each connect() invocation
    disc,         \* the state of each disconnect() invocation
    deleting,     \* sessions a DELETE nobody awaits was sent for
    binding,      \* what the workspace remembers for each profile
    server,       \* the compute sessions, as the deployments have them
    left          \* history: sessions the code lets go of for the reaper

vars == <<choice, settings, edits, live, connecting, generations, call, disc,
          deleting, binding, server, left>>

user == <<choice, settings, edits>>
memory == <<live, connecting, generations, call, disc, deleting>>

-----------------------------------------------------------------------------
(* Values                                                                  *)

Setting == [endpoint : Endpoints, context : Contexts \cup {None}]
SettingsFile == [Profiles -> Setting \cup {None}]

Connection == [profile : Profiles, endpoint : Endpoints, context : Contexts,
               session : Sessions, generation : Endpoints \cup {None}]
Binding == [session : Sessions, context : Contexts]

(* Where a connect that leads stands: at each, an await is outstanding.    *)
Phases == {"auth", "context", "open", "attach", "resolve", "create",
           "settle", "hold", "held", "remember"}

Call == [pc : Phases \cup {"idle", "joined", "done"},
         lead : Calls \cup {None},
         profile : Profiles \cup {None},
         endpoint : Endpoints \cup {None},
         context : Contexts \cup {None},
         asked : BOOLEAN,
         session : Sessions \cup {None},
         result : Connection \cup {None},
         upsert : SettingsFile \cup {None}]

IdleCall == [pc |-> "idle", lead |-> None, profile |-> None,
             endpoint |-> None, context |-> None, asked |-> FALSE,
             session |-> None, result |-> None, upsert |-> None]

Disconnect == [pc : {"idle", "waiting", "deleting", "told"},
               waits : Calls \cup {None},
               profile : Profiles \cup {None},
               session : Sessions \cup {None},
               older : SUBSET Calls]

IdleDisc == [pc |-> "idle", waits |-> None, profile |-> None,
             session |-> None, older |-> {}]

Server == [state : {"unused", "pending", "ready", "gone"},
           home : Endpoints \cup {None}]

ASSUME NoneAssumption ==
    None \notin Connection \cup Binding \cup Setting \cup SettingsFile

InFlight(c) == call[c].pc \in Phases
Alive(s) == server[s].state \in {"pending", "ready"}
AliveAt(s, e) == Alive(s) /\ server[s].home = e

(* The profile the window uses: its own choice, the default, the only one. *)
Known == {p \in Profiles : settings[p] # None}
Active ==
    IF choice \in Known THEN choice
    ELSE IF DefaultProfile \in Known THEN DefaultProfile
    ELSE IF \E p \in Known : Known = {p} THEN CHOOSE p \in Known : TRUE
    ELSE None

(* A disconnect whose connect has ended runs before the next user gesture. *)
Drained == \A d \in Discs : ~(disc[d].pc = "waiting" /\ disc[d].waits = None)

(* The assumption SwitchDuringDisconnect lifts.                            *)
ActiveHolds ==
    \/ SwitchDuringDisconnect
    \/ Active' = Active
    \/ \A d \in Discs : disc[d].pc # "waiting"

-----------------------------------------------------------------------------
Init ==
    /\ choice \in Profiles \cup {None}
    /\ settings \in [Profiles -> Setting]
    /\ \A p \in Profiles : settings[p].context # None
                             => settings[p].context \in Offered[settings[p].endpoint]
    /\ edits = 0
    /\ live = [p \in Profiles |-> None]
    /\ connecting = [p \in Profiles |-> None]
    /\ generations = [p \in Profiles |-> None]
    /\ call = [c \in Calls |-> IdleCall]
    /\ disc = [d \in Discs |-> IdleDisc]
    /\ deleting = {}
    /\ binding = [p \in Profiles |-> None]
    /\ server = [s \in Sessions |-> [state |-> "unused", home |-> None]]
    /\ left = {}

-----------------------------------------------------------------------------
(* connect()                                                               *)

(* Fault: one connecting promise for the window, not one per profile.      *)
JoinAnyConnect(c) ==
    /\ call[c].pc = "idle" /\ Drained /\ Active # None
    /\ \E k \in Calls :
          /\ InFlight(k)
          /\ call' = [call EXCEPT ![c] = [IdleCall EXCEPT !.pc = "joined",
                                             !.lead = k, !.profile = Active]]
    /\ UNCHANGED <<user, live, connecting, generations, disc, deleting,
                   binding, server, left>>

(* A second connect for a profile awaits the one in flight for it.         *)
JoinConnect(c) ==
    /\ call[c].pc = "idle" /\ Drained
    /\ Active # None /\ connecting[Active] # None
    /\ call' = [call EXCEPT ![c] = [IdleCall EXCEPT !.pc = "joined",
                    !.lead = connecting[Active], !.profile = Active]]
    /\ UNCHANGED <<user, live, connecting, generations, disc, deleting,
                   binding, server, left>>

(* runConnect answers with the connection it holds, asking nobody.         *)
ReuseConnection(c) ==
    /\ call[c].pc = "idle" /\ Drained
    /\ Active # None /\ connecting[Active] = None /\ live[Active] # None
    /\ call' = [call EXCEPT ![c] = [IdleCall EXCEPT !.pc = "done",
                    !.profile = Active, !.result = live[Active]]]
    /\ UNCHANGED <<user, live, connecting, generations, disc, deleting,
                   binding, server, left>>

(* Fault: a connect leads although another is in flight for the profile.   *)
LeadBesides(c) ==
    /\ call[c].pc = "idle" /\ Drained
    /\ Active # None /\ live[Active] = None
    /\ call' = [call EXCEPT ![c] = [IdleCall EXCEPT !.pc = "auth",
                    !.profile = Active,
                    !.endpoint = settings[Active].endpoint,
                    !.context = settings[Active].context,
                    !.asked = settings[Active].context = None]]
    /\ connecting' = [connecting EXCEPT ![Active] = c]
    /\ UNCHANGED <<user, live, generations, disc, deleting, binding, server, left>>

(* Otherwise the call leads, on the profile as it reads it now.            *)
LeadConnect(c) ==
    /\ call[c].pc = "idle" /\ Drained
    /\ Active # None /\ connecting[Active] = None /\ live[Active] = None
    /\ call' = [call EXCEPT ![c] = [IdleCall EXCEPT !.pc = "auth",
                    !.profile = Active,
                    !.endpoint = settings[Active].endpoint,
                    !.context = settings[Active].context,
                    !.asked = settings[Active].context = None]]
    /\ connecting' = [connecting EXCEPT ![Active] = c]
    /\ UNCHANGED <<user, live, generations, disc, deleting, binding, server, left>>

(* Faults: a settled promise answers its leader alone; it releases nobody. *)
FinishAlone(c, result) ==
    /\ call' = [call EXCEPT ![c] = [IdleCall EXCEPT !.pc = "done",
                    !.profile = call[c].profile, !.result = result]]
    /\ connecting' = [connecting EXCEPT ![call[c].profile] = None]
    /\ disc' = [d \in Discs |-> [disc[d] EXCEPT
          !.waits = IF @ = c THEN None ELSE @, !.older = @ \ {c}]]
FinishUnheard(c, result) ==
    /\ call' = [call EXCEPT ![c] = [IdleCall EXCEPT !.pc = "done",
                    !.profile = call[c].profile, !.result = result]]
    /\ connecting' = [connecting EXCEPT ![call[c].profile] = None]
    /\ UNCHANGED disc

(* The leader's promise settles: everyone awaiting it gets the same answer *)
(* and connecting forgets it.                                              *)
Finish(c, result) ==
    /\ call' = [k \in Calls |->
          IF k = c \/ (call[k].pc = "joined" /\ call[k].lead = c)
          THEN [IdleCall EXCEPT !.pc = "done", !.profile = call[k].profile,
                                !.result = result]
          ELSE call[k]]
    /\ connecting' = [connecting EXCEPT ![call[c].profile] = None]
    /\ disc' = [d \in Discs |-> [disc[d] EXCEPT
          !.waits = IF @ = c THEN None ELSE @, !.older = @ \ {c}]]

(* The caller has its answer.                                              *)
Return(c) ==
    /\ call[c].pc = "done"
    /\ call' = [call EXCEPT ![c] = IdleCall]
    /\ UNCHANGED <<user, live, connecting, generations, disc, deleting,
                   binding, server, left>>

-----------------------------------------------------------------------------
(* runConnect(), open() and hold()                                         *)

Advance(c, phase) == call' = [call EXCEPT ![c].pc = phase]

(* Signed in as the account this profile uses.                             *)
SignedIn(c) ==
    /\ call[c].pc = "auth"
    /\ Advance(c, IF call[c].asked THEN "context" ELSE "open")
    /\ UNCHANGED <<user, live, connecting, generations, disc, deleting,
                   binding, server, left>>

(* The user picks one of the contexts the deployment lists.                *)
PickContext(c) ==
    /\ call[c].pc = "context"
    /\ \E x \in Offered[call[c].endpoint] :
          call' = [call EXCEPT ![c] = [@ EXCEPT !.pc = "open", !.context = x]]
    /\ UNCHANGED <<user, live, connecting, generations, disc, deleting,
                   binding, server, left>>

(* A connect that cannot go on: no sign-in, the wrong account, a dismissed *)
(* picker, a refused or cancelled request.  Nothing was created.           *)
GiveUp(c) ==
    /\ call[c].pc \in {"auth", "context", "attach", "resolve", "create"}
    /\ Finish(c, None)
    /\ UNCHANGED <<user, live, generations, deleting, binding, server, left>>

(* Fault: the binding's key forgets the profile.                           *)
OpenAnyStored(c) ==
    /\ call[c].pc = "open"
    /\ \E p \in Profiles :
          /\ binding[p] # None
          /\ call' = [call EXCEPT ![c] = [@ EXCEPT
                         !.pc = "attach", !.session = binding[p].session]]
    /\ UNCHANGED <<user, live, connecting, generations, disc, deleting,
                   binding, server, left>>

(* open() uses the remembered session when it was started on this context, *)
(* and forgets one that was started on another.                            *)
OpenStored(c) ==
    LET stored == binding[call[c].profile] IN
    /\ call[c].pc = "open" /\ stored # None
    /\ IF stored.context = call[c].context
       THEN /\ call' = [call EXCEPT ![c] = [@ EXCEPT
                             !.pc = "attach", !.session = stored.session]]
            /\ UNCHANGED <<binding, left>>
       ELSE /\ Advance(c, "resolve")
            /\ binding' = [binding EXCEPT ![call[c].profile] = None]
            /\ left' = left \cup {stored.session}
    /\ UNCHANGED <<user, live, connecting, generations, disc, deleting, server>>

OpenFresh(c) ==
    /\ call[c].pc = "open" /\ binding[call[c].profile] = None
    /\ Advance(c, "resolve")
    /\ UNCHANGED <<user, live, connecting, generations, disc, deleting,
                   binding, server, left>>

Attached(c) ==
    /\ call[c].pc = "attach" /\ AliveAt(call[c].session, call[c].endpoint)
    /\ Advance(c, "hold")
    /\ UNCHANGED <<user, live, connecting, generations, disc, deleting,
                   binding, server, left>>

(* A 404: the remembered session is not there, so a new one is started.    *)
AttachGone(c) ==
    /\ call[c].pc = "attach" /\ ~AliveAt(call[c].session, call[c].endpoint)
    /\ call' = [call EXCEPT ![c] = [@ EXCEPT !.pc = "resolve", !.session = None]]
    /\ binding' = [binding EXCEPT ![call[c].profile] = None]
    /\ left' = left \cup {call[c].session}
    /\ UNCHANGED <<user, live, connecting, generations, disc, deleting, server>>

Resolved(c) ==
    /\ call[c].pc = "resolve" /\ call[c].context \in Offered[call[c].endpoint]
    /\ Advance(c, "create")
    /\ UNCHANGED <<user, live, connecting, generations, disc, deleting,
                   binding, server, left>>

(* The deployment starts a session; its answer may be lost on the way, and *)
(* then nobody has its id.                                                 *)
Created(c) ==
    /\ call[c].pc = "create"
    /\ \E s \in Sessions :
          /\ server[s].state = "unused"
          /\ server' = [server EXCEPT ![s] = [state |-> "pending",
                                              home |-> call[c].endpoint]]
          /\ \/ /\ call' = [call EXCEPT ![c] = [@ EXCEPT !.pc = "settle", !.session = s]]
                /\ UNCHANGED <<connecting, disc, left>>
             \/ /\ Finish(c, None)
                /\ left' = left \cup {s}
    /\ UNCHANGED <<user, live, generations, deleting, binding>>

(* Fault: a settled session is held without being remembered.              *)
SettledUnbound(c) ==
    /\ call[c].pc = "settle" /\ server[call[c].session].state = "ready"
    /\ Advance(c, "hold")
    /\ UNCHANGED <<user, live, connecting, generations, disc, deleting,
                   binding, server, left>>

(* The session left pending: it is remembered before anything else is      *)
(* asked of it.                                                            *)
Settled(c) ==
    /\ call[c].pc = "settle" /\ server[call[c].session].state = "ready"
    /\ Advance(c, "hold")
    /\ binding' = [binding EXCEPT ![call[c].profile] =
                      [session |-> call[c].session, context |-> call[c].context]]
    /\ UNCHANGED <<user, live, connecting, generations, disc, deleting, server, left>>

(* Fault: a session that did not settle is not taken down.                 *)
NotSettledLeft(c) ==
    /\ call[c].pc = "settle"
    /\ Finish(c, None)
    /\ UNCHANGED <<user, live, generations, deleting, binding, server, left>>

(* It did not, or the wait failed or was cancelled: it is taken down, and  *)
(* nobody awaits that.                                                     *)
NotSettled(c) ==
    /\ call[c].pc = "settle"
    /\ deleting' = deleting \cup {call[c].session}
    /\ Finish(c, None)
    /\ UNCHANGED <<user, live, generations, binding, server, left>>

(* Fault: the cache is keyed on the profile alone.                         *)
CachedForProfile(p, e) == generations[p] # None

(* generationFor() answers from the cache only for the endpoint it was     *)
(* probed on; only a conclusive probe is kept.                             *)
CachedGeneration(p, e) == generations[p] = e

Hold(c) ==
    LET p == call[c].profile
        e == call[c].endpoint
        Conn(g) == [profile |-> p, endpoint |-> e, context |-> call[c].context,
                    session |-> call[c].session, generation |-> g]
    IN
    /\ call[c].pc = "hold"
    /\ \E g \in {e, None, generations[p]} :
          /\ IF CachedGeneration(p, e)
             THEN g = generations[p] /\ UNCHANGED generations
             ELSE /\ g \in {e, None}
                  /\ generations' = IF g = None THEN generations
                                    ELSE [generations EXCEPT ![p] = e]
          /\ live' = [live EXCEPT ![p] = Conn(g)]
          /\ call' = [call EXCEPT ![c] = [@ EXCEPT !.pc = "held", !.result = Conn(g)]]
    /\ UNCHANGED <<user, connecting, disc, deleting, binding, server, left>>

(* Fault: the profile is not compared with the one connected to.           *)
MayRememberBlindly(c) ==
    call[c].asked /\ settings[call[c].profile] # None

(* rememberContext() writes only over the profile that was connected to,   *)
(* still without a context of its own.                                     *)
MayRemember(c) ==
    LET current == settings[call[c].profile] IN
    /\ call[c].asked
    /\ current # None
    /\ current.endpoint = call[c].endpoint
    /\ current.context = None

(* upsert() reads every profile before it writes every profile.            *)
RememberContext(c) ==
    /\ call[c].pc = "held" /\ MayRemember(c)
    /\ call' = [call EXCEPT ![c] = [@ EXCEPT !.pc = "remember", !.upsert =
                  [settings EXCEPT ![call[c].profile].context = call[c].context]]]
    /\ UNCHANGED <<user, live, connecting, generations, disc, deleting,
                   binding, server, left>>

Connected(c) ==
    /\ call[c].pc = "held" /\ ~MayRemember(c)
    /\ Finish(c, call[c].result)
    /\ UNCHANGED <<user, live, generations, deleting, binding, server, left>>

(* The settings write lands, whatever was edited meanwhile; or it fails,   *)
(* and the connect rejects although the connection is held.                *)
Remembered(c) ==
    /\ call[c].pc = "remember"
    /\ \/ /\ settings' = call[c].upsert
          /\ Finish(c, call[c].result)
       \/ /\ Finish(c, None)
          /\ UNCHANGED settings
    /\ UNCHANGED <<choice, edits, live, generations, deleting, binding, server, left>>
    /\ ActiveHolds

-----------------------------------------------------------------------------
(* disconnect() and forget()                                               *)

(* Fault: no early return when there is nothing to delete.                 *)
EndsUnheld(d, p, older) ==
    /\ live' = [live EXCEPT ![p] = None]
    /\ binding' = [binding EXCEPT ![p] = None]
    /\ disc' = [disc EXCEPT ![d] = [pc |-> "deleting", waits |-> None,
                   profile |-> p, older |-> older,
                   session |-> IF live[p] = None THEN None ELSE live[p].session]]
    /\ UNCHANGED left

(* After the wait, the profile active now loses its connection and its     *)
(* binding in one step; a connection that was held is then deleted.        *)
EndsHeld(d, p, older) ==
    /\ live' = [live EXCEPT ![p] = None]
    /\ binding' = [binding EXCEPT ![p] = None]
    /\ IF live[p] # None
       THEN /\ disc' = [disc EXCEPT ![d] = [pc |-> "deleting", waits |-> None,
                           profile |-> p, session |-> live[p].session, older |-> older]]
            /\ UNCHANGED left
       ELSE /\ disc' = [disc EXCEPT ![d] = [pc |-> "told", waits |-> None,
                           profile |-> p, session |-> None, older |-> older]]
            /\ left' = left \cup {b.session : b \in {binding[p]} \ {None}}

(* Fault: the connect in flight is not waited for.                         *)
DisconnectAtOnce(d) ==
    /\ disc[d].pc = "idle" /\ Drained /\ Active # None
    /\ EndsHeld(d, Active, {c \in Calls : InFlight(c)})
    /\ UNCHANGED <<user, connecting, generations, call, deleting, server>>

StartDisconnect(d) ==
    LET older == {c \in Calls : InFlight(c)} IN
    /\ disc[d].pc = "idle" /\ Drained /\ Active # None
    /\ IF connecting[Active] # None
       THEN /\ disc' = [disc EXCEPT ![d] = [IdleDisc EXCEPT !.pc = "waiting",
                           !.waits = connecting[Active], !.older = older]]
            /\ UNCHANGED <<live, binding, left>>
       ELSE EndsHeld(d, Active, older)
    /\ UNCHANGED <<user, connecting, generations, call, deleting, server>>

(* The connect it waited for has settled; active is read again.            *)
ResumeDisconnect(d) ==
    /\ disc[d].pc = "waiting" /\ disc[d].waits = None
    /\ IF Active = None
       THEN /\ disc' = [disc EXCEPT ![d] = IdleDisc]
            /\ UNCHANGED <<live, binding, left>>
       ELSE EndsHeld(d, Active, disc[d].older)
    /\ UNCHANGED <<user, connecting, generations, call, deleting, server>>

(* A DELETE: the session ends, or the request fails and the reaper has it. *)
DeletedOrLeft(s) ==
    \/ /\ server' = [server EXCEPT ![s].state = "gone"]
       /\ UNCHANGED left
    \/ /\ left' = left \cup {s}
       /\ UNCHANGED server

SessionDeleted(d) ==
    /\ disc[d].pc = "deleting"
    /\ DeletedOrLeft(disc[d].session)
    /\ disc' = [disc EXCEPT ![d] = [@ EXCEPT !.pc = "told", !.session = None]]
    /\ UNCHANGED <<user, live, connecting, generations, call, deleting, binding>>

UnawaitedDelete(s) ==
    /\ s \in deleting
    /\ DeletedOrLeft(s)
    /\ deleting' = deleting \ {s}
    /\ UNCHANGED <<user, live, connecting, generations, call, disc, binding>>

ReturnDisconnect(d) ==
    /\ disc[d].pc = "told"
    /\ disc' = [disc EXCEPT ![d] = IdleDisc]
    /\ UNCHANGED <<user, live, connecting, generations, call, deleting,
                   binding, server, left>>

(* A run learned that the session is gone.                                 *)
Forget(p) ==
    /\ live[p] # None
    /\ live' = [live EXCEPT ![p] = None]
    /\ UNCHANGED <<user, connecting, generations, call, disc, deleting,
                   binding, server, left>>

-----------------------------------------------------------------------------
(* The user, the window and the deployment                                 *)

SwitchProfile(p) ==
    /\ Drained /\ choice # p
    /\ choice' = p
    /\ UNCHANGED <<settings, edits, memory, binding, server, left>>
    /\ ActiveHolds

(* An entry of the settings file is edited in place, or removed.           *)
EditProfile(p) ==
    /\ Drained /\ edits < MaxEdits
    /\ settings[p] # None
    /\ \E new \in Setting \cup {None} :
          /\ new # settings[p]
          /\ settings' = [settings EXCEPT ![p] = new]
    /\ edits' = edits + 1
    /\ UNCHANGED <<choice, memory, binding, server, left>>
    /\ ActiveHolds

(* The window reloads: nothing in memory survives, the binding does.       *)
OnlyInMemory(s) ==
    /\ Alive(s)
    /\ \A p \in Profiles : binding[p] # None => binding[p].session # s
    /\ \/ \E c \in Calls : InFlight(c) /\ call[c].session = s
       \/ \E d \in Discs : disc[d].session = s
       \/ s \in deleting

Reload ==
    /\ left' = left \cup {s \in Sessions : OnlyInMemory(s)}
    /\ live' = [p \in Profiles |-> None]
    /\ connecting' = [p \in Profiles |-> None]
    /\ generations' = [p \in Profiles |-> None]
    /\ call' = [c \in Calls |-> IdleCall]
    /\ disc' = [d \in Discs |-> IdleDisc]
    /\ deleting' = {}
    /\ UNCHANGED <<user, binding, server>>

SessionReady(s) ==
    /\ server[s].state = "pending"
    /\ server' = [server EXCEPT ![s].state = "ready"]
    /\ UNCHANGED <<user, memory, binding, left>>

(* The idle timeout, an administrator, or a failed launch.                 *)
SessionReaped(s) ==
    /\ Alive(s)
    /\ server' = [server EXCEPT ![s].state = "gone"]
    /\ UNCHANGED <<user, memory, binding, left>>

-----------------------------------------------------------------------------
ConnectStep(c) ==
    \/ GiveUp(c) \/ SignedIn(c) \/ PickContext(c)
    \/ OpenStored(c) \/ OpenFresh(c) \/ Attached(c) \/ AttachGone(c)
    \/ Resolved(c) \/ Created(c) \/ Settled(c) \/ NotSettled(c)
    \/ Hold(c) \/ RememberContext(c) \/ Connected(c) \/ Remembered(c)

DisconnectStep(d) ==
    \/ ResumeDisconnect(d) \/ SessionDeleted(d)

Next ==
    \/ \E c \in Calls :
          \/ JoinConnect(c) \/ ReuseConnection(c) \/ LeadConnect(c)
          \/ ConnectStep(c) \/ Return(c)
    \/ \E d \in Discs :
          \/ StartDisconnect(d) \/ DisconnectStep(d) \/ ReturnDisconnect(d)
    \/ \E p \in Profiles : Forget(p) \/ SwitchProfile(p) \/ EditProfile(p)
    \/ \E s \in Sessions :
          \/ UnawaitedDelete(s) \/ SessionReady(s) \/ SessionReaped(s)
    \/ Reload

Spec == Init /\ [][Next]_vars

(* Every request is answered or times out and every prompt is answered or  *)
(* dismissed, so a connect and a disconnect keep moving.                   *)
Fairness ==
    /\ \A c \in Calls : WF_vars(ConnectStep(c))
    /\ \A d \in Discs : WF_vars(DisconnectStep(d))

FairSpec == Spec /\ Fairness

-----------------------------------------------------------------------------
(* Properties                                                              *)

(* Every variable keeps to its range.                                      *)
TypeOK ==
    /\ choice \in Profiles \cup {None}
    /\ settings \in SettingsFile
    /\ edits \in 0..MaxEdits
    /\ live \in [Profiles -> Connection \cup {None}]
    /\ connecting \in [Profiles -> Calls \cup {None}]
    /\ generations \in [Profiles -> Endpoints \cup {None}]
    /\ call \in [Calls -> Call]
    /\ disc \in [Discs -> Disconnect]
    /\ deleting \in SUBSET Sessions
    /\ binding \in [Profiles -> Binding \cup {None}]
    /\ server \in [Sessions -> Server]
    /\ left \in SUBSET Sessions

(* A live connection is the one the workspace remembers, so a reload finds *)
(* it again: connect, forget, disconnect and edits never part the two.     *)
BindingMatchesLive ==
    \A p \in Profiles : live[p] # None =>
        /\ binding[p] # None
        /\ binding[p].session = live[p].session
        /\ binding[p].context = live[p].context

(* No compute session runs on that nothing refers to, unless the code lets *)
(* it go knowingly (history variable left): a second connect for a profile *)
(* would otherwise leave "a SAS process running that nothing holds a       *)
(* reference to".                                                          *)
Referred(s) ==
    \/ \E p \in Profiles : live[p] # None /\ live[p].session = s
    \/ \E p \in Profiles : binding[p] # None /\ binding[p].session = s
    \/ \E c \in Calls : InFlight(c) /\ call[c].session = s
    \/ \E d \in Discs : disc[d].session = s
    \/ s \in deleting
NoSilentOrphan == \A s \in Sessions : Alive(s) => Referred(s) \/ s \in left

(* What connect() answers with is a connection of the profile it was asked *)
(* for, also to a caller that joined another call.                         *)
ResultIsForAskedProfile ==
    \A c \in Calls : call[c].pc = "done" /\ call[c].result # None
                        => call[c].result.profile = call[c].profile

(* Once disconnect() has decided what it ends, no connect of that profile  *)
(* that was under way when it was asked can still come up behind it.       *)
DisconnectSticks ==
    \A d \in Discs : disc[d].pc \in {"deleting", "told"} =>
        \A c \in disc[d].older : call[c].profile # disc[d].profile

(* The dialect a connection speaks was probed on the deployment it talks   *)
(* to, or assumed; never remembered from the one the profile used to name. *)
GenerationFitsEndpoint ==
    \A p \in Profiles : live[p] # None =>
        live[p].generation \in {None, live[p].endpoint}

(* A context is written back only under a deployment that lists it.        *)
RememberedContextOffered ==
    \A c \in Calls : call[c].pc = "remember" =>
        LET written == call[c].upsert[call[c].profile] IN
        written.context \in Offered[written.endpoint]

(* What is cached and what is written back fits the deployment it is used   *)
(* against, whatever was edited while it was asked for.                     *)
KnownFitsEndpoint == GenerationFitsEndpoint /\ RememberedContextOffered

(* No connect replaces a connection that is held: one goes before another  *)
(* comes.                                                                  *)
NeverOverwritten ==
    [][\A p \in Profiles : live[p] # None /\ live'[p] # None
                               => live'[p] = live[p]]_vars

(* Every connect() settles, those that joined another's included.          *)
ConnectSettles ==
    \A c \in Calls : (InFlight(c) \/ call[c].pc = "joined")
                         ~> call[c].pc \in {"done", "idle"}

(* Every disconnect() settles: waiting for a connect never hangs it.       *)
DisconnectSettles ==
    \A d \in Discs : disc[d].pc \in {"waiting", "deleting"}
                         ~> disc[d].pc \in {"told", "idle"}

(* Every command of the manager comes to its answer.                       *)
EveryCallSettles == ConnectSettles /\ DisconnectSettles

-----------------------------------------------------------------------------
(* What callers see of it is ConnectionService.                            *)
SessionOf(x) == IF x = None THEN None ELSE x.session

Service == INSTANCE ConnectionService WITH
    current <- [p \in Profiles |-> SessionOf(live[p])],
    remembered <- [p \in Profiles |-> SessionOf(binding[p])]

(* Under all the awaits, cancellations, joins and settings edits, a caller *)
(* sees sessions come and go one at a time per profile, never two profiles *)
(* on one session.                                                         *)
ImplementsService == Service!Spec
=============================================================================
