------------------------ MODULE SessionManagerProofs ------------------------
(* Theorems about SessionManager for every set of profiles, deployments,   *)
(* sessions and callers.                                                   *)
EXTENDS SessionManager, TLAPS

-----------------------------------------------------------------------------
(* Types.  What a connect has read and been given at each of its phases.   *)
RecordOK(r) ==
    /\ r.pc # "idle" => r.profile \in Profiles
    /\ r.pc \in Phases => r.endpoint \in Endpoints
    /\ r.pc = "auth" /\ ~r.asked => r.context \in Contexts
    /\ r.pc \in Phases \ {"auth", "context"} => r.context \in Contexts
    /\ r.pc \in {"attach", "settle", "hold", "held", "remember"}
          => r.session \in Sessions
    /\ r.pc = "remember" => r.upsert \in SettingsFile

CallsOK == \A c \in Calls : RecordOK(call[c])
DiscsOK == \A d \in Discs :
              disc[d].pc = "deleting" => disc[d].session \in Sessions

TypeInv == TypeOK /\ CallsOK /\ DiscsOK

(* The profile the window uses is one the settings have.                   *)
LEMMA ActiveKnown ==
    ASSUME TypeOK, Active # None
    PROVE  Active \in Profiles /\ settings[Active] \in Setting
<1>1. CASE choice \in Known
  BY <1>1 DEF Active, Known, TypeOK, SettingsFile
<1>2. CASE choice \notin Known /\ DefaultProfile \in Known
  BY <1>2 DEF Active, Known, TypeOK, SettingsFile
<1>3. CASE choice \notin Known /\ DefaultProfile \notin Known
  <2>1. PICK p \in Known : Known = {p}
    BY <1>3 DEF Active
  <2>2. Active \in Known
    BY <1>3, <2>1 DEF Active
  <2>3. QED
    BY <2>2 DEF Known, TypeOK, SettingsFile
<1>4. QED
  BY <1>1, <1>2, <1>3

(* A step that gives one call a new record keeps the table in its range.   *)
LEMMA SetCall ==
    ASSUME TypeInv, NEW c \in Calls, NEW new \in Call, RecordOK(new),
           call' = [call EXCEPT ![c] = new]
    PROVE  call' \in [Calls -> Call] /\ CallsOK'
<1>1. call \in [Calls -> Call]
  BY DEF TypeInv, TypeOK
<1>2. \A k \in Calls : call'[k] = new \/ call'[k] = call[k]
  BY <1>1
<1>3. ASSUME NEW k \in Calls PROVE RecordOK(call'[k])
  BY <1>2, <1>3 DEF TypeInv, CallsOK
<1>4. QED
  BY <1>1, <1>3 DEF CallsOK, RecordOK

(* So does a promise that settles: the calls it answers are done.          *)
LEMMA FinishType ==
    ASSUME TypeInv, NEW c \in Calls, InFlight(c),
           NEW result \in Connection \cup {None}, Finish(c, result)
    PROVE  /\ call' \in [Calls -> Call]
           /\ connecting' \in [Profiles -> Calls \cup {None}]
           /\ disc' \in [Discs -> Disconnect]
           /\ CallsOK' /\ DiscsOK'
<1>1. \A k \in Calls : call[k] \in Call
  BY DEF TypeInv, TypeOK
<1>2. \A d \in Discs : disc[d] \in Disconnect
  BY DEF TypeInv, TypeOK
<1>3. call' \in [Calls -> Call]
  BY <1>1 DEF Finish, Call, IdleCall, Phases
<1>4. connecting' \in [Profiles -> Calls \cup {None}]
  BY DEF Finish, TypeInv, TypeOK
<1>5. disc' \in [Discs -> Disconnect]
  BY <1>2 DEF Finish, Disconnect
<1>6. CallsOK'
  BY <1>1 DEF Finish, TypeInv, CallsOK, RecordOK, InFlight, IdleCall, Phases
<1>7. DiscsOK'
  BY <1>2 DEF Finish, TypeInv, DiscsOK, Disconnect
<1>8. QED
  BY <1>3, <1>4, <1>5, <1>6, <1>7

(* The steps of connect() up to the point where a call leads.              *)
LEMMA ConnectType ==
    ASSUME TypeInv, NEW c \in Calls,
           JoinConnect(c) \/ ReuseConnection(c) \/ LeadConnect(c) \/ Return(c)
    PROVE  TypeInv'
<1>1. CASE JoinConnect(c)
  <2> DEFINE new == [IdleCall EXCEPT !.pc = "joined",
                        !.lead = connecting[Active], !.profile = Active]
  <2>1. new \in Call /\ RecordOK(new)
    BY <1>1, ActiveKnown
    DEF JoinConnect, TypeInv, TypeOK, Call, IdleCall, RecordOK, Phases
  <2>2. call' \in [Calls -> Call] /\ CallsOK'
    <3>1. call' = [call EXCEPT ![c] = new]
      BY <1>1 DEF JoinConnect
    <3>2. QED
      BY <2>1, <3>1, SetCall
  <2>3. QED
    BY <1>1, <2>2 DEF JoinConnect, TypeInv, TypeOK, DiscsOK, user
<1>2. CASE ReuseConnection(c)
  <2> DEFINE new == [IdleCall EXCEPT !.pc = "done", !.profile = Active,
                                     !.result = live[Active]]
  <2>1. new \in Call /\ RecordOK(new)
    BY <1>2, ActiveKnown
    DEF ReuseConnection, TypeInv, TypeOK, Call, IdleCall, RecordOK, Phases
  <2>2. call' \in [Calls -> Call] /\ CallsOK'
    <3>1. call' = [call EXCEPT ![c] = new]
      BY <1>2 DEF ReuseConnection
    <3>2. QED
      BY <2>1, <3>1, SetCall
  <2>3. QED
    BY <1>2, <2>2 DEF ReuseConnection, TypeInv, TypeOK, DiscsOK, user
<1>3. CASE LeadConnect(c)
  <2> DEFINE new == [IdleCall EXCEPT !.pc = "auth", !.profile = Active,
                        !.endpoint = settings[Active].endpoint,
                        !.context = settings[Active].context,
                        !.asked = settings[Active].context = None]
  <2>1. new \in Call /\ RecordOK(new)
    BY <1>3, ActiveKnown
    DEF LeadConnect, TypeInv, TypeOK, Call, IdleCall, RecordOK, Phases, Setting
  <2>2. call' \in [Calls -> Call] /\ CallsOK'
    <3>1. call' = [call EXCEPT ![c] = new]
      BY <1>3 DEF LeadConnect
    <3>2. QED
      BY <2>1, <3>1, SetCall
  <2>3. QED
    BY <1>3, <2>2 DEF LeadConnect, TypeInv, TypeOK, DiscsOK, user
<1>4. CASE Return(c)
  <2>1. IdleCall \in Call /\ RecordOK(IdleCall)
    BY DEF Call, IdleCall, RecordOK, Phases
  <2>2. call' \in [Calls -> Call] /\ CallsOK'
    <3>1. call' = [call EXCEPT ![c] = IdleCall]
      BY <1>4 DEF Return
    <3>2. QED
      BY <2>1, <3>1, SetCall
  <2>3. QED
    BY <1>4, <2>2 DEF Return, TypeInv, TypeOK, DiscsOK, user
<1>5. QED
  BY <1>1, <1>2, <1>3, <1>4

(* The steps of a connect in flight that do not settle it.                 *)
LEMMA FlightType ==
    ASSUME TypeInv, NEW c \in Calls,
           \/ SignedIn(c) \/ PickContext(c) \/ OpenStored(c) \/ OpenFresh(c)
           \/ Attached(c) \/ AttachGone(c) \/ Resolved(c) \/ Settled(c)
           \/ RememberContext(c)
    PROVE  TypeInv'
<1>0. call[c] \in Call /\ RecordOK(call[c])
  BY DEF TypeInv, TypeOK, CallsOK
<1>1. CASE SignedIn(c)
  <2> DEFINE new == [call[c] EXCEPT !.pc = IF call[c].asked THEN "context" ELSE "open"]
  <2>1. new \in Call /\ RecordOK(new)
    BY <1>0, <1>1
    DEF SignedIn, Call, RecordOK, Phases
  <2>2. call' = [call EXCEPT ![c] = new]
    BY <1>1 DEF SignedIn, Advance
  <2>3. call' \in [Calls -> Call] /\ CallsOK'
    BY <2>1, <2>2, SetCall
  <2>4. QED
    BY <1>0, <1>1, <2>3 DEF SignedIn, TypeInv, TypeOK, DiscsOK, user
<1>2. CASE PickContext(c)
  <2>1. PICK x \in Offered[call[c].endpoint] :
           call' = [call EXCEPT ![c] = [@ EXCEPT !.pc = "open", !.context = x]]
    BY <1>2 DEF PickContext
  <2> DEFINE new == [call[c] EXCEPT !.pc = "open", !.context = x]
  <2>2. x \in Contexts
    BY <1>0, <1>2, ConstantsAssumption DEF PickContext, RecordOK, Phases
  <2>3. new \in Call /\ RecordOK(new)
    BY <1>0, <1>2, <2>2 DEF PickContext, Call, RecordOK, Phases
  <2>4. call' = [call EXCEPT ![c] = new]
    BY <2>1
  <2>5. call' \in [Calls -> Call] /\ CallsOK'
    BY <2>3, <2>4, SetCall
  <2>6. QED
    BY <1>2, <2>5 DEF PickContext, TypeInv, TypeOK, DiscsOK, user
<1>3. CASE OpenStored(c)
  <2>1. binding[call[c].profile] \in Binding
    BY <1>0, <1>3 DEF OpenStored, TypeInv, TypeOK, RecordOK, Phases
  <2>2. CASE binding[call[c].profile].context = call[c].context
    <3> DEFINE new == [call[c] EXCEPT !.pc = "attach",
                          !.session = binding[call[c].profile].session]
    <3>1. new \in Call /\ RecordOK(new)
      BY <1>0, <1>3, <2>1 DEF OpenStored, Call, RecordOK, Phases, Binding
    <3>2. call' = [call EXCEPT ![c] = new]
      BY <1>3, <2>2 DEF OpenStored
    <3>3. call' \in [Calls -> Call] /\ CallsOK'
      BY <3>1, <3>2, SetCall
    <3>4. QED
      BY <1>3, <2>2, <3>3 DEF OpenStored, TypeInv, TypeOK, DiscsOK, user
  <2>3. CASE binding[call[c].profile].context # call[c].context
    <3> DEFINE new == [call[c] EXCEPT !.pc = "resolve"]
    <3>1. new \in Call /\ RecordOK(new)
      BY <1>0, <1>3 DEF OpenStored, Call, RecordOK, Phases
    <3>2. call' = [call EXCEPT ![c] = new]
      BY <1>3, <2>3 DEF OpenStored, Advance
    <3>3. call' \in [Calls -> Call] /\ CallsOK'
      BY <3>1, <3>2, SetCall
    <3>4. QED
      BY <1>0, <1>3, <2>1, <2>3, <3>3
      DEF OpenStored, TypeInv, TypeOK, DiscsOK, user, Binding
  <2>4. QED
    BY <2>2, <2>3
<1>4. CASE OpenFresh(c)
  <2> DEFINE new == [call[c] EXCEPT !.pc = "resolve"]
  <2>1. new \in Call /\ RecordOK(new)
    BY <1>0, <1>4
    DEF OpenFresh, Call, RecordOK, Phases
  <2>2. call' = [call EXCEPT ![c] = new]
    BY <1>4 DEF OpenFresh, Advance
  <2>3. call' \in [Calls -> Call] /\ CallsOK'
    BY <2>1, <2>2, SetCall
  <2>4. QED
    BY <1>0, <1>4, <2>3 DEF OpenFresh, TypeInv, TypeOK, DiscsOK, user
<1>5. CASE Attached(c)
  <2> DEFINE new == [call[c] EXCEPT !.pc = "hold"]
  <2>1. new \in Call /\ RecordOK(new)
    BY <1>0, <1>5
    DEF Attached, Call, RecordOK, Phases
  <2>2. call' = [call EXCEPT ![c] = new]
    BY <1>5 DEF Attached, Advance
  <2>3. call' \in [Calls -> Call] /\ CallsOK'
    BY <2>1, <2>2, SetCall
  <2>4. QED
    BY <1>0, <1>5, <2>3 DEF Attached, TypeInv, TypeOK, DiscsOK, user
<1>6. CASE AttachGone(c)
  <2> DEFINE new == [call[c] EXCEPT !.pc = "resolve", !.session = None]
  <2>1. new \in Call /\ RecordOK(new)
    BY <1>0, <1>6
    DEF AttachGone, Call, RecordOK, Phases
  <2>2. call' = [call EXCEPT ![c] = new]
    BY <1>6 DEF AttachGone, Advance
  <2>3. call' \in [Calls -> Call] /\ CallsOK'
    BY <2>1, <2>2, SetCall
  <2>4. QED
    BY <1>0, <1>6, <2>3 DEF AttachGone, TypeInv, TypeOK, DiscsOK, user, RecordOK
<1>7. CASE Resolved(c)
  <2> DEFINE new == [call[c] EXCEPT !.pc = "create"]
  <2>1. new \in Call /\ RecordOK(new)
    BY <1>0, <1>7
    DEF Resolved, Call, RecordOK, Phases
  <2>2. call' = [call EXCEPT ![c] = new]
    BY <1>7 DEF Resolved, Advance
  <2>3. call' \in [Calls -> Call] /\ CallsOK'
    BY <2>1, <2>2, SetCall
  <2>4. QED
    BY <1>0, <1>7, <2>3 DEF Resolved, TypeInv, TypeOK, DiscsOK, user
<1>8. CASE Settled(c)
  <2> DEFINE new == [call[c] EXCEPT !.pc = "hold"]
  <2>1. new \in Call /\ RecordOK(new)
    BY <1>0, <1>8
    DEF Settled, Call, RecordOK, Phases
  <2>2. call' = [call EXCEPT ![c] = new]
    BY <1>8 DEF Settled, Advance
  <2>3. call' \in [Calls -> Call] /\ CallsOK'
    BY <2>1, <2>2, SetCall
  <2>4. QED
    BY <1>0, <1>8, <2>3 DEF Settled, TypeInv, TypeOK, DiscsOK, user, RecordOK, Binding, Phases
<1>9. CASE RememberContext(c)
  <2> DEFINE p == call[c].profile
             file == [settings EXCEPT ![p].context = call[c].context]
             new == [call[c] EXCEPT !.pc = "remember", !.upsert = file]
  <2>1. p \in Profiles /\ call[c].context \in Contexts /\ settings[p] \in Setting
    BY <1>0, <1>9
    DEF RememberContext, MayRemember, RecordOK, Phases, TypeInv, TypeOK, SettingsFile
  <2>2. [settings[p] EXCEPT !.context = call[c].context] \in Setting
    BY <2>1 DEF Setting
  <2>3. file = [settings EXCEPT ![p] = [settings[p] EXCEPT !.context = call[c].context]]
    OBVIOUS
  <2>4. file \in SettingsFile
    BY <2>2, <2>3 DEF TypeInv, TypeOK, SettingsFile
  <2> HIDE DEF file
  <2>5. new \in Call /\ RecordOK(new)
    BY <1>0, <1>9, <2>4 DEF RememberContext, Call, RecordOK, Phases
  <2>6. call' = [call EXCEPT ![c] = new]
    BY <1>9 DEF RememberContext, file
  <2>7. call' \in [Calls -> Call] /\ CallsOK'
    BY <2>5, <2>6, SetCall
  <2>8. QED
    BY <1>9, <2>7 DEF RememberContext, TypeInv, TypeOK, DiscsOK, user
<1>10. QED
  BY <1>1, <1>2, <1>3, <1>4, <1>5, <1>6, <1>7, <1>8, <1>9

(* Holding a connection.                                                   *)
LEMMA HoldType ==
    ASSUME TypeInv, NEW c \in Calls, Hold(c)
    PROVE  TypeInv'
<1>0. /\ call[c] \in Call /\ RecordOK(call[c]) /\ call[c].pc = "hold"
      /\ call[c].profile \in Profiles /\ call[c].endpoint \in Endpoints
      /\ call[c].context \in Contexts /\ call[c].session \in Sessions
  BY DEF TypeInv, TypeOK, CallsOK, Hold, RecordOK, Phases
<1> DEFINE Conn(g) == [profile |-> call[c].profile, endpoint |-> call[c].endpoint,
                       context |-> call[c].context, session |-> call[c].session,
                       generation |-> g]
<1>1. PICK g \in {call[c].endpoint, None, generations[call[c].profile]} :
         /\ live' = [live EXCEPT ![call[c].profile] = Conn(g)]
         /\ call' = [call EXCEPT ![c] = [@ EXCEPT !.pc = "held", !.result = Conn(g)]]
         /\ \/ generations' = generations
            \/ generations' = [generations EXCEPT ![call[c].profile] = call[c].endpoint]
  BY DEF Hold
<1>2. Conn(g) \in Connection
  BY <1>0 DEF Connection, TypeInv, TypeOK
<1> DEFINE new == [call[c] EXCEPT !.pc = "held", !.result = Conn(g)]
<1> HIDE DEF Conn
<1>3. new \in Call /\ RecordOK(new)
  BY <1>0, <1>2 DEF Call, RecordOK, Phases
<1>4. call' = [call EXCEPT ![c] = new]
  BY <1>1
<1>5. call' \in [Calls -> Call] /\ CallsOK'
  BY <1>3, <1>4, SetCall
<1>6. QED
  BY <1>0, <1>1, <1>2, <1>5 DEF Hold, TypeInv, TypeOK, DiscsOK, user

(* The steps in which a promise settles.                                   *)
LEMMA SettlingType ==
    ASSUME TypeInv, NEW c \in Calls,
           \/ GiveUp(c) \/ Created(c) \/ NotSettled(c)
           \/ Connected(c) \/ Remembered(c)
    PROVE  TypeInv'
<1>0. /\ call[c] \in Call /\ RecordOK(call[c])
      /\ call[c].result \in Connection \cup {None}
      /\ call[c].pc \in Phases
  BY DEF TypeInv, TypeOK, CallsOK, Call, GiveUp, Created, NotSettled,
         Connected, Remembered, Phases
<1>1. CASE \E result \in Connection \cup {None} : Finish(c, result)
  <2>1. /\ call' \in [Calls -> Call]
        /\ connecting' \in [Profiles -> Calls \cup {None}]
        /\ disc' \in [Discs -> Disconnect]
        /\ CallsOK' /\ DiscsOK'
    BY <1>0, <1>1, FinishType DEF InFlight
  <2>2. CASE GiveUp(c)
    BY <2>1, <2>2 DEF GiveUp, TypeInv, TypeOK, user
  <2>3. CASE Created(c)
    <3>1. PICK s \in Sessions :
             /\ server' = [server EXCEPT ![s] = [state |-> "pending",
                                                 home |-> call[c].endpoint]]
             /\ left' = left \/ left' = left \cup {s}
      BY <2>3 DEF Created
    <3>2. server' \in [Sessions -> Server]
      BY <1>0, <2>3, <3>1
      DEF Created, TypeInv, TypeOK, Server, RecordOK, Phases
    <3>3. QED
      BY <2>1, <2>3, <3>1, <3>2 DEF Created, TypeInv, TypeOK, user
  <2>4. CASE NotSettled(c)
    BY <1>0, <2>1, <2>4 DEF NotSettled, TypeInv, TypeOK, user, RecordOK
  <2>5. CASE Connected(c)
    BY <2>1, <2>5 DEF Connected, TypeInv, TypeOK, user
  <2>6. CASE Remembered(c)
    BY <1>0, <2>1, <2>6 DEF Remembered, TypeInv, TypeOK, RecordOK
  <2>7. QED
    BY <2>2, <2>3, <2>4, <2>5, <2>6
<1>2. CASE \A result \in Connection \cup {None} : ~Finish(c, result)
  <2>1. Created(c)
    BY <1>0, <1>2 DEF GiveUp, Created, NotSettled, Connected, Remembered
  <2>2. PICK s \in Sessions :
           /\ server' = [server EXCEPT ![s] = [state |-> "pending",
                                               home |-> call[c].endpoint]]
           /\ call' = [call EXCEPT ![c] = [@ EXCEPT !.pc = "settle", !.session = s]]
           /\ UNCHANGED <<connecting, disc, left>>
    BY <1>2, <2>1 DEF Created
  <2>3. server' \in [Sessions -> Server]
    BY <1>0, <2>1, <2>2 DEF Created, TypeInv, TypeOK, Server, RecordOK, Phases
  <2> DEFINE new == [call[c] EXCEPT !.pc = "settle", !.session = s]
  <2>4. new \in Call /\ RecordOK(new)
    BY <1>0, <2>1 DEF Created, Call, RecordOK, Phases
  <2>5. call' = [call EXCEPT ![c] = new]
    BY <2>2
  <2>6. call' \in [Calls -> Call] /\ CallsOK'
    BY <2>4, <2>5, SetCall
  <2>7. QED
    BY <2>1, <2>2, <2>3, <2>6 DEF Created, TypeInv, TypeOK, DiscsOK, user
<1>3. QED
  BY <1>1, <1>2

(* disconnect().                                                           *)
LEMMA EndsHeldType ==
    ASSUME TypeInv, NEW d \in Discs, NEW p \in Profiles,
           NEW older \in SUBSET Calls, EndsHeld(d, p, older)
    PROVE  /\ live' \in [Profiles -> Connection \cup {None}]
           /\ binding' \in [Profiles -> Binding \cup {None}]
           /\ disc' \in [Discs -> Disconnect] /\ DiscsOK'
           /\ left' \in SUBSET Sessions
<1>1. CASE live[p] # None
  <2> DEFINE new == [pc |-> "deleting", waits |-> None, profile |-> p,
                     session |-> live[p].session, older |-> older]
  <2>1. new \in Disconnect /\ new.session \in Sessions
    BY <1>1 DEF TypeInv, TypeOK, Connection, Disconnect
  <2>2. disc' = [disc EXCEPT ![d] = new] /\ UNCHANGED left
    BY <1>1 DEF EndsHeld
  <2>3. QED
    BY <2>1, <2>2 DEF EndsHeld, TypeInv, TypeOK, DiscsOK
<1>2. CASE live[p] = None
  <2> DEFINE new == [pc |-> "told", waits |-> None, profile |-> p,
                     session |-> None, older |-> older]
  <2>1. new \in Disconnect
    BY DEF Disconnect
  <2>2. /\ disc' = [disc EXCEPT ![d] = new]
        /\ left' = left \cup {b.session : b \in {binding[p]} \ {None}}
    BY <1>2 DEF EndsHeld
  <2>3. left' \in SUBSET Sessions
    BY <2>2 DEF TypeInv, TypeOK, Binding
  <2>4. QED
    BY <2>1, <2>2, <2>3 DEF EndsHeld, TypeInv, TypeOK, DiscsOK
<1>3. QED
  BY <1>1, <1>2

LEMMA DisconnectType ==
    ASSUME TypeInv, NEW d \in Discs,
           \/ StartDisconnect(d) \/ ResumeDisconnect(d)
           \/ SessionDeleted(d) \/ ReturnDisconnect(d)
    PROVE  TypeInv'
<1>0. disc[d] \in Disconnect
  BY DEF TypeInv, TypeOK
<1>1. IdleDisc \in Disconnect
  BY DEF IdleDisc, Disconnect
<1>2. CASE StartDisconnect(d)
  <2> DEFINE older == {c \in Calls : InFlight(c)}
  <2>1. Active \in Profiles
    BY <1>2, ActiveKnown DEF StartDisconnect, TypeInv
  <2>2. CASE connecting[Active] # None
    <3> DEFINE new == [IdleDisc EXCEPT !.pc = "waiting",
                          !.waits = connecting[Active], !.older = older]
    <3>1. new \in Disconnect
      BY <2>1, <2>2 DEF TypeInv, TypeOK, Disconnect, IdleDisc
    <3>2. disc' = [disc EXCEPT ![d] = new] /\ UNCHANGED <<live, binding, left>>
      BY <1>2, <2>2 DEF StartDisconnect
    <3>3. new.pc = "waiting"
      BY DEF IdleDisc
    <3> HIDE DEF new
    <3>4. QED
      BY <1>2, <3>1, <3>2, <3>3
      DEF StartDisconnect, TypeInv, TypeOK, CallsOK, DiscsOK, user
  <2>3. CASE EndsHeld(d, Active, older)
    <3>1. /\ live' \in [Profiles -> Connection \cup {None}]
          /\ binding' \in [Profiles -> Binding \cup {None}]
          /\ disc' \in [Discs -> Disconnect] /\ DiscsOK'
          /\ left' \in SUBSET Sessions
      BY <2>1, <2>3, EndsHeldType
    <3>2. QED
      BY <1>2, <3>1 DEF StartDisconnect, TypeInv, TypeOK, CallsOK, user
  <2>4. QED
    BY <1>2, <2>2, <2>3 DEF StartDisconnect
<1>3. CASE ResumeDisconnect(d)
  <2>1. CASE Active = None
    <3>1. /\ disc' = [disc EXCEPT ![d] = IdleDisc]
          /\ UNCHANGED <<live, binding, left>>
      BY <1>3, <2>1 DEF ResumeDisconnect
    <3>2. disc' \in [Discs -> Disconnect] /\ DiscsOK'
      <4>1. IdleDisc.pc = "idle"
        BY DEF IdleDisc
      <4>2. QED
        BY <1>1, <3>1, <4>1 DEF TypeInv, TypeOK, DiscsOK
    <3>3. QED
      BY <1>3, <3>1, <3>2 DEF ResumeDisconnect, TypeInv, TypeOK, CallsOK, user
  <2>2. CASE Active # None
    <3>1. Active \in Profiles
      BY <2>2, ActiveKnown DEF TypeInv
    <3>2. EndsHeld(d, Active, disc[d].older) /\ disc[d].older \in SUBSET Calls
      BY <1>0, <1>3, <2>2 DEF ResumeDisconnect, Disconnect
    <3>3. /\ live' \in [Profiles -> Connection \cup {None}]
          /\ binding' \in [Profiles -> Binding \cup {None}]
          /\ disc' \in [Discs -> Disconnect] /\ DiscsOK'
          /\ left' \in SUBSET Sessions
      BY <3>1, <3>2, EndsHeldType
    <3>4. QED
      BY <1>3, <3>3 DEF ResumeDisconnect, TypeInv, TypeOK, CallsOK, user
  <2>3. QED
    BY <2>1, <2>2
<1>4. CASE SessionDeleted(d)
  <2> DEFINE new == [disc[d] EXCEPT !.pc = "told", !.session = None]
  <2>1. new \in Disconnect /\ new.pc = "told"
    BY <1>0 DEF Disconnect
  <2>2. disc' = [disc EXCEPT ![d] = new]
    BY <1>4 DEF SessionDeleted
  <2>3. disc[d].session \in Sessions
    BY <1>4 DEF SessionDeleted, TypeInv, DiscsOK
  <2>4. server' \in [Sessions -> Server] /\ left' \in SUBSET Sessions
    BY <1>4, <2>3 DEF SessionDeleted, DeletedOrLeft, TypeInv, TypeOK, Server
  <2> HIDE DEF new
  <2>5. QED
    BY <1>4, <2>1, <2>2, <2>4
    DEF SessionDeleted, TypeInv, TypeOK, CallsOK, DiscsOK, user
<1>5. CASE ReturnDisconnect(d)
  BY <1>1, <1>5
  DEF ReturnDisconnect, TypeInv, TypeOK, CallsOK, DiscsOK, user, IdleDisc
<1>6. QED
  BY <1>2, <1>3, <1>4, <1>5

(* The user, the window and the deployment.                                *)
LEMMA EnvironmentType ==
    ASSUME TypeInv,
           \/ \E p \in Profiles : Forget(p) \/ SwitchProfile(p) \/ EditProfile(p)
           \/ \E s \in Sessions :
                 UnawaitedDelete(s) \/ SessionReady(s) \/ SessionReaped(s)
           \/ Reload
    PROVE  TypeInv'
<1> USE DEF TypeInv
<1>1. ASSUME NEW p \in Profiles, Forget(p) PROVE TypeInv'
  BY <1>1 DEF Forget, TypeOK, CallsOK, DiscsOK, user
<1>2. ASSUME NEW p \in Profiles, SwitchProfile(p) PROVE TypeInv'
  BY <1>2 DEF SwitchProfile, TypeOK, CallsOK, DiscsOK, memory
<1>3. ASSUME NEW p \in Profiles, EditProfile(p) PROVE TypeInv'
  <2>1. settings' \in SettingsFile
    BY <1>3 DEF EditProfile, TypeOK, SettingsFile
  <2>2. edits' \in 0..MaxEdits
    BY <1>3, ConstantsAssumption DEF EditProfile, TypeOK
  <2>3. QED
    BY <1>3, <2>1, <2>2 DEF EditProfile, TypeOK, CallsOK, DiscsOK, memory
<1>4. ASSUME NEW s \in Sessions, UnawaitedDelete(s) PROVE TypeInv'
  BY <1>4 DEF UnawaitedDelete, DeletedOrLeft, TypeOK, Server, CallsOK, DiscsOK, user
<1>5. ASSUME NEW s \in Sessions, SessionReady(s) PROVE TypeInv'
  BY <1>5 DEF SessionReady, TypeOK, Server, CallsOK, DiscsOK, user, memory
<1>6. ASSUME NEW s \in Sessions, SessionReaped(s) PROVE TypeInv'
  BY <1>6 DEF SessionReaped, TypeOK, Server, CallsOK, DiscsOK, user, memory
<1>7. CASE Reload
  <2>1. IdleCall \in Call /\ RecordOK(IdleCall) /\ IdleDisc \in Disconnect
    BY DEF Call, IdleCall, RecordOK, Phases, IdleDisc, Disconnect
  <2>2. QED
    BY <1>7, <2>1 DEF Reload, TypeOK, CallsOK, DiscsOK, user, IdleDisc
<1>8. QED
  BY <1>1, <1>2, <1>3, <1>4, <1>5, <1>6, <1>7

LEMMA StutterType ==
    ASSUME TypeInv, UNCHANGED vars
    PROVE  TypeInv'
BY DEF TypeInv, TypeOK, CallsOK, DiscsOK, vars

LEMMA InitType == Init => TypeInv
<1>1. IdleCall \in Call /\ RecordOK(IdleCall) /\ IdleDisc \in Disconnect
  BY DEF Call, IdleCall, RecordOK, Phases, IdleDisc, Disconnect
<1>2. QED
  BY <1>1, ConstantsAssumption
  DEF Init, TypeInv, TypeOK, CallsOK, DiscsOK, SettingsFile, Server, IdleDisc

LEMMA NextType == TypeInv /\ [Next]_vars => TypeInv'
  BY ConnectType, FlightType, HoldType, SettlingType, DisconnectType,
     EnvironmentType, StutterType DEF Next, ConnectStep, DisconnectStep

(* Every table of the session manager keeps its shape, and a connect has   *)
(* at each phase read what the next one uses.                              *)
THEOREM TypeCorrect == Spec => []TypeOK
<1>1. Spec => []TypeInv
  BY InitType, NextType, PTL DEF Spec
<1>2. TypeInv => TypeOK
  BY DEF TypeInv
<1>3. QED
  BY <1>1, <1>2, PTL

-----------------------------------------------------------------------------
(* Single flight.  connecting names the one connect in flight for a        *)
(* profile, and until that connect holds its connection there is none.     *)
Leads == \A c \in Calls : InFlight(c) => connecting[call[c].profile] = c
Led == \A p \in Profiles : connecting[p] # None =>
          InFlight(connecting[p]) /\ call[connecting[p]].profile = p
NotYetHeld == \A c \in Calls : InFlight(c) /\ call[c].pc \notin {"held", "remember"}
                                 => live[call[c].profile] = None

SingleFlight == Leads /\ Led /\ NotYetHeld

(* A step that moves a call on, for the profile it is for, and touches     *)
(* neither table.                                                          *)
LEMMA MoveKeepsFlight ==
    ASSUME TypeInv, SingleFlight, NEW c \in Calls, InFlight(c), NEW new,
           call' = [call EXCEPT ![c] = new], new.pc \in Phases,
           new.profile = call[c].profile,
           new.pc \in {"held", "remember"}
              \/ call[c].pc \notin {"held", "remember"},
           UNCHANGED <<connecting, live>>
    PROVE  SingleFlight'
<1>1. \A k \in Calls : call'[k] = IF k = c THEN new ELSE call[k]
  BY DEF TypeInv, TypeOK
<1>2. Leads' /\ NotYetHeld'
  BY <1>1 DEF SingleFlight, Leads, NotYetHeld, InFlight
<1>3. Led'
  BY <1>1 DEF SingleFlight, Led, InFlight, TypeInv, TypeOK
<1>4. QED
  BY <1>2, <1>3 DEF SingleFlight

(* The steps of a connect in flight that do not settle it move its record  *)
(* on and keep the profile it is for.                                      *)
LEMMA FlightMove ==
    ASSUME TypeInv, NEW c \in Calls,
           \/ SignedIn(c) \/ PickContext(c) \/ OpenStored(c) \/ OpenFresh(c)
           \/ Attached(c) \/ AttachGone(c) \/ Resolved(c) \/ Settled(c)
           \/ RememberContext(c)
    PROVE  /\ InFlight(c)
           /\ UNCHANGED <<connecting, live, disc, choice, settings>>
           /\ \E new :
                /\ call' = [call EXCEPT ![c] = new]
                /\ new.pc \in Phases /\ new.profile = call[c].profile
                /\ \/ new.pc \in {"held", "remember"}
                   \/ call[c].pc \notin {"held", "remember"}
<1>0. call[c] \in Call
  BY DEF TypeInv, TypeOK
<1>a. InFlight(c) /\ UNCHANGED <<connecting, live, disc, choice, settings>>
  BY DEF InFlight, Phases, SignedIn, PickContext, OpenStored, OpenFresh, user,
         Attached, AttachGone, Resolved, Settled, RememberContext
<1>b. SUFFICES \E new :
         /\ call' = [call EXCEPT ![c] = new]
         /\ new.pc \in Phases /\ new.profile = call[c].profile
         /\ \/ new.pc \in {"held", "remember"}
            \/ call[c].pc \notin {"held", "remember"}
  BY <1>a
<1>1. CASE PickContext(c)
  <2>1. PICK x \in Offered[call[c].endpoint] :
           call' = [call EXCEPT ![c] = [call[c] EXCEPT !.pc = "open", !.context = x]]
    BY <1>1 DEF PickContext
  <2>2. WITNESS [call[c] EXCEPT !.pc = "open", !.context = x]
  <2>3. QED
    BY <1>0, <1>1, <2>1 DEF PickContext, Call, Phases
<1>2. CASE SignedIn(c)
  <2> WITNESS [call[c] EXCEPT !.pc = IF call[c].asked THEN "context" ELSE "open"]
  <2> QED
    BY <1>0, <1>2 DEF SignedIn, Advance, Call, Phases
<1>3. CASE OpenStored(c) /\ binding[call[c].profile].context = call[c].context
  <2> WITNESS [call[c] EXCEPT !.pc = "attach",
                  !.session = binding[call[c].profile].session]
  <2> QED
    BY <1>0, <1>3 DEF OpenStored, Call, Phases
<1>4. CASE \/ OpenStored(c) /\ binding[call[c].profile].context # call[c].context
           \/ OpenFresh(c)
  <2> WITNESS [call[c] EXCEPT !.pc = "resolve"]
  <2> QED
    BY <1>0, <1>4 DEF OpenStored, OpenFresh, Advance, Call, Phases
<1>5. CASE Attached(c) \/ Settled(c)
  <2> WITNESS [call[c] EXCEPT !.pc = "hold"]
  <2> QED
    BY <1>0, <1>5 DEF Attached, Settled, Advance, Call, Phases
<1>6. CASE AttachGone(c)
  <2> WITNESS [call[c] EXCEPT !.pc = "resolve", !.session = None]
  <2> QED
    BY <1>0, <1>6 DEF AttachGone, Call, Phases
<1>7. CASE Resolved(c)
  <2> WITNESS [call[c] EXCEPT !.pc = "create"]
  <2> QED
    BY <1>0, <1>7 DEF Resolved, Advance, Call, Phases
<1>8. CASE RememberContext(c)
  <2> WITNESS [call[c] EXCEPT !.pc = "remember", !.upsert =
                  [settings EXCEPT ![call[c].profile].context = call[c].context]]
  <2> QED
    BY <1>0, <1>8 DEF RememberContext, Call, Phases
<1>9. QED
  BY <1>1, <1>2, <1>3, <1>4, <1>5, <1>6, <1>7, <1>8

LEMMA FlightSingle ==
    ASSUME TypeInv, SingleFlight, NEW c \in Calls,
           \/ SignedIn(c) \/ PickContext(c) \/ OpenStored(c) \/ OpenFresh(c)
           \/ Attached(c) \/ AttachGone(c) \/ Resolved(c) \/ Settled(c)
           \/ RememberContext(c)
    PROVE  SingleFlight'
BY FlightMove, MoveKeepsFlight

LEMMA FinishSingle ==
    ASSUME TypeInv, SingleFlight, NEW c \in Calls, InFlight(c),
           NEW result, Finish(c, result), UNCHANGED live
    PROVE  SingleFlight'
<1>1. \A k \in Calls : InFlight(k)' => /\ k # c /\ InFlight(k)
                                        /\ call'[k] = call[k]
  BY DEF Finish, InFlight, IdleCall, Phases
<1>2. connecting[call[c].profile] = c /\ call[c].profile \in Profiles
  BY DEF SingleFlight, Leads, TypeInv, CallsOK, RecordOK, InFlight, Phases
<1>3. Leads'
  <2>1. ASSUME NEW k \in Calls, InFlight(k)'
        PROVE  connecting'[call'[k].profile] = k
    <3>1. k # c /\ InFlight(k) /\ call'[k] = call[k]
      BY <1>1, <2>1
    <3>2. connecting[call[k].profile] = k
      BY <3>1 DEF SingleFlight, Leads
    <3>3. call[k].profile # call[c].profile
      BY <1>2, <3>1, <3>2
    <3>4. connecting'[call[k].profile] = connecting[call[k].profile]
      <4>1. call[k].profile \in Profiles
        BY <3>1 DEF TypeInv, CallsOK, RecordOK, InFlight, Phases
      <4>2. QED
        BY <3>3, <4>1 DEF Finish, TypeInv, TypeOK
    <3>5. QED
      BY <3>1, <3>2, <3>4
  <2>2. QED
    BY <2>1 DEF Leads, InFlight
<1>4. Led'
  <2>1. ASSUME NEW p \in Profiles, connecting'[p] # None
        PROVE  /\ call'[connecting'[p]].pc \in Phases
               /\ call'[connecting'[p]].profile = p
    <3>1. connecting'[p] = connecting[p] /\ connecting[p] \in Calls
      BY <1>2, <2>1 DEF Finish, TypeInv, TypeOK
    <3>2. InFlight(connecting[p]) /\ call[connecting[p]].profile = p
      BY <2>1, <3>1 DEF SingleFlight, Led
    <3>3. connecting[p] # c
      BY <1>2, <2>1, <3>1, <3>2 DEF Finish, TypeInv, TypeOK
    <3>4. call'[connecting[p]] = call[connecting[p]]
      BY <3>1, <3>2, <3>3 DEF Finish, InFlight, Phases
    <3>5. QED
      BY <3>1, <3>2, <3>4 DEF InFlight
  <2>2. QED
    BY <2>1 DEF Led, InFlight
<1>5. NotYetHeld'
  BY <1>1 DEF SingleFlight, NotYetHeld, InFlight
<1>6. QED
  BY <1>3, <1>4, <1>5 DEF SingleFlight

LEMMA SettlingSingle ==
    ASSUME TypeInv, SingleFlight, NEW c \in Calls,
           \/ GiveUp(c) \/ Created(c) \/ NotSettled(c)
           \/ Connected(c) \/ Remembered(c)
    PROVE  SingleFlight'
<1>0. call[c] \in Call /\ InFlight(c) /\ UNCHANGED live
  BY DEF TypeInv, TypeOK, GiveUp, Created, NotSettled, Connected, Remembered,
         InFlight, Phases
<1>1. CASE \E result : Finish(c, result)
  BY <1>0, <1>1, FinishSingle
<1>2. CASE \A result : ~Finish(c, result)
  <2>1. Created(c)
    BY <1>2 DEF GiveUp, Created, NotSettled, Connected, Remembered
  <2>2. PICK s \in Sessions :
           /\ call' = [call EXCEPT ![c] = [@ EXCEPT !.pc = "settle", !.session = s]]
           /\ UNCHANGED connecting
    BY <1>2, <2>1 DEF Created
  <2> DEFINE new == [call[c] EXCEPT !.pc = "settle", !.session = s]
  <2>3. new.pc \in Phases /\ new.profile = call[c].profile
    BY <1>0 DEF Call, Phases
  <2>4. call[c].pc \notin {"held", "remember"}
    BY <2>1 DEF Created
  <2>5. call' = [call EXCEPT ![c] = new]
    BY <2>2
  <2> HIDE DEF new
  <2>6. QED
    BY <1>0, <2>2, <2>3, <2>4, <2>5, MoveKeepsFlight
<1>3. QED
  BY <1>1, <1>2

(* The steps that take a call slot or free one.                            *)
LEMMA ConnectSingle ==
    ASSUME TypeInv, SingleFlight, NEW c \in Calls,
           JoinConnect(c) \/ ReuseConnection(c) \/ LeadConnect(c) \/ Return(c)
    PROVE  SingleFlight'
<1>0. UNCHANGED live /\ ~InFlight(c)
  BY DEF JoinConnect, ReuseConnection, LeadConnect, Return, InFlight, Phases
<1>1. CASE LeadConnect(c)
  <2> DEFINE new == [IdleCall EXCEPT !.pc = "auth", !.profile = Active,
                        !.endpoint = settings[Active].endpoint,
                        !.context = settings[Active].context,
                        !.asked = settings[Active].context = None]
  <2>1. new.pc = "auth" /\ new.profile = Active
    BY DEF IdleCall
  <2>2. call' = [call EXCEPT ![c] = new]
    BY <1>1 DEF LeadConnect
  <2> HIDE DEF new
  <2>3. /\ Active \in Profiles
        /\ connecting[Active] = None /\ live[Active] = None
        /\ connecting' = [connecting EXCEPT ![Active] = c]
    BY <1>1, ActiveKnown DEF LeadConnect, TypeInv
  <2>4. \A k \in Calls : call'[k] = IF k = c THEN new ELSE call[k]
    BY <2>2 DEF TypeInv, TypeOK
  <2>5. \A k \in Calls : InFlight(k) => call[k].profile # Active
    BY <2>3, ConstantsAssumption DEF SingleFlight, Leads
  <2>6. Leads'
    BY <2>1, <2>3, <2>4, <2>5
    DEF Leads, SingleFlight, InFlight, TypeInv, TypeOK, CallsOK, RecordOK, Phases
  <2>7. Led'
    BY <1>0, <2>1, <2>3, <2>4
    DEF Led, SingleFlight, InFlight, TypeInv, TypeOK, Phases
  <2>8. NotYetHeld'
    BY <1>0, <2>1, <2>3, <2>4 DEF NotYetHeld, SingleFlight, InFlight
  <2>9. QED
    BY <2>6, <2>7, <2>8 DEF SingleFlight
<1>2. CASE JoinConnect(c) \/ ReuseConnection(c) \/ Return(c)
  <2>1. PICK new : call' = [call EXCEPT ![c] = new] /\ new.pc \notin Phases
    <3>1. CASE JoinConnect(c)
      <4> WITNESS [IdleCall EXCEPT !.pc = "joined", !.lead = connecting[Active],
                                   !.profile = Active]
      <4> QED
        BY <3>1 DEF JoinConnect, IdleCall, Phases
    <3>2. CASE ReuseConnection(c)
      <4> WITNESS [IdleCall EXCEPT !.pc = "done", !.profile = Active,
                                   !.result = live[Active]]
      <4> QED
        BY <3>2 DEF ReuseConnection, IdleCall, Phases
    <3>3. CASE Return(c)
      <4> WITNESS IdleCall
      <4> QED
        BY <3>3 DEF Return, IdleCall, Phases
    <3>4. QED
      BY <1>2, <3>1, <3>2, <3>3
  <2>2. \A k \in Calls : call'[k] = IF k = c THEN new ELSE call[k]
    BY <2>1 DEF TypeInv, TypeOK
  <2>3. UNCHANGED connecting
    BY <1>2 DEF JoinConnect, ReuseConnection, Return
  <2>4. QED
    BY <1>0, <2>1, <2>2, <2>3
    DEF SingleFlight, Leads, Led, NotYetHeld, InFlight, TypeInv, TypeOK
<1>3. QED
  BY <1>1, <1>2

LEMMA HoldSingle ==
    ASSUME TypeInv, SingleFlight, NEW c \in Calls, Hold(c)
    PROVE  SingleFlight'
<1>0. /\ call[c] \in Call /\ call[c].pc = "hold" /\ InFlight(c)
      /\ call[c].profile \in Profiles
  BY DEF TypeInv, TypeOK, CallsOK, Hold, RecordOK, InFlight, Phases
<1>1. PICK conn :
         /\ live' = [live EXCEPT ![call[c].profile] = conn]
         /\ call' = [call EXCEPT ![c] = [@ EXCEPT !.pc = "held", !.result = conn]]
  BY DEF Hold
<1>2. UNCHANGED connecting
  BY DEF Hold
<1> DEFINE new == [call[c] EXCEPT !.pc = "held", !.result = conn]
<1>3. new.pc = "held" /\ new.profile = call[c].profile
  BY <1>0 DEF Call
<1> HIDE DEF new
<1>4. \A k \in Calls : call'[k] = IF k = c THEN new ELSE call[k]
  BY <1>1 DEF TypeInv, TypeOK, new
<1>5. Leads' /\ Led'
  BY <1>0, <1>2, <1>3, <1>4
  DEF SingleFlight, Leads, Led, InFlight, TypeInv, TypeOK, Phases
<1>6. NotYetHeld'
  <2>1. ASSUME NEW k \in Calls, k # c, InFlight(k)
        PROVE  call[k].profile # call[c].profile
    BY <1>0, <2>1 DEF SingleFlight, Leads
  <2>2. QED
    BY <1>0, <1>1, <1>3, <1>4, <2>1
    DEF SingleFlight, NotYetHeld, InFlight, TypeInv, TypeOK, CallsOK, RecordOK, Phases
<1>7. QED
  BY <1>5, <1>6 DEF SingleFlight

(* Nothing else starts a connect or holds a connection.                    *)
LEMMA OthersSingle ==
    ASSUME TypeInv, SingleFlight,
           \/ \E d \in Discs :
                 \/ StartDisconnect(d) \/ DisconnectStep(d)
                 \/ ReturnDisconnect(d)
           \/ \E p \in Profiles : Forget(p) \/ SwitchProfile(p) \/ EditProfile(p)
           \/ \E s \in Sessions :
                 UnawaitedDelete(s) \/ SessionReady(s) \/ SessionReaped(s)
           \/ UNCHANGED vars
    PROVE  SingleFlight'
<1>1. UNCHANGED <<call, connecting>>
  BY DEF StartDisconnect, DisconnectStep, ResumeDisconnect, SessionDeleted,
         ReturnDisconnect, Forget, SwitchProfile, EditProfile, memory,
         UnawaitedDelete, SessionReady, SessionReaped, vars
<1>2. \A p \in Profiles : live'[p] = live[p] \/ live'[p] = None
  BY DEF StartDisconnect, DisconnectStep, ResumeDisconnect, SessionDeleted,
         ReturnDisconnect, EndsHeld, Forget, SwitchProfile, EditProfile, memory,
         UnawaitedDelete, SessionReady, SessionReaped, vars, TypeInv, TypeOK
<1>3. QED
  BY <1>1, <1>2
  DEF SingleFlight, Leads, Led, NotYetHeld, InFlight, TypeInv, CallsOK, RecordOK, Phases

LEMMA ReloadSingle ==
    ASSUME Reload
    PROVE  SingleFlight'
BY DEF Reload, SingleFlight, Leads, Led, NotYetHeld, InFlight, IdleCall, Phases

LEMMA InitSingle == Init => SingleFlight
BY DEF Init, SingleFlight, Leads, Led, NotYetHeld, InFlight, IdleCall, Phases

LEMMA NextSingle ==
    ASSUME TypeInv, SingleFlight, [Next]_vars
    PROVE  SingleFlight'
BY FlightSingle, SettlingSingle, ConnectSingle, HoldSingle, OthersSingle,
   ReloadSingle DEF Next, ConnectStep

LEMMA FlightInvariant == Spec => [](TypeInv /\ SingleFlight)
<1>1. Init => TypeInv /\ SingleFlight
  BY InitType, InitSingle
<1>2. TypeInv /\ SingleFlight /\ [Next]_vars => (TypeInv /\ SingleFlight)'
  BY NextType, NextSingle
<1>3. QED
  BY <1>1, <1>2, PTL DEF Spec

(* A connection that is held is never replaced by another: only a connect  *)
(* in flight holds one, and until then its profile has none.               *)
THEOREM HeldIsNeverOverwritten == Spec => NeverOverwritten
<1>1. ASSUME TypeInv, SingleFlight, [Next]_vars, NEW p \in Profiles,
             live[p] # None, live'[p] # None
      PROVE  live'[p] = live[p]
  <2>1. CASE \E c \in Calls : Hold(c)
    <3>1. PICK c \in Calls : Hold(c)
      BY <2>1
    <3>2. /\ InFlight(c) /\ call[c].pc = "hold"
          /\ \E conn : live' = [live EXCEPT ![call[c].profile] = conn]
      BY <3>1 DEF Hold, InFlight, Phases
    <3>3. live[call[c].profile] = None
      BY <1>1, <3>2 DEF SingleFlight, NotYetHeld
    <3>4. QED
      BY <1>1, <3>2, <3>3 DEF TypeInv, TypeOK
  <2>2. CASE ~\E c \in Calls : Hold(c)
    BY <1>1, <2>2
    DEF Next, vars, ConnectStep, DisconnectStep, JoinConnect, ReuseConnection,
        LeadConnect, Return, SignedIn, PickContext, GiveUp, OpenStored, OpenFresh,
        Attached, AttachGone, Resolved, Created, Settled, NotSettled,
        RememberContext, Connected, Remembered, StartDisconnect, ResumeDisconnect,
        SessionDeleted, ReturnDisconnect, EndsHeld, Forget, SwitchProfile,
        EditProfile, memory, UnawaitedDelete, SessionReady, SessionReaped, Reload,
        TypeInv, TypeOK
  <2>3. QED
    BY <2>1, <2>2
<1>2. TypeInv /\ SingleFlight /\ [Next]_vars =>
        [\A p \in Profiles : live[p] # None /\ live'[p] # None
                                => live'[p] = live[p]]_vars
  BY <1>1
<1>3. QED
  BY <1>2, FlightInvariant, PTL DEF Spec, NeverOverwritten

-----------------------------------------------------------------------------
(* The binding.  It is what a live connection was opened from, provided    *)
(* that a disconnect acts on the profile whose connect it waited for.      *)
Waits == \A d \in Discs : disc[d].pc = "waiting" =>
            \/ /\ disc[d].waits # None
               /\ InFlight(disc[d].waits)
               /\ call[disc[d].waits].profile = Active
            \/ /\ disc[d].waits = None
               /\ Active # None => connecting[Active] = None

Bound(p, session, context) ==
    binding[p] # None /\ binding[p].session = session /\ binding[p].context = context
Stored == \A c \in Calls : call[c].pc \in {"attach", "hold"} =>
             Bound(call[c].profile, call[c].session, call[c].context)

BindingInv == Waits /\ Stored /\ BindingMatchesLive

FullInv == TypeInv /\ SingleFlight /\ BindingInv

LEMMA ActiveSame ==
    ASSUME UNCHANGED <<choice, settings>>
    PROVE  Active' = Active
BY DEF Active, Known

(* A settled promise releases the disconnect that waited for it.           *)
LEMMA FinishWaits ==
    ASSUME FullInv, NEW c \in Calls, InFlight(c),
           NEW result, Finish(c, result),
           Active' = Active \/ \A d \in Discs : disc[d].pc # "waiting"
    PROVE  Waits'
<1>1. connecting[call[c].profile] = c /\ call[c].profile \in Profiles
  BY DEF FullInv, SingleFlight, Leads, TypeInv, CallsOK, RecordOK, InFlight, Phases
<1>2. SUFFICES ASSUME NEW d \in Discs, disc'[d].pc = "waiting"
               PROVE  \/ /\ disc'[d].waits # None
                         /\ call'[disc'[d].waits].pc \in Phases
                         /\ call'[disc'[d].waits].profile = Active'
                      \/ /\ disc'[d].waits = None
                         /\ Active' # None => connecting'[Active'] = None
  BY DEF Waits, InFlight
<1>3. /\ disc[d] \in Disconnect /\ disc[d].pc = "waiting"
      /\ disc'[d].waits = IF disc[d].waits = c THEN None ELSE disc[d].waits
  BY <1>2 DEF Finish, FullInv, TypeInv, TypeOK, Disconnect
<1>4. Active' = Active
  BY <1>3
<1>5. CASE disc[d].waits = c
  <2>1. call[c].profile = Active
    BY <1>3, <1>5, ConstantsAssumption DEF FullInv, BindingInv, Waits
  <2>2. connecting'[Active] = None
    BY <1>1, <2>1 DEF Finish, FullInv, TypeInv, TypeOK
  <2>3. QED
    BY <1>3, <1>4, <1>5, <2>2
<1>6. CASE disc[d].waits \notin {c, None}
  <2>1. /\ disc[d].waits \in Calls /\ InFlight(disc[d].waits)
        /\ call[disc[d].waits].profile = Active
    BY <1>3, <1>6 DEF FullInv, BindingInv, Waits, Disconnect
  <2>2. call'[disc[d].waits] = call[disc[d].waits]
    BY <1>6, <2>1 DEF Finish, InFlight, Phases
  <2>3. QED
    BY <1>3, <1>4, <1>6, <2>1, <2>2 DEF InFlight
<1>7. CASE disc[d].waits = None
  <2>1. Active # None => connecting[Active] = None
    BY <1>3, <1>7 DEF FullInv, BindingInv, Waits
  <2>2. Active # None => connecting'[Active] = None
    BY <1>1, <2>1, ActiveKnown DEF Finish, FullInv, TypeInv, TypeOK
  <2>3. QED
    BY <1>3, <1>4, <1>7, <2>2, ConstantsAssumption
<1>8. QED
  BY <1>5, <1>6, <1>7

LEMMA SettlingBound ==
    ASSUME ~SwitchDuringDisconnect, FullInv, NEW c \in Calls,
           \/ GiveUp(c) \/ Created(c) \/ NotSettled(c)
           \/ Connected(c) \/ Remembered(c)
    PROVE  BindingInv'
<1>0. call[c] \in Call /\ InFlight(c) /\ UNCHANGED <<live, binding>>
  BY DEF FullInv, TypeInv, TypeOK, GiveUp, Created, NotSettled, Connected,
         Remembered, InFlight, Phases
<1>1. Active' = Active \/ \A d \in Discs : disc[d].pc # "waiting"
  BY ActiveSame DEF GiveUp, Created, NotSettled, Connected, Remembered,
                    ActiveHolds, user
<1>2. BindingMatchesLive'
  BY <1>0 DEF FullInv, BindingInv, BindingMatchesLive
<1>3. CASE \E result : Finish(c, result)
  <2>1. Waits'
    BY <1>0, <1>1, <1>3, FinishWaits
  <2>2. Stored'
    <3>1. \A k \in Calls : call'[k].pc \in {"attach", "hold"}
                             => call'[k] = call[k]
      <4>1. PICK result : Finish(c, result)
        BY <1>3
      <4>2. QED
        BY <4>1 DEF Finish, IdleCall
    <3>2. QED
      BY <1>0, <3>1 DEF FullInv, BindingInv, Stored, Bound
  <2>3. QED
    BY <1>2, <2>1, <2>2 DEF BindingInv
<1>4. CASE \A result : ~Finish(c, result)
  <2>1. Created(c)
    BY <1>4 DEF GiveUp, Created, NotSettled, Connected, Remembered
  <2>2. PICK s \in Sessions :
           /\ call' = [call EXCEPT ![c] = [@ EXCEPT !.pc = "settle", !.session = s]]
           /\ UNCHANGED <<connecting, disc>>
    BY <1>4, <2>1 DEF Created
  <2> DEFINE new == [call[c] EXCEPT !.pc = "settle", !.session = s]
  <2>3. new.pc = "settle" /\ new.profile = call[c].profile
    BY <1>0 DEF Call
  <2>4. \A k \in Calls : call'[k] = IF k = c THEN new ELSE call[k]
    BY <2>2 DEF FullInv, TypeInv, TypeOK
  <2> HIDE DEF new
  <2>5. Stored'
    BY <1>0, <2>3, <2>4 DEF FullInv, BindingInv, Stored, Bound
  <2>6. Active' = Active
    BY <2>1, ActiveSame DEF Created, user
  <2>7. Waits'
    <3>1. SUFFICES ASSUME NEW d \in Discs, disc[d].pc = "waiting"
                   PROVE  \/ /\ disc[d].waits # None
                             /\ call'[disc[d].waits].pc \in Phases
                             /\ call'[disc[d].waits].profile = Active
                          \/ /\ disc[d].waits = None
                             /\ Active # None => connecting[Active] = None
      BY <2>2, <2>6 DEF Waits, InFlight
    <3>2. disc[d].waits \in Calls \cup {None}
      BY DEF FullInv, TypeInv, TypeOK, Disconnect
    <3>3. QED
      BY <2>3, <2>4, <3>1, <3>2
      DEF FullInv, BindingInv, Waits, InFlight, Phases
  <2>8. QED
    BY <1>2, <2>5, <2>7 DEF BindingInv
<1>5. QED
  BY <1>3, <1>4


(* A connect that moves on for its profile keeps the disconnects waiting   *)
(* for it, and all others.                                                 *)
LEMMA MoveWaits ==
    ASSUME FullInv, NEW c \in Calls, NEW new,
           \A k \in Calls : call'[k] = IF k = c THEN new ELSE call[k],
           InFlight(c) => new.pc \in Phases /\ new.profile = call[c].profile,
           UNCHANGED <<connecting, disc, choice, settings>>
    PROVE  Waits'
<1>1. Active' = Active
  BY ActiveSame
<1>2. SUFFICES ASSUME NEW d \in Discs, disc[d].pc = "waiting"
               PROVE  \/ /\ disc[d].waits # None
                         /\ call'[disc[d].waits].pc \in Phases
                         /\ call'[disc[d].waits].profile = Active
                      \/ /\ disc[d].waits = None
                         /\ Active # None => connecting[Active] = None
  BY <1>1 DEF Waits, InFlight
<1>3. disc[d].waits \in Calls \cup {None}
  BY DEF FullInv, TypeInv, TypeOK, Disconnect
<1>4. QED
  BY <1>2, <1>3 DEF FullInv, BindingInv, Waits, InFlight

(* The steps of a connect in flight, each of which moves its record on and *)
(* changes the binding, if at all, for its own profile only.               *)
LEMMA FlightBound ==
    ASSUME FullInv, NEW c \in Calls,
           \/ SignedIn(c) \/ PickContext(c) \/ OpenStored(c) \/ OpenFresh(c)
           \/ Attached(c) \/ AttachGone(c) \/ Resolved(c) \/ Settled(c)
           \/ RememberContext(c)
    PROVE  BindingInv'
<1> DEFINE p == call[c].profile
<1>0. /\ call[c] \in Call /\ RecordOK(call[c]) /\ InFlight(c) /\ p \in Profiles
      /\ UNCHANGED <<connecting, disc, choice, settings, live>>
      /\ \A k \in Calls : k # c => call'[k] = call[k]
  BY DEF FullInv, TypeInv, TypeOK, CallsOK, RecordOK, InFlight, Phases, user,
         SignedIn, PickContext, OpenStored, OpenFresh, Attached, AttachGone,
         Resolved, Settled, RememberContext, Advance
<1>1. call'[c].pc \in Phases /\ call'[c].profile = p
  BY FlightMove DEF FullInv, TypeInv, TypeOK
<1>2. Waits'
  <2>1. \A k \in Calls : call'[k] = IF k = c THEN call'[c] ELSE call[k]
    BY <1>0
  <2> DEFINE new == call'[c]
  <2>2. new.pc \in Phases /\ new.profile = call[c].profile
    BY <1>1
  <2> HIDE DEF new
  <2>3. \A k \in Calls : call'[k] = IF k = c THEN new ELSE call[k]
    BY <2>1 DEF new
  <2>4. QED
    BY <1>0, <2>2, <2>3, MoveWaits
<1>3. \A q \in Profiles : q # p => binding'[q] = binding[q]
  BY <1>0 DEF FullInv, TypeInv, TypeOK, SignedIn, PickContext, OpenStored,
              OpenFresh, Attached, AttachGone, Resolved, Settled, RememberContext
<1>4. \/ binding' = binding
      \/ live[p] = None
  BY <1>0 DEF FullInv, SingleFlight, NotYetHeld, InFlight, Phases, SignedIn,
     PickContext, OpenStored, OpenFresh, Attached, AttachGone, Resolved, Settled,
     RememberContext
<1>5. BindingMatchesLive'
  BY <1>0, <1>3, <1>4 DEF FullInv, BindingInv, BindingMatchesLive
<1>6. \A k \in Calls : k # c /\ InFlight(k) => call[k].profile # p
  BY <1>0 DEF FullInv, SingleFlight, Leads
<1>7. call'[c].pc \in {"attach", "hold"} =>
        /\ binding'[p] # None
        /\ binding'[p].session = call'[c].session
        /\ binding'[p].context = call'[c].context
  <2>1. CASE OpenStored(c) /\ binding[p].context = call[c].context
    <3>1. call'[c] = [call[c] EXCEPT !.pc = "attach", !.session = binding[p].session]
      BY <2>1 DEF OpenStored, FullInv, TypeInv, TypeOK
    <3>2. QED
      BY <1>0, <2>1, <3>1 DEF OpenStored, Bound, Call
  <2>2. CASE Attached(c)
    <3>1. call'[c] = [call[c] EXCEPT !.pc = "hold"]
      BY <2>2 DEF Attached, Advance, FullInv, TypeInv, TypeOK
    <3>2. Bound(p, call[c].session, call[c].context) /\ binding' = binding
      BY <2>2 DEF Attached, FullInv, BindingInv, Stored
    <3>3. QED
      BY <1>0, <3>1, <3>2 DEF Bound, Call
  <2>3. CASE Settled(c)
    <3>1. call'[c] = [call[c] EXCEPT !.pc = "hold"]
      BY <2>3 DEF Settled, Advance, FullInv, TypeInv, TypeOK
    <3>2. binding'[p] = [session |-> call[c].session, context |-> call[c].context]
      BY <1>0, <2>3 DEF Settled, FullInv, TypeInv, TypeOK
    <3>3. call[c].session \in Sessions
      BY <1>0, <2>3 DEF Settled, RecordOK
    <3>4. binding'[p] # None
      <4>1. call[c].context \in Contexts
        BY <1>0, <2>3 DEF Settled, RecordOK, Phases
      <4>2. binding'[p] \in Binding
        BY <3>2, <3>3, <4>1 DEF Binding
      <4>3. QED
        BY <4>2, NoneAssumption
    <3>5. QED
      BY <1>0, <3>1, <3>2, <3>4 DEF Bound, Call
  <2>4. CASE PickContext(c)
    <3>1. PICK x : call'[c] = [call[c] EXCEPT !.pc = "open", !.context = x]
      BY <2>4 DEF PickContext, FullInv, TypeInv, TypeOK
    <3>2. QED
      BY <1>0, <3>1 DEF Call
  <2>5. CASE \/ SignedIn(c) \/ OpenFresh(c) \/ AttachGone(c) \/ Resolved(c)
             \/ RememberContext(c)
             \/ OpenStored(c) /\ binding[p].context # call[c].context
    <3> USE DEF FullInv, TypeInv, TypeOK, Call
    <3>1. CASE SignedIn(c)
      BY <1>0, <3>1 DEF SignedIn, Advance
    <3>2. CASE OpenFresh(c)
      BY <1>0, <3>2 DEF OpenFresh, Advance
    <3>3. CASE AttachGone(c)
      BY <1>0, <3>3 DEF AttachGone
    <3>4. CASE Resolved(c)
      BY <1>0, <3>4 DEF Resolved, Advance
    <3>5. CASE RememberContext(c)
      BY <1>0, <3>5 DEF RememberContext
    <3>6. CASE OpenStored(c) /\ binding[p].context # call[c].context
      BY <1>0, <3>6 DEF OpenStored, Advance
    <3>7. QED
      BY <2>5, <3>1, <3>2, <3>3, <3>4, <3>5, <3>6
  <2>6. QED
    BY <2>1, <2>2, <2>3, <2>4, <2>5
<1>8. Stored'
  <2>1. ASSUME NEW k \in Calls, k # c, call'[k].pc \in {"attach", "hold"}
        PROVE  /\ binding'[call'[k].profile] # None
               /\ binding'[call'[k].profile].session = call'[k].session
               /\ binding'[call'[k].profile].context = call'[k].context
    <3>1. /\ call'[k] = call[k] /\ InFlight(k)
          /\ Bound(call[k].profile, call[k].session, call[k].context)
      BY <1>0, <2>1 DEF FullInv, BindingInv, Stored, InFlight, Phases
    <3>2. call[k].profile \in Profiles /\ call[k].profile # p
      BY <1>6, <2>1, <3>1
      DEF FullInv, TypeInv, CallsOK, RecordOK, InFlight, Phases
    <3>3. QED
      BY <1>3, <3>1, <3>2 DEF Bound
  <2>2. QED
    BY <1>1, <1>7, <2>1 DEF Stored, Bound
<1>9. QED
  BY <1>2, <1>5, <1>8 DEF BindingInv

LEMMA ConnectBound ==
    ASSUME FullInv, NEW c \in Calls,
           JoinConnect(c) \/ ReuseConnection(c) \/ LeadConnect(c) \/ Return(c)
    PROVE  BindingInv'
<1>0. /\ ~InFlight(c) /\ UNCHANGED <<live, binding, disc, choice, settings>>
      /\ \A k \in Calls : k # c => call'[k] = call[k]
      /\ call'[c].pc \notin {"attach", "hold"}
  <2> USE DEF IdleCall, InFlight, Phases, user, FullInv, TypeInv, TypeOK
  <2>1. CASE JoinConnect(c)
    BY <2>1 DEF JoinConnect
  <2>2. CASE ReuseConnection(c)
    BY <2>2 DEF ReuseConnection
  <2>3. CASE LeadConnect(c)
    BY <2>3 DEF LeadConnect
  <2>4. CASE Return(c)
    BY <2>4 DEF Return
  <2>5. QED
    BY <2>1, <2>2, <2>3, <2>4
<1>1. Stored' /\ BindingMatchesLive'
  BY <1>0 DEF FullInv, BindingInv, Stored, Bound, BindingMatchesLive
<1>2. Waits'
  <2>1. CASE UNCHANGED connecting
    <3> DEFINE new == call'[c]
    <3>1. \A k \in Calls : call'[k] = IF k = c THEN new ELSE call[k]
      BY <1>0
    <3> HIDE DEF new
    <3>2. QED
      BY <1>0, <2>1, <3>1, MoveWaits
  <2>2. CASE LeadConnect(c)
    <3>1. SUFFICES ASSUME NEW d \in Discs, disc[d].pc = "waiting"
                   PROVE  /\ disc[d].waits # None
                          /\ call'[disc[d].waits].pc \in Phases
                          /\ call'[disc[d].waits].profile = Active
      BY <1>0, ActiveSame DEF Waits, InFlight
    <3>2. disc[d].waits # None /\ disc[d].waits \in Calls
      BY <2>2, <3>1
      DEF LeadConnect, Drained, FullInv, TypeInv, TypeOK, Disconnect
    <3>3. QED
      BY <1>0, <3>1, <3>2 DEF FullInv, BindingInv, Waits, InFlight
  <2>3. QED
    BY <2>1, <2>2 DEF JoinConnect, ReuseConnection, Return
<1>3. QED
  BY <1>1, <1>2 DEF BindingInv

LEMMA HoldBound ==
    ASSUME FullInv, NEW c \in Calls, Hold(c)
    PROVE  BindingInv'
<1> DEFINE p == call[c].profile
<1>0. /\ call[c] \in Call /\ call[c].pc = "hold" /\ InFlight(c) /\ p \in Profiles
      /\ UNCHANGED <<connecting, disc, choice, settings, binding>>
      /\ Bound(p, call[c].session, call[c].context)
  BY DEF FullInv, TypeInv, TypeOK, CallsOK, Hold, RecordOK, InFlight, Phases,
         user, BindingInv, Stored
<1>1. PICK g :
        LET conn == [profile |-> p, endpoint |-> call[c].endpoint,
                     context |-> call[c].context, session |-> call[c].session,
                     generation |-> g]
        IN  /\ live' = [live EXCEPT ![p] = conn]
            /\ call' = [call EXCEPT ![c] = [@ EXCEPT !.pc = "held", !.result = conn]]
  BY DEF Hold
<1>2. BindingMatchesLive'
  BY <1>0, <1>1
  DEF Bound, FullInv, BindingInv, BindingMatchesLive, TypeInv, TypeOK
<1>3. /\ call'[c].pc = "held" /\ call'[c].profile = p
      /\ \A k \in Calls : k # c => call'[k] = call[k]
  BY <1>0, <1>1 DEF FullInv, TypeInv, TypeOK, Call
<1>4. Stored'
  BY <1>0, <1>3 DEF FullInv, BindingInv, Stored, Bound
<1>5. Waits'
  <2> DEFINE new == call'[c]
  <2>1. \A k \in Calls : call'[k] = IF k = c THEN new ELSE call[k]
    BY <1>3
  <2>2. new.pc \in Phases /\ new.profile = call[c].profile
    BY <1>3 DEF Phases
  <2> HIDE DEF new
  <2>3. QED
    BY <1>0, <2>1, <2>2, MoveWaits
<1>6. QED
  BY <1>2, <1>4, <1>5 DEF BindingInv

(* A disconnect takes connection and binding away together, when no        *)
(* connect of that profile is in flight.                                   *)
LEMMA EndsHeldBound ==
    ASSUME FullInv, NEW d \in Discs, NEW p \in Profiles, connecting[p] = None,
           NEW older, EndsHeld(d, p, older),
           UNCHANGED <<call, connecting, choice, settings>>
    PROVE  BindingInv'
<1>1. \A c \in Calls : InFlight(c) => call[c].profile # p
  BY ConstantsAssumption DEF FullInv, SingleFlight, Leads
<1>2. BindingMatchesLive'
  BY DEF EndsHeld, FullInv, BindingInv, BindingMatchesLive, TypeInv, TypeOK
<1>3. Stored'
  <2>1. ASSUME NEW c \in Calls, call[c].pc \in {"attach", "hold"}
        PROVE  binding'[call[c].profile] = binding[call[c].profile]
    <3>1. InFlight(c)
      BY <2>1 DEF InFlight, Phases
    <3>2. call[c].profile \in Profiles /\ call[c].profile # p
      BY <1>1, <2>1, <3>1 DEF FullInv, TypeInv, CallsOK, RecordOK
    <3>3. QED
      BY <3>2 DEF EndsHeld, FullInv, TypeInv, TypeOK
  <2>2. QED
    BY <2>1 DEF FullInv, BindingInv, Stored, Bound
<1>4. Waits'
  <2>1. disc'[d].pc \in {"deleting", "told"}
    BY DEF EndsHeld, FullInv, TypeInv, TypeOK
  <2>2. \A e \in Discs : e # d => disc'[e] = disc[e]
    BY DEF EndsHeld, FullInv, TypeInv, TypeOK
  <2>3. Active' = Active
    BY ActiveSame
  <2>4. QED
    BY <2>1, <2>2, <2>3 DEF FullInv, BindingInv, Waits, InFlight
<1>5. QED
  BY <1>2, <1>3, <1>4 DEF BindingInv

LEMMA DisconnectBound ==
    ASSUME FullInv, NEW d \in Discs,
           \/ StartDisconnect(d) \/ ResumeDisconnect(d)
           \/ SessionDeleted(d) \/ ReturnDisconnect(d)
    PROVE  BindingInv'
<1>0. UNCHANGED <<call, connecting, choice, settings>>
  BY DEF StartDisconnect, ResumeDisconnect, SessionDeleted, ReturnDisconnect, user
<1>1. CASE \E older : Active # None /\ connecting[Active] = None
                       /\ EndsHeld(d, Active, older)
  BY <1>0, <1>1, ActiveKnown, EndsHeldBound DEF FullInv, TypeInv
<1>2. CASE /\ UNCHANGED <<live, binding>>
           /\ \A e \in Discs : e # d => disc'[e] = disc[e]
           /\ disc'[d].pc = "waiting" =>
                 /\ disc'[d].waits = connecting[Active]
                 /\ Active # None /\ connecting[Active] # None
  <2>1. Active' = Active
    BY <1>0, ActiveSame
  <2>2. Active # None => Active \in Profiles
    BY ActiveKnown DEF FullInv, TypeInv
  <2>3. Waits'
    BY <1>0, <1>2, <2>1, <2>2
    DEF FullInv, BindingInv, Waits, SingleFlight, Led, InFlight
  <2>4. QED
    BY <1>0, <1>2, <2>3
    DEF FullInv, BindingInv, Stored, Bound, BindingMatchesLive
<1>3. CASE StartDisconnect(d)
  <2>1. CASE connecting[Active] # None
    BY <1>2, <1>3, <2>1
    DEF StartDisconnect, IdleDisc, FullInv, TypeInv, TypeOK
  <2>2. CASE connecting[Active] = None
    BY <1>1, <1>3, <2>2 DEF StartDisconnect
  <2>3. QED
    BY <2>1, <2>2
<1>4. CASE ResumeDisconnect(d)
  <2>1. Active # None => connecting[Active] = None
    BY <1>4 DEF ResumeDisconnect, FullInv, BindingInv, Waits
  <2>2. CASE Active = None
    BY <1>2, <1>4, <2>2
    DEF ResumeDisconnect, IdleDisc, FullInv, TypeInv, TypeOK
  <2>3. CASE Active # None
    BY <1>1, <1>4, <2>1, <2>3 DEF ResumeDisconnect
  <2>4. QED
    BY <2>2, <2>3
<1>5. CASE SessionDeleted(d)
  <2>1. disc[d] \in Disconnect
    BY DEF FullInv, TypeInv, TypeOK
  <2>2. disc'[d].pc = "told"
    BY <1>5, <2>1 DEF SessionDeleted, FullInv, TypeInv, TypeOK, Disconnect
  <2>3. QED
    BY <1>2, <1>5, <2>2 DEF SessionDeleted, FullInv, TypeInv, TypeOK
<1>6. CASE ReturnDisconnect(d)
  BY <1>2, <1>6 DEF ReturnDisconnect, IdleDisc, FullInv, TypeInv, TypeOK
<1>7. QED
  BY <1>3, <1>4, <1>5, <1>6

LEMMA EnvironmentBound ==
    ASSUME ~SwitchDuringDisconnect, FullInv,
           \/ \E p \in Profiles : Forget(p) \/ SwitchProfile(p) \/ EditProfile(p)
           \/ \E s \in Sessions :
                 UnawaitedDelete(s) \/ SessionReady(s) \/ SessionReaped(s)
           \/ UNCHANGED vars
    PROVE  BindingInv'
<1>1. UNCHANGED <<call, connecting, disc, binding>>
  BY DEF Forget, SwitchProfile, EditProfile, memory, UnawaitedDelete,
         SessionReady, SessionReaped, vars
<1>2. \A p \in Profiles : live'[p] = live[p] \/ live'[p] = None
  BY DEF Forget, SwitchProfile, EditProfile, memory, UnawaitedDelete,
         SessionReady, SessionReaped, vars, FullInv, TypeInv, TypeOK
<1>3. Active' = Active \/ \A d \in Discs : disc[d].pc # "waiting"
  BY ActiveSame DEF Forget, SwitchProfile, EditProfile, ActiveHolds, user,
                    UnawaitedDelete, SessionReady, SessionReaped, vars
<1>4. QED
  BY <1>1, <1>2, <1>3
  DEF FullInv, BindingInv, Waits, InFlight, Stored, Bound, BindingMatchesLive

LEMMA ReloadBound ==
    ASSUME Reload
    PROVE  BindingInv'
BY DEF Reload, BindingInv, Waits, Stored, BindingMatchesLive, IdleCall, IdleDisc

LEMMA FullInvariant ==
    ASSUME ~SwitchDuringDisconnect
    PROVE  Spec => []FullInv
<1>1. Init => FullInv
  BY InitType, InitSingle
  DEF Init, FullInv, BindingInv, Waits, Stored, BindingMatchesLive, IdleCall, IdleDisc
<1>2. ASSUME FullInv, [Next]_vars PROVE FullInv'
  <2>1. TypeInv' /\ SingleFlight'
    BY <1>2, NextType, NextSingle DEF FullInv
  <2>2. BindingInv'
    BY <1>2, SettlingBound, FlightBound, ConnectBound, HoldBound, DisconnectBound,
       EnvironmentBound, ReloadBound DEF Next, ConnectStep, DisconnectStep
  <2>3. QED
    BY <2>1, <2>2 DEF FullInv
<1>3. QED
  BY <1>1, <1>2, PTL DEF Spec

(* A connection the window holds is the one the workspace remembers, as    *)
(* long as nobody changes the active profile under a waiting disconnect.   *)
THEOREM LiveIsRemembered ==
    ASSUME ~SwitchDuringDisconnect
    PROVE  Spec => []BindingMatchesLive
<1>1. FullInv => BindingMatchesLive
  BY DEF FullInv, BindingInv
<1>2. QED
  BY <1>1, FullInvariant, PTL

-----------------------------------------------------------------------------
(* What the session manager promises its callers, for every set of         *)
(* profiles, deployments, sessions and callers: that answers are for the   *)
(* profile asked for, that what is cached fits, that no session is lost,   *)
(* that a disconnect holds, and that it is a ConnectionService.            *)

(* Invariants.  First, whose answer a call has or waits for.               *)
JoinsOwn == \A c \in Calls : call[c].pc = "joined" =>
                /\ call[c].lead \in Calls /\ InFlight(call[c].lead)
                /\ call[call[c].lead].profile = call[c].profile
HeldIsOwn == \A c \in Calls : call[c].pc \in {"held", "remember"} =>
                call[c].result # None /\ call[c].result.profile = call[c].profile
LiveIsOwn == \A p \in Profiles : live[p] # None => live[p].profile = p
OwnInv == JoinsOwn /\ HeldIsOwn /\ LiveIsOwn /\ ResultIsForAskedProfile

(* A context that was picked is one the deployment lists.                  *)
PickedIsOffered ==
    \A c \in Calls : call[c].asked /\ call[c].pc \in Phases \ {"auth", "context"}
                        => call[c].context \in Offered[call[c].endpoint]
KnownInv == PickedIsOffered /\ KnownFitsEndpoint

(* A connect that starts a session has no binding to overwrite, and one    *)
(* that comes back to a session has no other; likewise a connection.       *)
BoundOnce ==
    /\ \A c \in Calls : call[c].pc \in {"resolve", "create", "settle"}
                            => binding[call[c].profile] = None
    /\ \A c \in Calls :
          call[c].pc \in {"attach", "hold"} /\ binding[call[c].profile] # None
              => binding[call[c].profile].session = call[c].session
    /\ \A p \in Profiles : live[p] # None /\ binding[p] # None
                               => binding[p].session = live[p].session
QuietDiscs == \A d \in Discs : disc[d].pc # "deleting" => disc[d].session = None

(* A session that nothing but memory refers to is one whose start is       *)
(* awaited, or that is about to be deleted.                                *)
Kept(s) ==
    \/ ~Alive(s) \/ s \in left \cup deleting
    \/ \E p \in Profiles : binding[p] # None /\ binding[p].session = s
    \/ \E d \in Discs : disc[d].session = s
Starting(s) == \E c \in Calls : call[c].pc = "settle" /\ call[c].session = s
OrphanInv == BoundOnce /\ QuietDiscs /\ \A s \in Sessions : Kept(s) \/ Starting(s)

(* A disconnect keeps in view those of the connects it found in flight     *)
(* that still are.                                                         *)
OlderFlies == \A d \in Discs : \A c \in disc[d].older : InFlight(c)
StickInv == OlderFlies /\ DisconnectSticks

(* No session is referred to twice.                                        *)
Used(s) == server[s].state # "unused"
OneOwner ==
    /\ \A p, q \in Profiles : binding[p] # None /\ binding[q] # None
           /\ binding[p].session = binding[q].session => p = q
    /\ \A c \in Calls, p \in Profiles : call[c].pc = "settle" /\ binding[p] # None
           => binding[p].session # call[c].session
    /\ \A c, k \in Calls : call[c].pc = "settle" /\ call[k].pc = "settle"
           /\ call[c].session = call[k].session => c = k
    /\ \A p \in Profiles : binding[p] # None => Used(binding[p].session)
    /\ \A c \in Calls : call[c].pc = "settle" => Used(call[c].session)

-----------------------------------------------------------------------------
(* What each kind of step does to the calls.  A call in flight that moves  *)
(* on keeps what it is for.                                                *)
LEMMA FlightKeeps ==
    ASSUME TypeInv, NEW c \in Calls,
           \/ SignedIn(c) \/ PickContext(c) \/ OpenStored(c) \/ OpenFresh(c)
           \/ Attached(c) \/ AttachGone(c) \/ Resolved(c) \/ Settled(c)
           \/ RememberContext(c)
    PROVE  /\ InFlight(c) /\ InFlight(c)'
           /\ UNCHANGED <<connecting, live, disc, generations, settings, deleting, server>>
           /\ \A k \in Calls : k # c => call'[k] = call[k]
           /\ call'[c].profile = call[c].profile /\ call'[c].result = call[c].result
           /\ call'[c].endpoint = call[c].endpoint /\ call'[c].asked = call[c].asked
           /\ call'[c].pc \in {"held", "remember"} => RememberContext(c)
<1>0. call[c] \in Call /\ call \in [Calls -> Call]
  BY DEF TypeInv, TypeOK
<1>1. CASE SignedIn(c)
  BY <1>0, <1>1 DEF SignedIn, InFlight, Phases, Advance, Call, user
<1>2. CASE PickContext(c)
  <2>1. PICK x \in Offered[call[c].endpoint] :
           call' = [call EXCEPT ![c] = [call[c] EXCEPT !.pc = "open", !.context = x]]
    BY <1>2 DEF PickContext
  <2>2. /\ InFlight(c)
        /\ UNCHANGED <<connecting, live, disc, generations, settings, deleting, server>>
    BY <1>2 DEF PickContext, InFlight, Phases, user
  <2>3. QED
    BY <1>0, <2>1, <2>2 DEF InFlight, Phases, Call
<1>3. CASE OpenStored(c)
  <2>1. /\ InFlight(c)
        /\ UNCHANGED <<connecting, live, disc, generations, settings, deleting, server>>
    BY <1>3 DEF OpenStored, InFlight, Phases, user
  <2>2. PICK s : \/ call' = [call EXCEPT ![c] = [call[c] EXCEPT !.pc = "attach", !.session = s]]
                 \/ call' = [call EXCEPT ![c] = [call[c] EXCEPT !.pc = "resolve"]]
    BY <1>3 DEF OpenStored, Advance
  <2>3. CASE call' = [call EXCEPT ![c] = [call[c] EXCEPT !.pc = "attach", !.session = s]]
    BY <1>0, <2>1, <2>3 DEF InFlight, Phases, Call
  <2>4. CASE call' = [call EXCEPT ![c] = [call[c] EXCEPT !.pc = "resolve"]]
    BY <1>0, <2>1, <2>4 DEF InFlight, Phases, Call
  <2>5. QED
    BY <2>2, <2>3, <2>4
<1>4. CASE OpenFresh(c)
  BY <1>0, <1>4 DEF OpenFresh, InFlight, Phases, Advance, Call, user
<1>5. CASE Attached(c)
  BY <1>0, <1>5 DEF Attached, InFlight, Phases, Advance, Call, user
<1>6. CASE AttachGone(c)
  BY <1>0, <1>6 DEF AttachGone, InFlight, Phases, Advance, Call, user
<1>7. CASE Resolved(c)
  BY <1>0, <1>7 DEF Resolved, InFlight, Phases, Advance, Call, user
<1>8. CASE Settled(c)
  BY <1>0, <1>8 DEF Settled, InFlight, Phases, Advance, Call, user
<1>9. CASE RememberContext(c)
  BY <1>0, <1>9 DEF RememberContext, InFlight, Phases, Advance, Call, user
<1>10. QED
  BY <1>1, <1>2, <1>3, <1>4, <1>5, <1>6, <1>7, <1>8, <1>9

(* The answer a started session gives moves its call on.                   *)
LEMMA CreatedKeeps ==
    ASSUME TypeInv, NEW c \in Calls, NEW s \in Sessions, call[c].pc = "create",
           call' = [call EXCEPT ![c] = [@ EXCEPT !.pc = "settle", !.session = s]]
    PROVE  /\ \A k \in Calls : k # c => call'[k] = call[k]
           /\ call'[c].pc = "settle" /\ call'[c].session = s
           /\ call'[c].profile = call[c].profile /\ call'[c].result = call[c].result
           /\ call'[c].endpoint = call[c].endpoint /\ call'[c].asked = call[c].asked
           /\ call'[c].context = call[c].context
BY DEF TypeInv, TypeOK, Call

(* A settled promise gives its answer to the leader and to those that      *)
(* joined it, and to nobody else.                                          *)
LEMMA FinishAnswers ==
    ASSUME NEW c \in Calls, NEW result, Finish(c, result)
    PROVE  \A k \in Calls :
              \/ /\ k = c \/ (call[k].pc = "joined" /\ call[k].lead = c)
                 /\ call'[k].pc = "done" /\ call'[k].profile = call[k].profile
                 /\ call'[k].result = result
              \/ /\ k # c /\ ~(call[k].pc = "joined" /\ call[k].lead = c)
                 /\ call'[k] = call[k]
BY DEF Finish, IdleCall

(* A connect settles with nothing, or with the connection it holds.        *)
LEMMA SettlingAnswers ==
    ASSUME TypeInv, NEW c \in Calls,
           \/ GiveUp(c) \/ Created(c) \/ NotSettled(c)
           \/ Connected(c) \/ Remembered(c)
    PROVE  /\ InFlight(c) /\ UNCHANGED <<live, generations, binding>>
           /\ \/ Finish(c, None)
              \/ call[c].pc \in {"held", "remember"} /\ Finish(c, call[c].result)
              \/ /\ call[c].pc = "create" /\ UNCHANGED <<connecting, disc, left>>
                 /\ \E s \in Sessions :
                       /\ server[s].state = "unused"
                       /\ server' = [server EXCEPT ![s] = [state |-> "pending",
                                                           home |-> call[c].endpoint]]
                       /\ call' = [call EXCEPT ![c] = [@ EXCEPT !.pc = "settle",
                                                                !.session = s]]
<1>1. InFlight(c) /\ UNCHANGED <<live, generations, binding>>
  BY DEF GiveUp, Created, NotSettled, Connected, Remembered, InFlight, Phases
<1>2. CASE Created(c)
  BY <1>1, <1>2 DEF Created
<1>3. CASE ~Created(c)
  BY <1>1, <1>3 DEF GiveUp, NotSettled, Connected, Remembered
<1>4. QED
  BY <1>1, <1>2, <1>3

(* Taking a slot or giving one back.                                       *)
LEMMA ConnectTakes ==
    ASSUME TypeInv, NEW c \in Calls,
           JoinConnect(c) \/ ReuseConnection(c) \/ LeadConnect(c) \/ Return(c)
    PROVE  /\ ~InFlight(c) /\ call[c].pc # "joined"
           /\ UNCHANGED <<live, generations, binding, server, left, deleting, disc, settings>>
           /\ \A k \in Calls : k # c => call'[k] = call[k]
           /\ \/ /\ JoinConnect(c) /\ call'[c].pc = "joined"
                 /\ call'[c].lead = connecting[Active] /\ call'[c].profile = Active
              \/ /\ ReuseConnection(c) /\ call'[c].pc = "done"
                 /\ call'[c].result = live[Active] /\ call'[c].profile = Active
              \/ LeadConnect(c) /\ call'[c].pc = "auth" /\ call'[c].profile = Active
              \/ Return(c) /\ call'[c].pc = "idle"
<1>0. /\ ~InFlight(c) /\ call[c].pc # "joined"
      /\ UNCHANGED <<live, generations, binding, server, left, deleting, disc, settings>>
  BY DEF JoinConnect, ReuseConnection, LeadConnect, Return, InFlight, Phases, user
<1>1. call \in [Calls -> Call]
  BY DEF TypeInv, TypeOK
<1>2. CASE JoinConnect(c)
  BY <1>0, <1>1, <1>2 DEF JoinConnect, IdleCall
<1>3. CASE ReuseConnection(c)
  BY <1>0, <1>1, <1>3 DEF ReuseConnection, IdleCall
<1>4. CASE LeadConnect(c)
  BY <1>0, <1>1, <1>4 DEF LeadConnect, IdleCall
<1>5. CASE Return(c)
  BY <1>0, <1>1, <1>5 DEF Return, IdleCall
<1>6. QED
  BY <1>2, <1>3, <1>4, <1>5

(* Holding a connection.                                                   *)
LEMMA HoldMakes ==
    ASSUME TypeInv, NEW c \in Calls, Hold(c)
    PROVE  /\ InFlight(c) /\ call[c].profile \in Profiles /\ call[c].session \in Sessions
           /\ UNCHANGED <<connecting, binding, server, left, deleting, disc, settings>>
           /\ \A k \in Calls : k # c => call'[k] = call[k]
           /\ call'[c].pc = "held" /\ call'[c].profile = call[c].profile
           /\ call'[c].endpoint = call[c].endpoint /\ call'[c].asked = call[c].asked
           /\ call'[c].context = call[c].context /\ call'[c].session = call[c].session
           /\ \A p \in Profiles : p # call[c].profile => live'[p] = live[p]
           /\ \E conn \in Connection :
                 /\ live'[call[c].profile] = conn /\ call'[c].result = conn
                 /\ conn.profile = call[c].profile /\ conn.session = call[c].session
                 /\ conn.endpoint = call[c].endpoint
                 /\ conn.generation \in {None, call[c].endpoint}
<1>0. /\ call[c] \in Call /\ call \in [Calls -> Call] /\ call[c].pc = "hold"
      /\ call[c].profile \in Profiles /\ call[c].endpoint \in Endpoints
      /\ call[c].context \in Contexts /\ call[c].session \in Sessions
  BY DEF TypeInv, TypeOK, CallsOK, Hold, RecordOK, Phases
<1> DEFINE Conn(g) == [profile |-> call[c].profile, endpoint |-> call[c].endpoint,
                       context |-> call[c].context, session |-> call[c].session,
                       generation |-> g]
<1>1. PICK g \in {call[c].endpoint, None} :
         /\ live' = [live EXCEPT ![call[c].profile] = Conn(g)]
         /\ call' = [call EXCEPT ![c] = [@ EXCEPT !.pc = "held", !.result = Conn(g)]]
  BY DEF Hold, CachedGeneration
<1>2. Conn(g) \in Connection
  BY <1>0, <1>1 DEF Connection
<1>3. /\ Conn(g).profile = call[c].profile /\ Conn(g).session = call[c].session
      /\ Conn(g).endpoint = call[c].endpoint /\ Conn(g).generation = g
  OBVIOUS
<1>4. UNCHANGED <<connecting, binding, server, left, deleting, disc, settings>>
  BY DEF Hold, user
<1> HIDE DEF Conn
<1>5. /\ \A k \in Calls : k # c => call'[k] = call[k]
      /\ call'[c].pc = "held" /\ call'[c].profile = call[c].profile
      /\ call'[c].endpoint = call[c].endpoint /\ call'[c].asked = call[c].asked
      /\ call'[c].context = call[c].context /\ call'[c].session = call[c].session
      /\ call'[c].result = Conn(g)
  BY <1>0, <1>1 DEF Call
<1>6. /\ \A p \in Profiles : p # call[c].profile => live'[p] = live[p]
      /\ live'[call[c].profile] = Conn(g)
  BY <1>0, <1>1 DEF TypeInv, TypeOK
<1>7. QED
  BY <1>0, <1>1, <1>2, <1>3, <1>4, <1>5, <1>6 DEF InFlight, Phases

(* All else leaves the calls alone, and at most lets go of connections.    *)
LEMMA OthersLeave ==
    ASSUME TypeInv,
           \/ \E d \in Discs :
                 \/ StartDisconnect(d) \/ DisconnectStep(d)
                 \/ ReturnDisconnect(d)
           \/ \E p \in Profiles : Forget(p) \/ SwitchProfile(p) \/ EditProfile(p)
           \/ \E s \in Sessions :
                 UnawaitedDelete(s) \/ SessionReady(s) \/ SessionReaped(s)
           \/ UNCHANGED vars
    PROVE  /\ UNCHANGED <<call, connecting, generations>>
           /\ \A p \in Profiles : live'[p] = live[p] \/ live'[p] = None
BY DEF StartDisconnect, DisconnectStep, ResumeDisconnect, SessionDeleted,
       ReturnDisconnect, EndsHeld, Forget, SwitchProfile, EditProfile, memory,
       UnawaitedDelete, SessionReady, SessionReaped, vars, TypeInv, TypeOK

-----------------------------------------------------------------------------
(* Whose answer.                                                           *)
LEMMA FlightOwn ==
    ASSUME TypeInv, SingleFlight, OwnInv, NEW c \in Calls, InFlight(c), InFlight(c)',
           UNCHANGED live,
           \A k \in Calls : k # c => call'[k] = call[k],
           call'[c].profile = call[c].profile, call'[c].result = call[c].result,
           call'[c].pc \in {"held", "remember"} => call[c].pc \in {"held", "remember"}
    PROVE  OwnInv'
<1>1. JoinsOwn'
  <2>1. ASSUME NEW k \in Calls, call'[k].pc = "joined"
        PROVE  /\ call'[k].lead \in Calls /\ call'[call'[k].lead].pc \in Phases
               /\ call'[call'[k].lead].profile = call'[k].profile
    <3>1. k # c /\ call'[k] = call[k]
      BY <2>1 DEF InFlight, Phases
    <3>2. QED
      BY <2>1, <3>1 DEF OwnInv, JoinsOwn, InFlight
  <2>2. QED
    BY <2>1 DEF JoinsOwn, InFlight
<1>2. HeldIsOwn' /\ LiveIsOwn' /\ ResultIsForAskedProfile'
  BY DEF OwnInv, HeldIsOwn, LiveIsOwn, ResultIsForAskedProfile, InFlight, Phases
<1>3. QED
  BY <1>1, <1>2 DEF OwnInv

LEMMA FinishOwn ==
    ASSUME TypeInv, SingleFlight, OwnInv, NEW c \in Calls, InFlight(c), NEW result,
           Finish(c, result), UNCHANGED live,
           result # None => result.profile = call[c].profile
    PROVE  OwnInv'
<1>1. \A k \in Calls : \/ /\ k = c \/ (call[k].pc = "joined" /\ call[k].lead = c)
                         /\ call'[k].pc = "done" /\ call'[k].profile = call[k].profile
                         /\ call'[k].result = result
                      \/ /\ k # c /\ ~(call[k].pc = "joined" /\ call[k].lead = c)
                         /\ call'[k] = call[k]
  BY FinishAnswers
<1>2. JoinsOwn'
  <2>1. ASSUME NEW k \in Calls, call'[k].pc = "joined"
        PROVE  /\ call'[k].lead \in Calls /\ call'[call'[k].lead].pc \in Phases
               /\ call'[call'[k].lead].profile = call'[k].profile
    <3>1. call'[k] = call[k] /\ call[k].lead # c
      BY <1>1, <2>1
    <3>2. /\ call[k].lead \in Calls /\ call[call[k].lead].pc \in Phases
          /\ call[call[k].lead].profile = call[k].profile
      BY <2>1, <3>1 DEF OwnInv, JoinsOwn, InFlight
    <3>3. call'[call[k].lead] = call[call[k].lead]
      BY <1>1, <3>1, <3>2 DEF Phases
    <3>4. QED
      BY <3>1, <3>2, <3>3
  <2>2. QED
    BY <2>1 DEF JoinsOwn, InFlight
<1>3. HeldIsOwn' /\ LiveIsOwn'
  BY <1>1 DEF OwnInv, HeldIsOwn, LiveIsOwn
<1>4. ResultIsForAskedProfile'
  <2>1. ASSUME NEW k \in Calls, call'[k].pc = "done", call'[k].result # None
        PROVE  call'[k].result.profile = call'[k].profile
    <3>1. CASE k = c \/ (call[k].pc = "joined" /\ call[k].lead = c)
      <4>1. call'[k].result = result /\ call'[k].profile = call[k].profile
        BY <1>1, <3>1
      <4>2. call[k].profile = call[c].profile
        BY <3>1 DEF OwnInv, JoinsOwn
      <4>3. QED
        BY <2>1, <4>1, <4>2
    <3>2. CASE ~(k = c \/ (call[k].pc = "joined" /\ call[k].lead = c))
      BY <1>1, <2>1, <3>2 DEF OwnInv, ResultIsForAskedProfile
    <3>3. QED
      BY <3>1, <3>2
  <2>2. QED
    BY <2>1 DEF ResultIsForAskedProfile
<1>5. QED
  BY <1>2, <1>3, <1>4 DEF OwnInv

LEMMA SettlingOwn ==
    ASSUME TypeInv, SingleFlight, OwnInv, NEW c \in Calls,
           \/ GiveUp(c) \/ Created(c) \/ NotSettled(c)
           \/ Connected(c) \/ Remembered(c)
    PROVE  OwnInv'
<1>1. InFlight(c) /\ UNCHANGED live
  BY SettlingAnswers
<1>2. CASE Finish(c, None)
  BY <1>1, <1>2, FinishOwn
<1>3. CASE call[c].pc \in {"held", "remember"} /\ Finish(c, call[c].result)
  <2>1. call[c].result.profile = call[c].profile
    BY <1>3 DEF OwnInv, HeldIsOwn
  <2>2. QED
    BY <1>1, <1>3, <2>1, FinishOwn
<1>4. CASE /\ call[c].pc = "create"
           /\ \E s \in Sessions : call' = [call EXCEPT ![c] =
                                    [@ EXCEPT !.pc = "settle", !.session = s]]
  <2>1. PICK s \in Sessions : call' = [call EXCEPT ![c] =
                                    [@ EXCEPT !.pc = "settle", !.session = s]]
    BY <1>4
  <2>2. /\ \A k \in Calls : k # c => call'[k] = call[k]
        /\ call'[c].pc = "settle" /\ call'[c].profile = call[c].profile
        /\ call'[c].result = call[c].result
    BY <1>4, <2>1, CreatedKeeps
  <2>3. InFlight(c)'
    BY <2>2 DEF InFlight, Phases
  <2>4. QED
    BY <1>1, <2>2, <2>3, FlightOwn
<1>5. QED
  BY <1>2, <1>3, <1>4, SettlingAnswers

LEMMA ConnectOwn ==
    ASSUME TypeInv, SingleFlight, OwnInv, NEW c \in Calls,
           JoinConnect(c) \/ ReuseConnection(c) \/ LeadConnect(c) \/ Return(c)
    PROVE  OwnInv'
<1>0. /\ ~InFlight(c) /\ UNCHANGED live
      /\ \A k \in Calls : k # c => call'[k] = call[k]
      /\ call'[c].pc \in {"joined", "done", "auth", "idle"}
  BY ConnectTakes
<1>1. Active # None => Active \in Profiles
  BY ActiveKnown DEF TypeInv
<1>2. ASSUME NEW k \in Calls, InFlight(k)
      PROVE  call'[k] = call[k]
  BY <1>0, <1>2
<1>3. JoinsOwn'
  <2>1. ASSUME NEW k \in Calls, call'[k].pc = "joined"
        PROVE  /\ call'[k].lead \in Calls /\ call'[call'[k].lead].pc \in Phases
               /\ call'[call'[k].lead].profile = call'[k].profile
    <3>1. /\ call'[k].lead \in Calls /\ InFlight(call'[k].lead)
          /\ call[call'[k].lead].profile = call'[k].profile
      <4>1. CASE k # c
        BY <1>0, <2>1, <4>1 DEF OwnInv, JoinsOwn
      <4>2. CASE k = c
        <5>1. JoinConnect(c) /\ call'[c].lead = connecting[Active] /\ call'[c].profile = Active
          BY <2>1, <4>2, ConnectTakes
        <5>2. connecting[Active] # None /\ Active \in Profiles /\ connecting[Active] \in Calls
          BY <1>1, <5>1 DEF JoinConnect, TypeInv, TypeOK
        <5>3. QED
          BY <4>2, <5>1, <5>2 DEF SingleFlight, Led
      <4>3. QED
        BY <4>1, <4>2
    <3>2. QED
      BY <1>2, <3>1 DEF InFlight
  <2>2. QED
    BY <2>1 DEF JoinsOwn, InFlight
<1>4. HeldIsOwn' /\ LiveIsOwn'
  BY <1>0 DEF OwnInv, HeldIsOwn, LiveIsOwn
<1>5. ResultIsForAskedProfile'
  <2>1. ASSUME NEW k \in Calls, call'[k].pc = "done", call'[k].result # None
        PROVE  call'[k].result.profile = call'[k].profile
    <3>1. CASE k # c
      BY <1>0, <2>1, <3>1 DEF OwnInv, ResultIsForAskedProfile
    <3>2. CASE k = c
      <4>1. /\ ReuseConnection(c) /\ call'[c].result = live[Active]
            /\ call'[c].profile = Active
        BY <2>1, <3>2, ConnectTakes
      <4>2. QED
        BY <1>1, <2>1, <3>2, <4>1 DEF ReuseConnection, OwnInv, LiveIsOwn
    <3>3. QED
      BY <3>1, <3>2
  <2>2. QED
    BY <2>1 DEF ResultIsForAskedProfile
<1>6. QED
  BY <1>3, <1>4, <1>5 DEF OwnInv

LEMMA HoldOwn ==
    ASSUME TypeInv, SingleFlight, OwnInv, NEW c \in Calls, Hold(c)
    PROVE  OwnInv'
<1>1. /\ InFlight(c) /\ call[c].profile \in Profiles
      /\ \A k \in Calls : k # c => call'[k] = call[k]
      /\ call'[c].pc = "held" /\ call'[c].profile = call[c].profile
      /\ \A p \in Profiles : p # call[c].profile => live'[p] = live[p]
  BY HoldMakes
<1>2. PICK conn \in Connection :
         /\ live'[call[c].profile] = conn /\ call'[c].result = conn
         /\ conn.profile = call[c].profile
  BY HoldMakes
<1>3. conn # None
  BY <1>2, NoneAssumption
<1>4. JoinsOwn'
  BY <1>1 DEF OwnInv, JoinsOwn, InFlight, Phases
<1>5. HeldIsOwn' /\ LiveIsOwn' /\ ResultIsForAskedProfile'
  BY <1>1, <1>2, <1>3 DEF OwnInv, HeldIsOwn, LiveIsOwn, ResultIsForAskedProfile
<1>6. QED
  BY <1>4, <1>5 DEF OwnInv

LEMMA NextOwn ==
    ASSUME TypeInv, SingleFlight, OwnInv, [Next]_vars
    PROVE  OwnInv'
<1>1. ASSUME NEW c \in Calls,
             \/ SignedIn(c) \/ PickContext(c) \/ OpenStored(c) \/ OpenFresh(c)
             \/ Attached(c) \/ AttachGone(c) \/ Resolved(c) \/ Settled(c)
             \/ RememberContext(c)
      PROVE  OwnInv'
  <2>1. RememberContext(c) => call[c].pc = "held"
    BY DEF RememberContext
  <2>2. QED
    BY <1>1, <2>1, FlightKeeps, FlightOwn
<1>2. CASE \/ \E d \in Discs :
                 \/ StartDisconnect(d) \/ DisconnectStep(d)
                 \/ ReturnDisconnect(d)
           \/ \E p \in Profiles : Forget(p) \/ SwitchProfile(p) \/ EditProfile(p)
           \/ \E s \in Sessions :
                 UnawaitedDelete(s) \/ SessionReady(s) \/ SessionReaped(s)
           \/ UNCHANGED vars
  <2>1. UNCHANGED call /\ \A p \in Profiles : live'[p] = live[p] \/ live'[p] = None
    BY <1>2, OthersLeave
  <2>2. QED
    BY <2>1
    DEF OwnInv, JoinsOwn, HeldIsOwn, LiveIsOwn, ResultIsForAskedProfile, InFlight
<1>3. CASE Reload
  BY <1>3 DEF Reload, IdleCall, OwnInv, JoinsOwn, HeldIsOwn, LiveIsOwn,
              ResultIsForAskedProfile
<1>4. QED
  BY <1>1, <1>2, <1>3, SettlingOwn, ConnectOwn, HoldOwn DEF Next, ConnectStep

(* What connect() answers with is a connection of the profile it was asked *)
(* for: connecting has one entry for each profile, so a call joins a       *)
(* leader of its own.                                                      *)
THEOREM AnswersAreOwn == Spec => []ResultIsForAskedProfile
<1>1. Init => OwnInv
  BY DEF Init, IdleCall, OwnInv, JoinsOwn, HeldIsOwn, LiveIsOwn,
         ResultIsForAskedProfile
<1>2. TypeInv /\ SingleFlight /\ OwnInv /\ [Next]_vars => OwnInv'
  BY NextOwn
<1>3. OwnInv => ResultIsForAskedProfile
  BY DEF OwnInv
<1>4. QED
  BY <1>1, <1>2, <1>3, FlightInvariant, PTL DEF Spec

-----------------------------------------------------------------------------
(* What is known of a deployment.                                          *)
LEMMA FlightPicks ==
    ASSUME TypeInv, NEW c \in Calls,
           \/ SignedIn(c) \/ PickContext(c) \/ OpenStored(c) \/ OpenFresh(c)
           \/ Attached(c) \/ AttachGone(c) \/ Resolved(c) \/ Settled(c)
           \/ RememberContext(c)
    PROVE  \/ /\ call'[c].context = call[c].context
              /\ \/ call[c].pc \notin {"auth", "context"}
                 \/ call'[c].pc = "context" \/ ~call[c].asked
           \/ call'[c].context \in Offered[call[c].endpoint]
<1>0. call[c] \in Call /\ call \in [Calls -> Call]
  BY DEF TypeInv, TypeOK
<1>1. CASE SignedIn(c)
  BY <1>0, <1>1 DEF SignedIn, Advance, Call
<1>2. CASE PickContext(c)
  <2>1. PICK x \in Offered[call[c].endpoint] :
           call' = [call EXCEPT ![c] = [call[c] EXCEPT !.pc = "open", !.context = x]]
    BY <1>2 DEF PickContext
  <2>2. QED
    BY <1>0, <2>1 DEF Call
<1>3. CASE OpenStored(c)
  <2>1. PICK s : \/ call' = [call EXCEPT ![c] = [call[c] EXCEPT !.pc = "attach", !.session = s]]
                 \/ call' = [call EXCEPT ![c] = [call[c] EXCEPT !.pc = "resolve"]]
    BY <1>3 DEF OpenStored, Advance
  <2>2. call[c].pc = "open"
    BY <1>3 DEF OpenStored
  <2>3. CASE call' = [call EXCEPT ![c] = [call[c] EXCEPT !.pc = "attach", !.session = s]]
    BY <1>0, <2>2, <2>3 DEF Call
  <2>4. CASE call' = [call EXCEPT ![c] = [call[c] EXCEPT !.pc = "resolve"]]
    BY <1>0, <2>2, <2>4 DEF Call
  <2>5. QED
    BY <2>1, <2>3, <2>4
<1>4. CASE OpenFresh(c)
  BY <1>0, <1>4 DEF OpenFresh, Advance, Call
<1>5. CASE Attached(c)
  BY <1>0, <1>5 DEF Attached, Advance, Call
<1>6. CASE AttachGone(c)
  BY <1>0, <1>6 DEF AttachGone, Call
<1>7. CASE Resolved(c)
  BY <1>0, <1>7 DEF Resolved, Advance, Call
<1>8. CASE Settled(c)
  BY <1>0, <1>8 DEF Settled, Advance, Call
<1>9. CASE RememberContext(c)
  BY <1>0, <1>9 DEF RememberContext, Call
<1>10. QED
  BY <1>1, <1>2, <1>3, <1>4, <1>5, <1>6, <1>7, <1>8, <1>9

(* What the connect is about to write is under the endpoint it read.       *)
LEMMA WritesOffered ==
    ASSUME TypeInv, KnownInv, NEW c \in Calls, RememberContext(c)
    PROVE  LET written == call'[c].upsert[call[c].profile] IN
           written.context \in Offered[written.endpoint]
<1>0. /\ call[c] \in Call /\ call \in [Calls -> Call] /\ call[c].pc = "held"
      /\ call[c].profile \in Profiles /\ MayRemember(c)
      /\ settings[call[c].profile] \in Setting
  BY DEF TypeInv, TypeOK, CallsOK, RememberContext, MayRemember, RecordOK, Phases, SettingsFile
<1> DEFINE file == [settings EXCEPT ![call[c].profile].context = call[c].context]
<1>1. call' = [call EXCEPT ![c] = [@ EXCEPT !.pc = "remember", !.upsert = file]]
  BY DEF RememberContext
<1>2. /\ file[call[c].profile].context = call[c].context
      /\ file[call[c].profile].endpoint = call[c].endpoint
  BY <1>0 DEF MayRemember, TypeInv, TypeOK, SettingsFile, Setting
<1> HIDE DEF file
<1>3. call'[c].upsert = file
  BY <1>0, <1>1 DEF Call
<1>4. call[c].context \in Offered[call[c].endpoint]
  BY <1>0 DEF KnownInv, PickedIsOffered, MayRemember, Phases
<1>5. QED
  BY <1>2, <1>3, <1>4

LEMMA FlightKnown ==
    ASSUME TypeInv, KnownInv, NEW c \in Calls,
           \/ SignedIn(c) \/ PickContext(c) \/ OpenStored(c) \/ OpenFresh(c)
           \/ Attached(c) \/ AttachGone(c) \/ Resolved(c) \/ Settled(c)
           \/ RememberContext(c)
    PROVE  KnownInv'
<1>1. /\ InFlight(c) /\ UNCHANGED live
      /\ \A k \in Calls : k # c => call'[k] = call[k]
      /\ call'[c].endpoint = call[c].endpoint /\ call'[c].asked = call[c].asked
      /\ call'[c].profile = call[c].profile
      /\ call'[c].pc \in {"held", "remember"} => RememberContext(c)
  BY FlightKeeps
<1>2. PickedIsOffered'
  BY <1>1, FlightPicks DEF KnownInv, PickedIsOffered, InFlight, Phases
<1>3. GenerationFitsEndpoint'
  BY <1>1 DEF KnownInv, KnownFitsEndpoint, GenerationFitsEndpoint
<1>4. RememberedContextOffered'
  BY <1>1, WritesOffered DEF KnownInv, KnownFitsEndpoint, RememberedContextOffered
<1>5. QED
  BY <1>2, <1>3, <1>4 DEF KnownInv, KnownFitsEndpoint

LEMMA SettlingKnown ==
    ASSUME TypeInv, KnownInv, NEW c \in Calls,
           \/ GiveUp(c) \/ Created(c) \/ NotSettled(c)
           \/ Connected(c) \/ Remembered(c)
    PROVE  KnownInv'
<1>1. UNCHANGED live
  BY SettlingAnswers
<1>2. \A k \in Calls :
        \/ call'[k] = call[k]
        \/ call'[k].pc = "done"
        \/ /\ k = c /\ call[c].pc = "create" /\ call'[c].pc = "settle"
           /\ call'[c].context = call[c].context /\ call'[c].asked = call[c].asked
           /\ call'[c].endpoint = call[c].endpoint
  <2>1. CASE \E result : Finish(c, result)
    BY <2>1, FinishAnswers
  <2>2. CASE /\ call[c].pc = "create"
             /\ \E s \in Sessions : call' = [call EXCEPT ![c] =
                                      [@ EXCEPT !.pc = "settle", !.session = s]]
    BY <2>2, CreatedKeeps
  <2>3. QED
    BY <2>1, <2>2, SettlingAnswers
<1>3. QED
  BY <1>1, <1>2 DEF KnownInv, KnownFitsEndpoint, PickedIsOffered,
                    GenerationFitsEndpoint, RememberedContextOffered, Phases

LEMMA NextKnown ==
    ASSUME TypeInv, KnownInv, [Next]_vars
    PROVE  KnownInv'
<1> USE DEF KnownInv, KnownFitsEndpoint, PickedIsOffered,
            GenerationFitsEndpoint, RememberedContextOffered
<1>1. ASSUME NEW c \in Calls,
             JoinConnect(c) \/ ReuseConnection(c) \/ LeadConnect(c) \/ Return(c)
      PROVE  KnownInv'
  <2>1. /\ UNCHANGED live
        /\ \A k \in Calls : k # c => call'[k] = call[k]
        /\ call'[c].pc \in {"joined", "done", "auth", "idle"}
    BY <1>1, ConnectTakes
  <2>2. QED
    BY <2>1 DEF Phases
<1>2. ASSUME NEW c \in Calls, Hold(c) PROVE KnownInv'
  <2>1. /\ call[c].pc = "hold" /\ call[c].profile \in Profiles
        /\ \A k \in Calls : k # c => call'[k] = call[k]
        /\ call'[c].pc = "held" /\ call'[c].context = call[c].context
        /\ call'[c].endpoint = call[c].endpoint /\ call'[c].asked = call[c].asked
        /\ \A p \in Profiles : p # call[c].profile => live'[p] = live[p]
    BY <1>2, HoldMakes DEF Hold
  <2>2. /\ live'[call[c].profile].endpoint = call[c].endpoint
        /\ live'[call[c].profile].generation \in {None, call[c].endpoint}
    BY <1>2, HoldMakes
  <2>3. PickedIsOffered' /\ RememberedContextOffered'
    BY <2>1 DEF Phases
  <2>4. GenerationFitsEndpoint'
    BY <2>1, <2>2
  <2>5. QED
    BY <2>3, <2>4
<1>3. CASE \/ \E d \in Discs :
                 \/ StartDisconnect(d) \/ DisconnectStep(d)
                 \/ ReturnDisconnect(d)
           \/ \E p \in Profiles : Forget(p) \/ SwitchProfile(p) \/ EditProfile(p)
           \/ \E s \in Sessions :
                 UnawaitedDelete(s) \/ SessionReady(s) \/ SessionReaped(s)
           \/ UNCHANGED vars
  <2>1. UNCHANGED call /\ \A p \in Profiles : live'[p] = live[p] \/ live'[p] = None
    BY <1>3, OthersLeave
  <2>2. QED
    BY <2>1
<1>4. CASE Reload
  BY <1>4 DEF Reload, IdleCall, Phases
<1>5. QED
  BY <1>1, <1>2, <1>3, <1>4, FlightKnown, SettlingKnown DEF Next, ConnectStep

(* The dialect a connection speaks and the context a connect writes back   *)
(* fit the deployment they are used against: both are compared with the    *)
(* endpoint the connect began on, whatever was edited since.               *)
THEOREM KnownFits == Spec => []KnownFitsEndpoint
<1>1. Init => KnownInv
  BY DEF Init, IdleCall, Phases, KnownInv, KnownFitsEndpoint, PickedIsOffered,
         GenerationFitsEndpoint, RememberedContextOffered
<1>2. TypeInv /\ KnownInv /\ [Next]_vars => KnownInv'
  BY NextKnown
<1>3. KnownInv => KnownFitsEndpoint
  BY DEF KnownInv
<1>4. Spec => []TypeInv
  BY FlightInvariant, PTL
<1>5. QED
  BY <1>1, <1>2, <1>3, <1>4, PTL DEF Spec

-----------------------------------------------------------------------------
(* Where sessions go.  A step that takes a binding away, or a deletion,    *)
(* passes the session on.                                                  *)
LEMMA KeptOn ==
    ASSUME NEW s \in Sessions, Kept(s), Alive(s)' => Alive(s),
           s \in left \cup deleting /\ Alive(s)' => s \in left' \cup deleting',
           \A p \in Profiles : binding[p] # None /\ binding[p].session = s =>
              \/ binding'[p] = binding[p] \/ s \in left'
              \/ \E d \in Discs : disc'[d].session = s,
           \A d \in Discs : disc[d].session = s /\ Alive(s)' =>
              \/ disc'[d].session = s \/ s \in left'
    PROVE  Kept(s)'
<1>1. CASE ~Alive(s)'
  BY <1>1 DEF Kept
<1>2. CASE Alive(s)' /\ s \in left' \cup deleting'
  BY <1>2 DEF Kept
<1>3. CASE Alive(s)' /\ s \notin left' \cup deleting'
  <2>1. \/ \E p \in Profiles : binding[p] # None /\ binding[p].session = s
        \/ \E d \in Discs : disc[d].session = s
    BY <1>3 DEF Kept
  <2>2. \/ \E p \in Profiles : binding'[p] # None /\ binding'[p].session = s
        \/ \E d \in Discs : disc'[d].session = s
    BY <1>3, <2>1
  <2>3. QED
    BY <2>2 DEF Kept
<1>4. QED
  BY <1>1, <1>2, <1>3

(* A connect changes the binding of its own profile only: it passes on a   *)
(* session it takes out of there, and puts in the one it waited for.       *)
LEMMA FlightBinds ==
    ASSUME TypeInv, NEW c \in Calls,
           \/ SignedIn(c) \/ PickContext(c) \/ OpenStored(c) \/ OpenFresh(c)
           \/ Attached(c) \/ AttachGone(c) \/ Resolved(c) \/ Settled(c)
           \/ RememberContext(c)
    PROVE  /\ call[c].profile \in Profiles
           /\ \A p \in Profiles : p # call[c].profile => binding'[p] = binding[p]
           /\ \/ /\ UNCHANGED <<binding, left>> /\ call'[c].session = call[c].session
                 /\ \/ call'[c].pc \in {"context", "open", "remember"}
                    \/ (call[c].pc = "resolve" /\ call'[c].pc = "create")
                    \/ (call[c].pc = "attach" /\ call'[c].pc = "hold")
                 /\ call[c].pc # "settle"
              \/ /\ UNCHANGED <<binding, left>> /\ call[c].pc = "open"
                 /\ \/ /\ call'[c].pc = "attach" /\ binding[call[c].profile] # None
                       /\ call'[c].session = binding[call[c].profile].session
                    \/ call'[c].pc = "resolve" /\ binding[call[c].profile] = None
              \/ /\ call[c].pc = "open" /\ call'[c].pc = "resolve"
                 /\ binding[call[c].profile] # None /\ binding'[call[c].profile] = None
                 /\ left' = left \cup {binding[call[c].profile].session}
              \/ /\ call[c].pc = "attach" /\ call'[c].pc = "resolve"
                 /\ binding'[call[c].profile] = None
                 /\ left' = left \cup {call[c].session}
              \/ /\ call[c].pc = "settle" /\ call'[c].pc = "hold"
                 /\ UNCHANGED left /\ call'[c].session = call[c].session
                 /\ binding'[call[c].profile] =
                       [session |-> call[c].session, context |-> call[c].context]
<1>0. /\ call[c] \in Call /\ call \in [Calls -> Call]
      /\ binding \in [Profiles -> Binding \cup {None}]
      /\ call[c].profile \in Profiles
  BY FlightKeeps DEF TypeInv, TypeOK, CallsOK, RecordOK, InFlight, Phases
<1>1. CASE SignedIn(c)
  <2>1. /\ UNCHANGED <<binding, left>> /\ call[c].pc = "auth"
        /\ call' = [call EXCEPT ![c] = [call[c] EXCEPT !.pc =
                              IF call[c].asked THEN "context" ELSE "open"]]
    BY <1>1 DEF SignedIn, Advance
  <2>2. call'[c].session = call[c].session /\ call'[c].pc \in {"context", "open"}
    BY <1>0, <2>1 DEF Call
  <2>3. QED
    BY <1>0, <2>1, <2>2
<1>2. CASE PickContext(c)
  <2>1. PICK x \in Offered[call[c].endpoint] :
           call' = [call EXCEPT ![c] = [call[c] EXCEPT !.pc = "open", !.context = x]]
    BY <1>2 DEF PickContext
  <2>2. UNCHANGED <<binding, left>> /\ call[c].pc = "context"
    BY <1>2 DEF PickContext
  <2>3. call'[c].session = call[c].session /\ call'[c].pc = "open"
    BY <1>0, <2>1 DEF Call
  <2>4. QED
    BY <1>0, <2>2, <2>3
<1>3. CASE OpenStored(c)
  <2>1. call[c].pc = "open" /\ binding[call[c].profile] # None
    BY <1>3 DEF OpenStored
  <2>2. CASE binding[call[c].profile].context = call[c].context
    <3>1. PICK s : /\ s = binding[call[c].profile].session
                   /\ call' = [call EXCEPT ![c] = [call[c] EXCEPT !.pc = "attach", !.session = s]]
                   /\ UNCHANGED <<binding, left>>
      BY <1>3, <2>2 DEF OpenStored
    <3>2. call'[c].pc = "attach" /\ call'[c].session = s
      BY <1>0, <3>1 DEF Call
    <3>3. QED
      BY <1>0, <2>1, <3>1, <3>2
  <2>3. CASE binding[call[c].profile].context # call[c].context
    <3>1. /\ call' = [call EXCEPT ![c] = [call[c] EXCEPT !.pc = "resolve"]]
          /\ binding' = [binding EXCEPT ![call[c].profile] = None]
          /\ left' = left \cup {binding[call[c].profile].session}
      BY <1>3, <2>3 DEF OpenStored, Advance
    <3>2. call'[c].pc = "resolve"
      BY <1>0, <3>1 DEF Call
    <3>3. /\ binding'[call[c].profile] = None
          /\ \A p \in Profiles : p # call[c].profile => binding'[p] = binding[p]
      BY <1>0, <3>1
    <3>4. QED
      BY <1>0, <2>1, <3>1, <3>2, <3>3
  <2>4. QED
    BY <2>2, <2>3
<1>4. CASE OpenFresh(c)
  <2>1. /\ UNCHANGED <<binding, left>> /\ call[c].pc = "open"
        /\ binding[call[c].profile] = None /\ call'[c].pc = "resolve"
    BY <1>0, <1>4 DEF OpenFresh, Advance, Call
  <2>2. QED
    BY <1>0, <2>1
<1>5. CASE Attached(c)
  <2>1. /\ UNCHANGED <<binding, left>> /\ call[c].pc = "attach"
        /\ call'[c].session = call[c].session /\ call'[c].pc = "hold"
    BY <1>0, <1>5 DEF Attached, Advance, Call
  <2>2. QED
    BY <1>0, <2>1
<1>6. CASE AttachGone(c)
  <2>1. /\ call[c].pc = "attach" /\ call'[c].pc = "resolve"
        /\ left' = left \cup {call[c].session}
        /\ binding'[call[c].profile] = None
        /\ \A p \in Profiles : p # call[c].profile => binding'[p] = binding[p]
    BY <1>0, <1>6 DEF AttachGone, Call
  <2>2. QED
    BY <1>0, <2>1
<1>7. CASE Resolved(c)
  <2>1. /\ UNCHANGED <<binding, left>> /\ call[c].pc = "resolve"
        /\ call'[c].session = call[c].session /\ call'[c].pc = "create"
    BY <1>0, <1>7 DEF Resolved, Advance, Call
  <2>2. QED
    BY <1>0, <2>1
<1>8. CASE Settled(c)
  <2>1. /\ call[c].pc = "settle" /\ call'[c].pc = "hold" /\ UNCHANGED left
        /\ call'[c].session = call[c].session
    BY <1>0, <1>8 DEF Settled, Advance, Call
  <2>2. /\ binding'[call[c].profile] =
              [session |-> call[c].session, context |-> call[c].context]
        /\ \A p \in Profiles : p # call[c].profile => binding'[p] = binding[p]
    BY <1>0, <1>8 DEF Settled
  <2>3. QED
    BY <1>0, <2>1, <2>2
<1>9. CASE RememberContext(c)
  <2>1. PICK file : call' = [call EXCEPT ![c] =
                              [call[c] EXCEPT !.pc = "remember", !.upsert = file]]
    BY <1>9 DEF RememberContext
  <2>2. UNCHANGED <<binding, left>> /\ call[c].pc = "held"
    BY <1>9 DEF RememberContext
  <2>3. call'[c].session = call[c].session /\ call'[c].pc = "remember"
    BY <1>0, <2>1 DEF Call
  <2>4. QED
    BY <1>0, <2>2, <2>3
<1>10. QED
  BY <1>1, <1>2, <1>3, <1>4, <1>5, <1>6, <1>7, <1>8, <1>9

LEMMA FlightOrphan ==
    ASSUME TypeInv, SingleFlight, OrphanInv, NEW c \in Calls,
           \/ SignedIn(c) \/ PickContext(c) \/ OpenStored(c) \/ OpenFresh(c)
           \/ Attached(c) \/ AttachGone(c) \/ Resolved(c) \/ Settled(c)
           \/ RememberContext(c)
    PROVE  OrphanInv'
<1> DEFINE own == call[c].profile
<1>1. /\ InFlight(c) /\ UNCHANGED <<live, disc, deleting, server>>
      /\ \A k \in Calls : k # c => call'[k] = call[k]
      /\ call'[c].profile = own
  BY FlightKeeps
<1>2. /\ own \in Profiles
      /\ \A p \in Profiles : p # own => binding'[p] = binding[p]
  BY FlightBinds
<1> HIDE DEF own
<1>3. ASSUME NEW k \in Calls, k # c, call[k].pc \in Phases
      PROVE  /\ call[k].profile \in Profiles
             /\ binding'[call[k].profile] = binding[call[k].profile]
  <2>1. call[k].profile # own /\ call[k].profile \in Profiles
    BY <1>1, <1>3
    DEF SingleFlight, Leads, InFlight, own, TypeInv, CallsOK, RecordOK, Phases
  <2>2. QED
    BY <1>2, <2>1
<1>4. BoundOnce'
  <2>1. ASSUME NEW k \in Calls, call'[k].pc \in {"resolve", "create", "settle"}
        PROVE  binding'[call'[k].profile] = None
    <3>1. CASE k = c
      BY <1>1, <2>1, <3>1, FlightBinds DEF own, OrphanInv, BoundOnce
    <3>2. CASE k # c
      BY <1>1, <1>3, <2>1, <3>2 DEF OrphanInv, BoundOnce, Phases
    <3>3. QED
      BY <3>1, <3>2
  <2>2. ASSUME NEW k \in Calls, call'[k].pc \in {"attach", "hold"},
               binding'[call'[k].profile] # None
        PROVE  binding'[call'[k].profile].session = call'[k].session
    <3>1. CASE k = c
      <4>1. \/ /\ UNCHANGED binding /\ call[c].pc = "attach"
               /\ call'[c].session = call[c].session
            \/ UNCHANGED binding /\ call'[c].session = binding[own].session
            \/ /\ call'[c].session = call[c].session
               /\ binding'[own] = [session |-> call[c].session, context |-> call[c].context]
        BY <2>2, <3>1, FlightBinds DEF own
      <4>2. CASE /\ UNCHANGED binding /\ call[c].pc = "attach"
                 /\ call'[c].session = call[c].session
        BY <1>1, <2>2, <3>1, <4>2 DEF own, OrphanInv, BoundOnce
      <4>3. QED
        BY <1>1, <2>2, <3>1, <4>1, <4>2
    <3>2. CASE k # c
      BY <1>1, <1>3, <2>2, <3>2 DEF OrphanInv, BoundOnce, Phases
    <3>3. QED
      BY <3>1, <3>2
  <2>3. ASSUME NEW p \in Profiles, live'[p] # None, binding'[p] # None
        PROVE  binding'[p].session = live'[p].session
    <3>1. CASE binding'[p] = binding[p]
      BY <1>1, <2>3, <3>1 DEF OrphanInv, BoundOnce
    <3>2. CASE binding'[p] # binding[p]
      <4>1. p = own /\ call[c].pc \notin {"held", "remember"}
        <5>1. p = own
          BY <1>2, <3>2
        <5>2. call[c].pc \in {"open", "attach", "settle"}
          BY <3>2, FlightBinds
        <5>3. QED
          BY <5>1, <5>2
      <4>2. QED
        BY <1>1, <2>3, <4>1 DEF own, SingleFlight, NotYetHeld
    <3>3. QED
      BY <3>1, <3>2
  <2>4. QED
    BY <2>1, <2>2, <2>3 DEF BoundOnce
<1>5. ASSUME NEW s \in Sessions PROVE Kept(s)' \/ Starting(s)'
  <2>1. ASSUME NEW k \in Calls, call[k].pc = "settle", call[k].session = s
        PROVE  Kept(s)' \/ Starting(s)'
    <3>1. CASE k = c
      <4>1. binding'[own] = [session |-> s, context |-> call[c].context]
        BY <2>1, <3>1, FlightBinds DEF own
      <4>2. binding'[own] # None /\ binding'[own].session = s
        <5>1. call[c].context \in Contexts
          BY <2>1, <3>1 DEF TypeInv, CallsOK, RecordOK, Phases
        <5>2. [session |-> s, context |-> call[c].context] \in Binding
          BY <5>1 DEF Binding
        <5>3. QED
          BY <4>1, <5>2, NoneAssumption
      <4>3. QED
        BY <1>2, <4>2 DEF Kept
    <3>2. CASE k # c
      BY <1>1, <2>1, <3>2 DEF Starting
    <3>3. QED
      BY <3>1, <3>2
  <2>2. CASE Kept(s)
    <3>1. left \subseteq left' /\ (Alive(s)' => Alive(s))
      BY <1>1, FlightBinds DEF Alive
    <3>2. ASSUME NEW p \in Profiles, binding[p] # None, binding[p].session = s
          PROVE  binding'[p] = binding[p] \/ s \in left'
      <4>1. CASE p # own
        BY <1>2, <4>1
      <4>2. CASE p = own
        BY <3>2, <4>2, FlightBinds DEF own, OrphanInv, BoundOnce
      <4>3. QED
        BY <4>1, <4>2
    <3>3. Kept(s)'
      BY <1>1, <2>2, <3>1, <3>2, KeptOn
    <3>4. QED
      BY <3>3
  <2>3. QED
    BY <2>1, <2>2 DEF OrphanInv, Starting
<1>6. QuietDiscs'
  BY <1>1 DEF OrphanInv, QuietDiscs
<1>7. QED
  BY <1>4, <1>5, <1>6 DEF OrphanInv

(* A connect that settles takes its session along to whoever has it next.  *)
LEMMA SettlingPasses ==
    ASSUME TypeInv, NEW c \in Calls,
           \/ GiveUp(c) \/ Created(c) \/ NotSettled(c)
           \/ Connected(c) \/ Remembered(c)
    PROVE  /\ \A d \in Discs : disc'[d].pc = disc[d].pc /\ disc'[d].session = disc[d].session
           /\ deleting \subseteq deleting' /\ left \subseteq left'
           /\ call[c].pc = "settle" => call[c].session \in deleting'
           /\ \A s \in Sessions : Alive(s)' =>
                 \/ Alive(s) \/ s \in left'
                 \/ call'[c].pc = "settle" /\ call'[c].session = s
<1>0. /\ call \in [Calls -> Call] /\ disc \in [Discs -> Disconnect]
      /\ server \in [Sessions -> Server]
  BY DEF TypeInv, TypeOK
<1>1. \A d \in Discs : disc'[d].pc = disc[d].pc /\ disc'[d].session = disc[d].session
  <2>1. CASE \E result : Finish(c, result)
    <3>1. disc' = [d \in Discs |-> [disc[d] EXCEPT
             !.waits = IF @ = c THEN None ELSE @, !.older = @ \ {c}]]
      BY <2>1 DEF Finish
    <3>2. ASSUME NEW d \in Discs
          PROVE  disc'[d].pc = disc[d].pc /\ disc'[d].session = disc[d].session
      <4>1. disc[d] \in Disconnect
        BY <1>0
      <4>2. disc'[d] = [disc[d] EXCEPT !.waits = IF @ = c THEN None ELSE @,
                                       !.older = @ \ {c}]
        BY <3>1
      <4>3. QED
        BY <4>1, <4>2 DEF Disconnect
    <3>3. QED
      BY <3>2
  <2>2. CASE UNCHANGED disc
    BY <2>2
  <2>3. QED
    BY <2>1, <2>2, SettlingAnswers
<1>2. /\ deleting \subseteq deleting' /\ left \subseteq left'
      /\ call[c].pc = "settle" => call[c].session \in deleting'
  BY DEF GiveUp, Created, NotSettled, Connected, Remembered
<1>3. ASSUME NEW s \in Sessions, Alive(s)', ~Alive(s), s \notin left'
      PROVE  call'[c].pc = "settle" /\ call'[c].session = s
  <2>1. Created(c)
    BY <1>3 DEF GiveUp, NotSettled, Connected, Remembered, Alive
  <2>2. PICK t \in Sessions :
           /\ server' = [server EXCEPT ![t] = [state |-> "pending",
                                               home |-> call[c].endpoint]]
           /\ \/ /\ call' = [call EXCEPT ![c] = [@ EXCEPT !.pc = "settle", !.session = t]]
                 /\ UNCHANGED <<connecting, disc, left>>
              \/ /\ Finish(c, None)
                 /\ left' = left \cup {t}
    BY <2>1 DEF Created
  <2>3. t = s
    BY <1>0, <1>3, <2>2 DEF Alive
  <2>4. call' = [call EXCEPT ![c] = [@ EXCEPT !.pc = "settle", !.session = t]]
    BY <1>3, <2>2, <2>3
  <2>5. QED
    BY <1>0, <2>3, <2>4 DEF Call
<1>4. QED
  BY <1>1, <1>2, <1>3

LEMMA SettlingOrphan ==
    ASSUME TypeInv, SingleFlight, OrphanInv, NEW c \in Calls,
           \/ GiveUp(c) \/ Created(c) \/ NotSettled(c)
           \/ Connected(c) \/ Remembered(c)
    PROVE  OrphanInv'
<1>1. UNCHANGED <<live, binding>>
  BY SettlingAnswers
<1>2. \A k \in Calls :
        \/ call'[k] = call[k]
        \/ call'[k].pc = "done" /\ (k = c \/ call[k].pc = "joined")
        \/ /\ k = c /\ call[c].pc = "create" /\ call'[c].pc = "settle"
           /\ call'[c].profile = call[c].profile
  <2>1. CASE \E result : Finish(c, result)
    BY <2>1, FinishAnswers
  <2>2. CASE /\ call[c].pc = "create"
             /\ \E s \in Sessions : call' = [call EXCEPT ![c] =
                                      [@ EXCEPT !.pc = "settle", !.session = s]]
    BY <2>2, CreatedKeeps
  <2>3. QED
    BY <2>1, <2>2, SettlingAnswers
<1>3. BoundOnce'
  BY <1>1, <1>2 DEF OrphanInv, BoundOnce
<1>4. QuietDiscs'
  BY SettlingPasses DEF OrphanInv, QuietDiscs
<1>5. ASSUME NEW s \in Sessions PROVE Kept(s)' \/ Starting(s)'
  <2>1. CASE \E k \in Calls : call[k].pc = "settle" /\ call[k].session = s
    <3>1. PICK k \in Calls : call[k].pc = "settle" /\ call[k].session = s
      BY <2>1
    <3>2. CASE k = c
      BY <3>1, <3>2, SettlingPasses DEF Kept
    <3>3. CASE k # c
      BY <1>2, <3>1, <3>3 DEF Starting
    <3>4. QED
      BY <3>2, <3>3
  <2>2. CASE Kept(s) /\ Alive(s)' /\ ~Alive(s)
    BY <2>2, SettlingPasses DEF Kept, Starting
  <2>3. CASE Kept(s) /\ (Alive(s)' => Alive(s))
    <3>1. Kept(s)'
      BY <1>1, <2>3, SettlingPasses, KeptOn
    <3>2. QED
      BY <3>1
  <2>4. QED
    BY <2>1, <2>2, <2>3 DEF OrphanInv, Starting
<1>6. QED
  BY <1>3, <1>4, <1>5 DEF OrphanInv

LEMMA ConnectOrphan ==
    ASSUME TypeInv, SingleFlight, OrphanInv, NEW c \in Calls,
           \/ JoinConnect(c) \/ ReuseConnection(c) \/ LeadConnect(c) \/ Return(c)
    PROVE  OrphanInv'
<1>1. /\ call[c].pc # "settle" /\ UNCHANGED <<live, binding, server, left, deleting, disc>>
      /\ \A k \in Calls : k # c => call'[k] = call[k]
      /\ call'[c].pc \in {"joined", "done", "auth", "idle"}
  BY ConnectTakes DEF InFlight, Phases
<1>2. BoundOnce' /\ QuietDiscs'
  BY <1>1 DEF OrphanInv, BoundOnce, QuietDiscs
<1>3. ASSUME NEW s \in Sessions PROVE Kept(s)' \/ Starting(s)'
  BY <1>1 DEF OrphanInv, Kept, Starting, Alive
<1>4. QED
  BY <1>2, <1>3 DEF OrphanInv

LEMMA HoldOrphan ==
    ASSUME TypeInv, SingleFlight, OrphanInv, NEW c \in Calls, Hold(c)
    PROVE  OrphanInv'
<1>1. /\ call[c].pc = "hold" /\ call[c].profile \in Profiles
      /\ UNCHANGED <<binding, server, left, deleting, disc>>
      /\ \A k \in Calls : k # c => call'[k] = call[k]
      /\ call'[c].pc = "held"
      /\ \A p \in Profiles : p # call[c].profile => live'[p] = live[p]
      /\ live'[call[c].profile].session = call[c].session
  <2>1. call[c].pc = "hold"
    BY DEF Hold
  <2>2. QED
    BY <2>1, HoldMakes
<1>2. BoundOnce' /\ QuietDiscs'
  BY <1>1 DEF OrphanInv, BoundOnce, QuietDiscs
<1>3. ASSUME NEW s \in Sessions PROVE Kept(s)' \/ Starting(s)'
  BY <1>1 DEF OrphanInv, Kept, Starting, Alive
<1>4. QED
  BY <1>2, <1>3 DEF OrphanInv

(* What a disconnect ends it deletes, or leaves knowingly.                 *)
LEMMA EndsHeldOrphan ==
    ASSUME TypeInv, OrphanInv, NEW d \in Discs, disc[d].pc # "deleting",
           NEW p \in Profiles, NEW older, EndsHeld(d, p, older),
           UNCHANGED <<call, deleting, server>>
    PROVE  OrphanInv'
<1>0. /\ disc \in [Discs -> Disconnect] /\ live \in [Profiles -> Connection \cup {None}]
      /\ binding \in [Profiles -> Binding \cup {None}] /\ None \notin Sessions
      /\ disc[d].session = None
  BY ConstantsAssumption DEF TypeInv, TypeOK, OrphanInv, QuietDiscs
<1>1. /\ live'[p] = None /\ \A q \in Profiles : q # p => live'[q] = live[q]
      /\ binding'[p] = None /\ \A q \in Profiles : q # p => binding'[q] = binding[q]
  BY <1>0 DEF EndsHeld
<1>2. /\ \A e \in Discs : e # d => disc'[e] = disc[e]
      /\ left \subseteq left'
      /\ \/ /\ live[p] # None /\ disc'[d].pc = "deleting"
            /\ disc'[d].session = live[p].session
         \/ /\ live[p] = None /\ disc'[d].pc = "told" /\ disc'[d].session = None
            /\ binding[p] # None => binding[p].session \in left'
  <2>1. CASE live[p] # None
    BY <1>0, <2>1 DEF EndsHeld
  <2>2. CASE live[p] = None
    <3>1. /\ disc' = [disc EXCEPT ![d] = [pc |-> "told", waits |-> None,
                           profile |-> p, session |-> None, older |-> older]]
          /\ left' = left \cup {b.session : b \in {binding[p]} \ {None}}
      BY <2>2 DEF EndsHeld
    <3>2. QED
      BY <1>0, <2>2, <3>1
  <2>3. QED
    BY <2>1, <2>2
<1>3. BoundOnce'
  <2>1. \A q \in Profiles : \/ binding'[q] = None
                            \/ binding'[q] = binding[q] /\ live'[q] = live[q]
    BY <1>1
  <2>2. \A c \in Calls : call[c].pc \in Phases => call[c].profile \in Profiles
    BY DEF TypeInv, CallsOK, RecordOK, Phases
  <2>3. QED
    BY <2>1, <2>2 DEF OrphanInv, BoundOnce, Phases
<1>4. QuietDiscs'
  BY <1>2 DEF OrphanInv, QuietDiscs
<1>5. ASSUME NEW s \in Sessions, Kept(s) PROVE Kept(s)'
  <2>1. ASSUME NEW q \in Profiles, binding[q] # None, binding[q].session = s
        PROVE  \/ binding'[q] = binding[q] \/ s \in left'
               \/ \E e \in Discs : disc'[e].session = s
    <3>1. CASE q = p
      BY <1>2, <2>1, <3>1 DEF OrphanInv, BoundOnce
    <3>2. CASE q # p
      BY <1>1, <3>2
    <3>3. QED
      BY <3>1, <3>2
  <2>2. ASSUME NEW e \in Discs, disc[e].session = s
        PROVE  disc'[e].session = s
    BY <1>0, <1>2, <2>2
  <2>3. (Alive(s)' => Alive(s)) /\ left \cup deleting \subseteq left' \cup deleting'
    BY <1>2 DEF Alive
  <2>4. QED
    BY <1>5, <2>1, <2>2, <2>3, KeptOn
<1>6. \A s \in Sessions : Kept(s)' \/ Starting(s)'
  BY <1>5 DEF OrphanInv, Starting
<1>7. QED
  BY <1>3, <1>4, <1>6 DEF OrphanInv

LEMMA DisconnectOrphan ==
    ASSUME TypeInv, OrphanInv, NEW d \in Discs,
           \/ StartDisconnect(d) \/ ResumeDisconnect(d)
           \/ SessionDeleted(d) \/ ReturnDisconnect(d)
    PROVE  OrphanInv'
<1>0. /\ UNCHANGED <<call, deleting>> /\ disc \in [Discs -> Disconnect]
      /\ None \notin Sessions /\ server \in [Sessions -> Server]
      /\ disc[d].pc # "deleting" => disc[d].session = None
  BY ConstantsAssumption
  DEF StartDisconnect, ResumeDisconnect, SessionDeleted, ReturnDisconnect,
      TypeInv, TypeOK, OrphanInv, QuietDiscs
<1>1. CASE \E p \in Profiles : \E older :
              disc[d].pc # "deleting" /\ UNCHANGED server /\ EndsHeld(d, p, older)
  BY <1>0, <1>1, EndsHeldOrphan
<1>2. CASE /\ UNCHANGED <<live, binding, left, server>>
           /\ disc[d].pc # "deleting"
           /\ \A e \in Discs : e # d => disc'[e] = disc[e]
           /\ disc'[d].session = None
  <2>1. BoundOnce' /\ QuietDiscs'
    BY <1>0, <1>2 DEF OrphanInv, BoundOnce, QuietDiscs
  <2>2. ASSUME NEW s \in Sessions PROVE Kept(s)' \/ Starting(s)'
    BY <1>0, <1>2 DEF OrphanInv, Kept, Starting, Alive
  <2>3. QED
    BY <2>1, <2>2 DEF OrphanInv
<1>3. CASE SessionDeleted(d)
  <2>1. /\ UNCHANGED <<live, binding>> /\ left \subseteq left'
        /\ \A s \in Sessions : Alive(s)' => Alive(s)
        /\ \A s \in Sessions : s = disc[d].session => ~Alive(s)' \/ s \in left'
        /\ \A e \in Discs : e # d => disc'[e] = disc[e]
        /\ disc'[d].session = None
    <3>1. /\ UNCHANGED <<live, binding>>
          /\ disc' = [disc EXCEPT ![d] = [disc[d] EXCEPT !.pc = "told", !.session = None]]
          /\ DeletedOrLeft(disc[d].session) /\ disc[d].session \in Sessions
      BY <1>3 DEF SessionDeleted, TypeInv, DiscsOK
    <3>2. /\ \A e \in Discs : e # d => disc'[e] = disc[e]
          /\ disc'[d].session = None
      BY <1>0, <3>1 DEF Disconnect
    <3>3. /\ left \subseteq left'
          /\ \A s \in Sessions : Alive(s)' => Alive(s)
          /\ \A s \in Sessions : s = disc[d].session => ~Alive(s)' \/ s \in left'
      BY <1>0, <3>1 DEF DeletedOrLeft, Alive, Server
    <3>4. QED
      BY <3>1, <3>2, <3>3
  <2>2. BoundOnce' /\ QuietDiscs'
    BY <1>0, <2>1 DEF OrphanInv, BoundOnce, QuietDiscs
  <2>3. ASSUME NEW s \in Sessions PROVE Kept(s)' \/ Starting(s)'
    BY <1>0, <2>1 DEF OrphanInv, Kept, Starting
  <2>4. QED
    BY <2>2, <2>3 DEF OrphanInv
<1>4. QED
  <2>1. CASE StartDisconnect(d)
    <3>1. Active \in Profiles /\ disc[d].pc # "deleting" /\ UNCHANGED server
      BY <2>1, ActiveKnown DEF StartDisconnect, TypeInv
    <3>2. CASE connecting[Active] # None
      <4>1. disc' = [disc EXCEPT ![d] = [IdleDisc EXCEPT !.pc = "waiting",
               !.waits = connecting[Active], !.older = {c \in Calls : InFlight(c)}]]
        BY <2>1, <3>2 DEF StartDisconnect
      <4>2. /\ \A e \in Discs : e # d => disc'[e] = disc[e]
            /\ disc'[d].session = None
        BY <1>0, <4>1 DEF IdleDisc
      <4>3. UNCHANGED <<live, binding, left, server>>
        BY <2>1, <3>2 DEF StartDisconnect
      <4>4. QED
        BY <1>2, <3>1, <4>2, <4>3
    <3>3. CASE connecting[Active] = None
      BY <1>1, <2>1, <3>1, <3>3 DEF StartDisconnect
    <3>4. QED
      BY <3>2, <3>3
  <2>2. CASE ResumeDisconnect(d)
    <3>1. disc[d].pc # "deleting" /\ UNCHANGED server
      BY <2>2 DEF ResumeDisconnect
    <3>2. CASE Active = None
      BY <1>0, <1>2, <2>2, <3>1, <3>2 DEF ResumeDisconnect, IdleDisc
    <3>3. CASE Active # None
      BY <1>1, <2>2, <3>1, <3>3, ActiveKnown DEF ResumeDisconnect, TypeInv
    <3>4. QED
      BY <3>2, <3>3
  <2>3. CASE ReturnDisconnect(d)
    BY <1>0, <1>2, <2>3 DEF ReturnDisconnect, IdleDisc
  <2>4. QED
    BY <1>3, <2>1, <2>2, <2>3

LEMMA EnvironmentOrphan ==
    ASSUME TypeInv, OrphanInv,
           \/ \E p \in Profiles : Forget(p) \/ SwitchProfile(p) \/ EditProfile(p)
           \/ \E s \in Sessions :
                 UnawaitedDelete(s) \/ SessionReady(s) \/ SessionReaped(s)
           \/ UNCHANGED vars
    PROVE  OrphanInv'
<1>1. /\ UNCHANGED <<call, binding, disc>> /\ left \subseteq left'
      /\ \A p \in Profiles : live'[p] = live[p] \/ live'[p] = None
  BY OthersLeave
  DEF Forget, SwitchProfile, EditProfile, memory, UnawaitedDelete, SessionReady,
      SessionReaped, DeletedOrLeft, vars
<1>2. BoundOnce' /\ QuietDiscs'
  BY <1>1 DEF OrphanInv, BoundOnce, QuietDiscs
<1>3. \A s \in Sessions : Alive(s)' => Alive(s)
  <2>1. server \in [Sessions -> Server]
    BY DEF TypeInv, TypeOK
  <2>2. CASE UNCHANGED server
    BY <2>2 DEF Alive
  <2>3. CASE \E t \in Sessions : server' = [server EXCEPT ![t].state = "gone"]
    BY <2>1, <2>3 DEF Alive, Server
  <2>4. CASE \E t \in Sessions : SessionReady(t)
    BY <2>1, <2>4 DEF SessionReady, Alive, Server
  <2>5. QED
    BY <2>2, <2>3, <2>4
    DEF Forget, SwitchProfile, EditProfile, memory, UnawaitedDelete, SessionReaped,
        DeletedOrLeft, vars
<1>4. \A s \in Sessions : s \in deleting /\ Alive(s)' => s \in left' \cup deleting'
  <2>1. CASE UNCHANGED deleting
    BY <2>1
  <2>2. ASSUME NEW t \in Sessions, UnawaitedDelete(t), NEW s \in Sessions,
               s \in deleting, Alive(s)'
        PROVE  s \in left' \cup deleting'
    <3>1. server \in [Sessions -> Server]
      BY DEF TypeInv, TypeOK
    <3>2. deleting' = deleting \ {t}
      BY <2>2 DEF UnawaitedDelete
    <3>3. s = t => s \in left'
      BY <2>2, <3>1 DEF UnawaitedDelete, DeletedOrLeft, Alive, Server
    <3>4. QED
      BY <2>2, <3>2, <3>3
  <2>3. QED
    BY <2>1, <2>2
    DEF Forget, SwitchProfile, EditProfile, memory, SessionReady, SessionReaped, vars
<1>5. ASSUME NEW s \in Sessions PROVE Kept(s)' \/ Starting(s)'
  BY <1>1, <1>3, <1>4 DEF OrphanInv, Kept, Starting
<1>6. QED
  BY <1>2, <1>5 DEF OrphanInv

(* A reload gives up on the sessions nothing but memory referred to.       *)
LEMMA ReloadOrphan ==
    ASSUME TypeInv, OrphanInv, Reload
    PROVE  OrphanInv'
<1>1. BoundOnce' /\ QuietDiscs'
  BY DEF Reload, BoundOnce, QuietDiscs, IdleCall, IdleDisc
<1>2. ASSUME NEW s \in Sessions, Alive(s)',
             \A p \in Profiles : binding'[p] # None => binding'[p].session # s
      PROVE  s \in left'
  <2>1. /\ Alive(s)
        /\ \A p \in Profiles : binding[p] # None => binding[p].session # s
    BY <1>2 DEF Reload, Alive
  <2>2. CASE s \in left
    BY <2>2 DEF Reload
  <2>3. CASE s \notin left
    <3>1. OnlyInMemory(s)
      BY <2>1, <2>3 DEF OrphanInv, Kept, Starting, OnlyInMemory, InFlight, Phases
    <3>2. QED
      BY <3>1 DEF Reload
  <2>4. QED
    BY <2>2, <2>3
<1>3. \A s \in Sessions : Kept(s)' \/ Starting(s)'
  BY <1>2 DEF Kept
<1>4. QED
  BY <1>1, <1>3 DEF OrphanInv

LEMMA NextOrphan ==
    ASSUME TypeInv, SingleFlight, OrphanInv, [Next]_vars
    PROVE  OrphanInv'
BY FlightOrphan, SettlingOrphan, ConnectOrphan, HoldOrphan, DisconnectOrphan,
   EnvironmentOrphan, ReloadOrphan DEF Next, ConnectStep, DisconnectStep

(* No compute session runs on that nothing refers to, unless the code lets *)
(* it go knowingly.  Single flight is what it takes: a connect that starts *)
(* or takes up a session has no other of its profile to overwrite.         *)
THEOREM NothingIsLost == Spec => []NoSilentOrphan
<1>1. Init => OrphanInv
  BY DEF Init, IdleCall, IdleDisc, OrphanInv, BoundOnce, QuietDiscs, Kept, Alive
<1>2. TypeInv /\ SingleFlight /\ OrphanInv /\ [Next]_vars => OrphanInv'
  BY NextOrphan
<1>3. OrphanInv => NoSilentOrphan
  BY DEF OrphanInv, NoSilentOrphan, Referred, Kept, Starting, InFlight, Phases
<1>4. QED
  BY <1>1, <1>2, <1>3, FlightInvariant, PTL DEF Spec

-----------------------------------------------------------------------------
(* What a disconnect ends stays ended.  It is enough that the connects it  *)
(* keeps in view are in flight still, for the profile they were for.       *)
LEMMA StickOn ==
    ASSUME TypeInv, StickInv,
           \A d \in Discs : \A c \in disc'[d].older :
              c \in Calls /\ InFlight(c)' /\ call'[c].profile = call[c].profile,
           \A d \in Discs : disc'[d].pc \in {"deleting", "told"} =>
              \/ /\ disc[d].pc \in {"deleting", "told"}
                 /\ disc'[d].profile = disc[d].profile
                 /\ disc'[d].older \subseteq disc[d].older
              \/ \A c \in disc'[d].older : call[c].profile # disc'[d].profile
    PROVE  StickInv'
<1>1. OlderFlies'
  BY DEF OlderFlies
<1>2. ASSUME NEW d \in Discs, disc'[d].pc \in {"deleting", "told"},
             NEW c \in disc'[d].older
      PROVE  call'[c].profile # disc'[d].profile
  BY <1>2 DEF StickInv, DisconnectSticks
<1>3. QED
  BY <1>1, <1>2 DEF StickInv, DisconnectSticks

(* A connect in flight that moves on.                                      *)
LEMMA FlightSticks ==
    ASSUME TypeInv, StickInv, NEW c \in Calls, InFlight(c), InFlight(c)',
           UNCHANGED disc, call'[c].profile = call[c].profile,
           \A k \in Calls : k # c => call'[k] = call[k]
    PROVE  StickInv'
<1>1. \A d \in Discs : disc[d].older \subseteq Calls
  BY DEF TypeInv, TypeOK, Disconnect
<1>2. \A k \in Calls : InFlight(k) => InFlight(k)' /\ call'[k].profile = call[k].profile
  BY DEF InFlight
<1>3. QED
  BY <1>1, <1>2, StickOn DEF StickInv, OlderFlies

LEMMA FinishSticks ==
    ASSUME TypeInv, StickInv, NEW c \in Calls, NEW result, InFlight(c), Finish(c, result)
    PROVE  StickInv'
<1>1. ASSUME NEW d \in Discs
      PROVE  /\ disc'[d].pc = disc[d].pc /\ disc'[d].profile = disc[d].profile
             /\ disc'[d].older = disc[d].older \ {c} /\ disc[d].older \subseteq Calls
  <2>1. disc[d] \in Disconnect
    BY DEF TypeInv, TypeOK
  <2>2. disc'[d] = [disc[d] EXCEPT !.waits = IF @ = c THEN None ELSE @,
                                   !.older = @ \ {c}]
    BY DEF Finish
  <2>3. QED
    BY <2>1, <2>2 DEF Disconnect
<1>2. \A k \in Calls : InFlight(k) /\ k # c => call'[k] = call[k]
  BY FinishAnswers DEF InFlight, Phases
<1>3. ASSUME NEW d \in Discs, NEW k \in disc'[d].older
      PROVE  k \in Calls /\ InFlight(k)' /\ call'[k].profile = call[k].profile
  <2>1. k \in Calls /\ k # c /\ InFlight(k)
    BY <1>1, <1>3 DEF StickInv, OlderFlies
  <2>2. QED
    BY <1>2, <2>1 DEF InFlight
<1>4. QED
  BY <1>1, <1>3, StickOn

LEMMA ConnectSticks ==
    ASSUME TypeInv, StickInv, NEW c \in Calls,
           \/ JoinConnect(c) \/ ReuseConnection(c) \/ LeadConnect(c)
           \/ ConnectStep(c) \/ Return(c)
    PROVE  StickInv'
<1>1. CASE \/ JoinConnect(c) \/ ReuseConnection(c) \/ LeadConnect(c) \/ Return(c)
  <2>1. /\ ~InFlight(c) /\ UNCHANGED disc
        /\ \A k \in Calls : k # c => call'[k] = call[k]
    BY <1>1, ConnectTakes
  <2>2. \A d \in Discs : disc[d].older \subseteq Calls
    BY DEF TypeInv, TypeOK, Disconnect
  <2>3. \A d \in Discs : \A k \in disc'[d].older :
          k \in Calls /\ InFlight(k)' /\ call'[k].profile = call[k].profile
    BY <2>1, <2>2 DEF StickInv, OlderFlies, InFlight
  <2>4. QED
    BY <2>1, <2>3, StickOn
<1>2. CASE \/ SignedIn(c) \/ PickContext(c) \/ OpenStored(c) \/ OpenFresh(c)
           \/ Attached(c) \/ AttachGone(c) \/ Resolved(c) \/ Settled(c)
           \/ RememberContext(c)
  BY <1>2, FlightKeeps, FlightSticks
<1>3. CASE Hold(c)
  <2>1. InFlight(c)'
    BY <1>3, HoldMakes DEF InFlight, Phases
  <2>2. QED
    BY <1>3, <2>1, HoldMakes, FlightSticks
<1>4. CASE \/ GiveUp(c) \/ Created(c) \/ NotSettled(c)
           \/ Connected(c) \/ Remembered(c)
  <2>1. InFlight(c)
    BY <1>4, SettlingAnswers
  <2>2. CASE \E result : Finish(c, result)
    BY <2>1, <2>2, FinishSticks
  <2>3. CASE /\ call[c].pc = "create" /\ UNCHANGED disc
             /\ \E s \in Sessions : call' = [call EXCEPT ![c] =
                                      [@ EXCEPT !.pc = "settle", !.session = s]]
    <3>1. InFlight(c)' /\ call'[c].profile = call[c].profile
          /\ \A k \in Calls : k # c => call'[k] = call[k]
      BY <2>3, CreatedKeeps DEF InFlight, Phases
    <3>2. QED
      BY <2>1, <2>3, <3>1, FlightSticks
  <2>4. QED
    BY <1>4, <2>2, <2>3, SettlingAnswers
<1>5. QED
  BY <1>1, <1>2, <1>3, <1>4 DEF ConnectStep

(* A disconnect decides only once no connect of the profile is in flight.  *)
LEMMA EndsHeldSticks ==
    ASSUME TypeInv, SingleFlight, StickInv, NEW d \in Discs, NEW p \in Profiles,
           connecting[p] = None, NEW older, EndsHeld(d, p, older), UNCHANGED call,
           \A c \in older : c \in Calls /\ InFlight(c)
    PROVE  StickInv'
<1>1. disc \in [Discs -> Disconnect] /\ None \notin Calls
  BY ConstantsAssumption DEF TypeInv, TypeOK
<1>2. \A c \in older : call[c].profile # p
  BY <1>1 DEF SingleFlight, Leads
<1>3. /\ \A e \in Discs : e # d => disc'[e] = disc[e]
      /\ disc'[d].profile = p /\ disc'[d].older = older
  BY <1>1 DEF EndsHeld
<1>4. ASSUME NEW e \in Discs, NEW c \in disc'[e].older
      PROVE  c \in Calls /\ InFlight(c)' /\ call'[c].profile = call[c].profile
  <2>1. c \in Calls /\ InFlight(c)
    BY <1>1, <1>3, <1>4 DEF StickInv, OlderFlies, Disconnect
  <2>2. QED
    BY <2>1 DEF InFlight
<1>5. QED
  BY <1>2, <1>3, <1>4, StickOn

LEMMA DisconnectHolds ==
    ASSUME FullInv, StickInv, NEW d \in Discs,
           \/ StartDisconnect(d) \/ ResumeDisconnect(d)
           \/ SessionDeleted(d) \/ ReturnDisconnect(d)
    PROVE  StickInv'
<1>0. /\ UNCHANGED call /\ TypeInv /\ SingleFlight
      /\ disc \in [Discs -> Disconnect]
  BY DEF StartDisconnect, ResumeDisconnect, SessionDeleted, ReturnDisconnect,
         FullInv, TypeInv, TypeOK
<1>1. CASE /\ \A e \in Discs : e # d => disc'[e] = disc[e]
           /\ \A c \in disc'[d].older : c \in Calls /\ InFlight(c)
           /\ disc'[d].pc \in {"deleting", "told"} =>
                 /\ disc[d].pc \in {"deleting", "told"}
                 /\ disc'[d].profile = disc[d].profile
                 /\ disc'[d].older \subseteq disc[d].older
  <2>1. \A e \in Discs : \A c \in disc'[e].older :
          c \in Calls /\ InFlight(c)' /\ call'[c].profile = call[c].profile
    BY <1>0, <1>1 DEF StickInv, OlderFlies, InFlight, Disconnect
  <2>2. QED
    BY <1>0, <1>1, <2>1, StickOn
<1>2. CASE StartDisconnect(d)
  <2> DEFINE older == {c \in Calls : InFlight(c)}
  <2>1. CASE connecting[Active] # None
    <3>1. disc' = [disc EXCEPT ![d] = [IdleDisc EXCEPT !.pc = "waiting",
                     !.waits = connecting[Active], !.older = older]]
      BY <1>2, <2>1 DEF StartDisconnect
    <3>2. /\ \A e \in Discs : e # d => disc'[e] = disc[e]
          /\ disc'[d].pc = "waiting" /\ disc'[d].older = older
      BY <1>0, <3>1 DEF IdleDisc
    <3>3. QED
      BY <1>1, <3>2
  <2>2. CASE connecting[Active] = None
    <3>1. Active \in Profiles /\ EndsHeld(d, Active, older)
      BY <1>0, <1>2, <2>2, ActiveKnown DEF StartDisconnect, TypeInv
    <3>2. QED
      BY <1>0, <2>2, <3>1, EndsHeldSticks
  <2>3. QED
    BY <2>1, <2>2
<1>3. CASE ResumeDisconnect(d)
  <2>1. CASE Active = None
    BY <1>0, <1>1, <1>3, <2>1 DEF ResumeDisconnect, IdleDisc
  <2>2. CASE Active # None
    <3>1. connecting[Active] = None
      BY <1>3, <2>2, ConstantsAssumption
      DEF ResumeDisconnect, FullInv, BindingInv, Waits
    <3>2. Active \in Profiles /\ EndsHeld(d, Active, disc[d].older)
      BY <1>0, <1>3, <2>2, ActiveKnown DEF ResumeDisconnect, TypeInv
    <3>3. \A c \in disc[d].older : c \in Calls /\ InFlight(c)
      BY <1>0 DEF StickInv, OlderFlies, Disconnect
    <3>4. QED
      BY <1>0, <3>1, <3>2, <3>3, EndsHeldSticks
  <2>3. QED
    BY <2>1, <2>2
<1>4. CASE SessionDeleted(d)
  <2>1. /\ disc' = [disc EXCEPT ![d] = [disc[d] EXCEPT !.pc = "told", !.session = None]]
        /\ disc[d].pc = "deleting" /\ disc[d] \in Disconnect
    BY <1>0, <1>4 DEF SessionDeleted
  <2>2. /\ \A e \in Discs : e # d => disc'[e] = disc[e]
        /\ disc'[d].profile = disc[d].profile /\ disc'[d].older = disc[d].older
    BY <1>0, <2>1 DEF Disconnect
  <2>3. \A c \in disc[d].older : c \in Calls /\ InFlight(c)
    BY <1>0 DEF StickInv, OlderFlies, Disconnect
  <2>4. QED
    BY <1>1, <2>1, <2>2, <2>3
<1>5. CASE ReturnDisconnect(d)
  BY <1>0, <1>1, <1>5 DEF ReturnDisconnect, IdleDisc
<1>6. QED
  BY <1>2, <1>3, <1>4, <1>5

LEMMA NextSticks ==
    ASSUME FullInv, StickInv, [Next]_vars
    PROVE  StickInv'
<1>0. TypeInv
  BY DEF FullInv
<1>1. CASE \/ \E p \in Profiles : Forget(p) \/ SwitchProfile(p) \/ EditProfile(p)
           \/ \E s \in Sessions :
                 UnawaitedDelete(s) \/ SessionReady(s) \/ SessionReaped(s)
           \/ UNCHANGED vars
  <2>1. UNCHANGED <<call, disc>>
    BY <1>1 DEF Forget, SwitchProfile, EditProfile, memory, UnawaitedDelete,
                SessionReady, SessionReaped, vars
  <2>2. QED
    BY <2>1 DEF StickInv, OlderFlies, DisconnectSticks, InFlight
<1>2. CASE Reload
  BY <1>2 DEF Reload, IdleDisc, StickInv, OlderFlies, DisconnectSticks
<1>3. QED
  BY <1>0, <1>1, <1>2, ConnectSticks, DisconnectHolds DEF Next, DisconnectStep

(* Once disconnect() has decided what it ends, no connect of that profile  *)
(* that was under way when it was asked comes up behind it: it waited for  *)
(* the one there was, as long as the profile in use stays the same.        *)
THEOREM DisconnectsStick ==
    ASSUME ~SwitchDuringDisconnect
    PROVE  Spec => []DisconnectSticks
<1>1. Init => StickInv
  BY DEF Init, IdleDisc, StickInv, OlderFlies, DisconnectSticks
<1>2. FullInv /\ StickInv /\ [Next]_vars => StickInv'
  BY NextSticks
<1>3. StickInv => DisconnectSticks
  BY DEF StickInv
<1>4. Spec => []FullInv
  BY FullInvariant
<1>5. QED
  BY <1>1, <1>2, <1>3, <1>4, PTL DEF Spec

-----------------------------------------------------------------------------
(* Nobody else's session.  A session is referred to once, by the binding   *)
(* of a profile or by the connect that waits for it.                       *)
LEMMA OwnerOn ==
    ASSUME OneOwner,
           \A s \in Sessions : Used(s) => Used(s)',
           \A p \in Profiles : binding'[p] # None =>
              binding'[p] = binding[p] /\ binding[p].session \in Sessions,
           \A c \in Calls : call'[c].pc = "settle" =>
              /\ call[c].pc = "settle" /\ call'[c].session = call[c].session
              /\ call[c].session \in Sessions
    PROVE  OneOwner'
<1>1. \A p, q \in Profiles : binding'[p] # None /\ binding'[q] # None
         /\ binding'[p].session = binding'[q].session => p = q
  BY DEF OneOwner
<1>2. \A c \in Calls, p \in Profiles : call'[c].pc = "settle" /\ binding'[p] # None
         => binding'[p].session # call'[c].session
  BY DEF OneOwner
<1>3. \A c, k \in Calls : call'[c].pc = "settle" /\ call'[k].pc = "settle"
         /\ call'[c].session = call'[k].session => c = k
  BY DEF OneOwner
<1>4. \A p \in Profiles : binding'[p] # None => server'[binding'[p].session].state # "unused"
  BY DEF OneOwner, Used
<1>5. \A c \in Calls : call'[c].pc = "settle" => server'[call'[c].session].state # "unused"
  BY DEF OneOwner, Used
<1>6. QED
  BY <1>1, <1>2, <1>3, <1>4, <1>5 DEF OneOwner, Used

LEMMA FlightOwner ==
    ASSUME TypeInv, OneOwner, NEW c \in Calls,
           \/ SignedIn(c) \/ PickContext(c) \/ OpenStored(c) \/ OpenFresh(c)
           \/ Attached(c) \/ AttachGone(c) \/ Resolved(c) \/ Settled(c)
           \/ RememberContext(c)
    PROVE  OneOwner'
<1> DEFINE own == call[c].profile
<1>1. /\ own \in Profiles /\ UNCHANGED server
      /\ \A k \in Calls : k # c => call'[k] = call[k]
      /\ \A p \in Profiles : p # own => binding'[p] = binding[p]
  BY FlightKeeps, FlightBinds
<1> HIDE DEF own
<1>2. /\ \A p \in Profiles : binding[p] # None => binding[p].session \in Sessions
      /\ \A k \in Calls : call[k].pc = "settle" => call[k].session \in Sessions
  BY DEF TypeInv, TypeOK, Binding, CallsOK, RecordOK, Phases
<1>3. CASE /\ call'[c].pc # "settle"
           /\ binding'[own] = None \/ binding'[own] = binding[own]
  <2>1. \A p \in Profiles : binding'[p] # None => binding'[p] = binding[p]
    BY <1>1, <1>3
  <2>2. \A k \in Calls : call'[k].pc = "settle" => call'[k] = call[k]
    BY <1>1, <1>3
  <2>3. QED
    BY <1>1, <1>2, <2>1, <2>2, OwnerOn DEF Used
<1>4. CASE /\ call[c].pc = "settle" /\ call'[c].pc = "hold"
           /\ binding'[own] = [session |-> call[c].session, context |-> call[c].context]
  <2>1. /\ binding'[own].session = call[c].session
        /\ \A p \in Profiles : p # own => binding'[p] = binding[p]
        /\ \A k \in Calls : call'[k].pc = "settle" => k # c /\ call'[k] = call[k]
    BY <1>1, <1>4
  <2>2. QED
    BY <1>1, <1>4, <2>1 DEF OneOwner, Used
<1>5. QED
  <2>1. \/ /\ call'[c].pc # "settle"
           /\ binding'[own] = None \/ binding'[own] = binding[own]
        \/ /\ call[c].pc = "settle" /\ call'[c].pc = "hold"
           /\ binding'[own] = [session |-> call[c].session, context |-> call[c].context]
    BY FlightBinds DEF own
  <2>2. QED
    BY <1>3, <1>4, <2>1

LEMMA SettlingOwner ==
    ASSUME TypeInv, OneOwner, NEW c \in Calls,
           \/ GiveUp(c) \/ Created(c) \/ NotSettled(c)
           \/ Connected(c) \/ Remembered(c)
    PROVE  OneOwner'
<1>0. /\ server \in [Sessions -> Server] /\ UNCHANGED binding
      /\ \A p \in Profiles : binding[p] # None => binding[p].session \in Sessions
      /\ \A k \in Calls : call[k].pc = "settle" => call[k].session \in Sessions
  BY SettlingAnswers DEF TypeInv, TypeOK, Binding, CallsOK, RecordOK, Phases
<1>1. CASE \E result : Finish(c, result)
  <2>1. \A k \in Calls : call'[k].pc = "settle" => call'[k] = call[k]
    BY <1>1, FinishAnswers
  <2>2. \A s \in Sessions : Used(s) => Used(s)'
    BY <1>0 DEF GiveUp, Created, NotSettled, Connected, Remembered, Used
  <2>3. QED
    BY <1>0, <2>1, <2>2, OwnerOn
<1>2. CASE /\ call[c].pc = "create"
           /\ \E s \in Sessions :
                 /\ server[s].state = "unused"
                 /\ server' = [server EXCEPT ![s] = [state |-> "pending",
                                                     home |-> call[c].endpoint]]
                 /\ call' = [call EXCEPT ![c] = [@ EXCEPT !.pc = "settle",
                                                          !.session = s]]
  <2>1. PICK s \in Sessions :
           /\ server[s].state = "unused"
           /\ server' = [server EXCEPT ![s] = [state |-> "pending",
                                               home |-> call[c].endpoint]]
           /\ call' = [call EXCEPT ![c] = [@ EXCEPT !.pc = "settle", !.session = s]]
    BY <1>2
  <2>2. /\ \A k \in Calls : k # c => call'[k] = call[k]
        /\ call'[c].pc = "settle" /\ call'[c].session = s
    BY <1>2, <2>1, CreatedKeeps
  <2>3. /\ ~Used(s) /\ Used(s)'
        /\ \A t \in Sessions : Used(t) => Used(t)'
    BY <1>0, <2>1 DEF Used
  <2>4. /\ \A k \in Calls : call[k].pc = "settle" => call[k].session # s
        /\ \A p \in Profiles : binding[p] # None => binding[p].session # s
    BY <2>3 DEF OneOwner
  <2>5. /\ \A p, q \in Profiles : binding'[p] # None /\ binding'[q] # None
              /\ binding'[p].session = binding'[q].session => p = q
        /\ \A k \in Calls, p \in Profiles : call'[k].pc = "settle" /\ binding'[p] # None
              => binding'[p].session # call'[k].session
    BY <1>0, <2>2, <2>4 DEF OneOwner
  <2>6. \A k, l \in Calls : call'[k].pc = "settle" /\ call'[l].pc = "settle"
           /\ call'[k].session = call'[l].session => k = l
    BY <2>2, <2>4 DEF OneOwner
  <2>7. /\ \A p \in Profiles : binding'[p] # None => server'[binding'[p].session].state # "unused"
        /\ \A k \in Calls : call'[k].pc = "settle" => server'[call'[k].session].state # "unused"
    BY <1>0, <2>2, <2>3 DEF OneOwner, Used
  <2>8. QED
    BY <2>5, <2>6, <2>7 DEF OneOwner, Used
<1>3. QED
  BY <1>1, <1>2, SettlingAnswers

LEMMA NextOwner ==
    ASSUME TypeInv, OneOwner, [Next]_vars
    PROVE  OneOwner'
<1>0. /\ server \in [Sessions -> Server]
      /\ binding \in [Profiles -> Binding \cup {None}]
      /\ \A p \in Profiles : binding[p] # None => binding[p].session \in Sessions
      /\ \A k \in Calls : call[k].pc = "settle" => call[k].session \in Sessions
  BY DEF TypeInv, TypeOK, Binding, CallsOK, RecordOK, Phases
<1>1. ASSUME NEW c \in Calls,
             JoinConnect(c) \/ ReuseConnection(c) \/ LeadConnect(c) \/ Return(c)
      PROVE  OneOwner'
  <2>1. /\ UNCHANGED <<binding, server>>
        /\ \A k \in Calls : call'[k].pc = "settle" => call'[k] = call[k]
    BY <1>1, ConnectTakes
  <2>2. QED
    BY <1>0, <2>1, OwnerOn DEF Used
<1>2. ASSUME NEW c \in Calls, Hold(c) PROVE OneOwner'
  <2>1. /\ UNCHANGED <<binding, server>>
        /\ \A k \in Calls : call'[k].pc = "settle" => call'[k] = call[k]
    BY <1>2, HoldMakes
  <2>2. QED
    BY <1>0, <2>1, OwnerOn DEF Used
<1>3. CASE \/ \E d \in Discs :
                 \/ StartDisconnect(d) \/ DisconnectStep(d)
                 \/ ReturnDisconnect(d)
           \/ \E p \in Profiles : Forget(p) \/ SwitchProfile(p) \/ EditProfile(p)
           \/ \E s \in Sessions :
                 UnawaitedDelete(s) \/ SessionReady(s) \/ SessionReaped(s)
           \/ UNCHANGED vars
  <2>1. UNCHANGED call
    BY <1>3, OthersLeave
  <2>2. \A p \in Profiles : binding'[p] # None => binding'[p] = binding[p]
    BY <1>0, <1>3
    DEF StartDisconnect, DisconnectStep, ResumeDisconnect, SessionDeleted,
        ReturnDisconnect, EndsHeld, Forget, SwitchProfile, EditProfile, memory,
        UnawaitedDelete, SessionReady, SessionReaped, vars
  <2>3. \A s \in Sessions : Used(s) => Used(s)'
    <3>1. \/ UNCHANGED server
          \/ \E t : server' = [server EXCEPT ![t].state = "gone"]
          \/ \E t : server' = [server EXCEPT ![t].state = "ready"]
      BY <1>3
      DEF StartDisconnect, DisconnectStep, ResumeDisconnect, SessionDeleted,
          ReturnDisconnect, Forget, SwitchProfile, EditProfile, memory,
          UnawaitedDelete, SessionReady, SessionReaped, DeletedOrLeft, vars
    <3>2. CASE UNCHANGED server
      BY <3>2 DEF Used
    <3>3. CASE \E t : server' = [server EXCEPT ![t].state = "gone"]
      BY <1>0, <3>3 DEF Used, Server
    <3>4. CASE \E t : server' = [server EXCEPT ![t].state = "ready"]
      BY <1>0, <3>4 DEF Used, Server
    <3>5. QED
      BY <3>1, <3>2, <3>3, <3>4
  <2>4. QED
    BY <1>0, <2>1, <2>2, <2>3, OwnerOn
<1>4. CASE Reload
  BY <1>4 DEF Reload, IdleCall, OneOwner, Used
<1>5. QED
  BY <1>1, <1>2, <1>3, <1>4, FlightOwner, SettlingOwner DEF Next, ConnectStep

-----------------------------------------------------------------------------
(* The abstract service.  What a step does to the tables of one profile is *)
(* a step of ConnectionService, or none.                                   *)
ServiceInv == FullInv /\ BoundOnce /\ OneOwner

LEMMA SessionsNamed ==
    ASSUME TypeInv
    PROVE  /\ \A p \in Profiles : live[p] # None =>
                 SessionOf(live[p]) = live[p].session /\ SessionOf(live[p]) # None
           /\ \A p \in Profiles : binding[p] # None =>
                 SessionOf(binding[p]) = binding[p].session /\ SessionOf(binding[p]) # None
BY ConstantsAssumption DEF TypeInv, TypeOK, Connection, Binding, SessionOf

LEMMA ServiceRests ==
    ASSUME \A p \in Profiles : SessionOf(live[p])' = SessionOf(live[p]),
           \A p \in Profiles : SessionOf(binding[p])' = SessionOf(binding[p])
    PROVE  UNCHANGED Service!vars
BY DEF Service!vars, SessionOf

LEMMA ServiceEnds ==
    ASSUME TypeInv, NEW p \in Profiles, binding[p] # None,
           live'[p] = None, binding'[p] = None,
           \A q \in Profiles : q # p => live'[q] = live[q] /\ binding'[q] = binding[q]
    PROVE  Service!End(p)
<1>1. SessionOf(binding[p]) # None
  BY SessionsNamed
<1>2. \A q \in Profiles : SessionOf(live[q])' = IF q = p THEN None ELSE SessionOf(live[q])
  BY DEF SessionOf
<1>3. \A q \in Profiles : SessionOf(binding[q])' = IF q = p THEN None ELSE SessionOf(binding[q])
  BY DEF SessionOf
<1>4. QED
  BY <1>1, <1>2, <1>3 DEF Service!End

LEMMA ServiceRemembers ==
    ASSUME TypeInv, NEW p \in Profiles, NEW s \in Sessions, live[p] = None, binding[p] = None,
           \A q \in Profiles : binding[q] # None => binding[q].session # s,
           UNCHANGED live, binding'[p] # None, binding'[p].session = s,
           \A q \in Profiles : q # p => binding'[q] = binding[q]
    PROVE  Service!Remember(p, s)
<1>1. SessionOf(live[p]) = None /\ SessionOf(binding[p]) = None
  BY DEF SessionOf
<1>2. \A q \in Profiles : SessionOf(binding[q]) # s
  BY ConstantsAssumption, SessionsNamed DEF SessionOf
<1>3. \A q \in Profiles : SessionOf(binding[q])' = IF q = p THEN s ELSE SessionOf(binding[q])
  BY DEF SessionOf
<1>4. \A q \in Profiles : SessionOf(live[q])' = SessionOf(live[q])
  OBVIOUS
<1>5. QED
  BY <1>1, <1>2, <1>3, <1>4 DEF Service!Remember

LEMMA ServiceUses ==
    ASSUME TypeInv, NEW p \in Profiles, live[p] = None, binding[p] # None,
           UNCHANGED binding, live'[p] # None, live'[p].session = binding[p].session,
           \A q \in Profiles : q # p => live'[q] = live[q]
    PROVE  Service!Use(p)
<1>1. SessionOf(live[p]) = None /\ SessionOf(binding[p]) # None
  BY SessionsNamed DEF SessionOf
<1>2. \A q \in Profiles : SessionOf(live[q])' =
          IF q = p THEN SessionOf(binding[p]) ELSE SessionOf(live[q])
  BY DEF SessionOf
<1>3. \A q \in Profiles : SessionOf(binding[q])' = SessionOf(binding[q])
  OBVIOUS
<1>4. QED
  BY <1>1, <1>2, <1>3 DEF Service!Use

LEMMA ServiceLetsGo ==
    ASSUME TypeInv, NEW p \in Profiles, live[p] # None, live'[p] = None,
           UNCHANGED binding, \A q \in Profiles : q # p => live'[q] = live[q]
    PROVE  Service!LetGo(p)
<1>1. SessionOf(live[p]) # None
  BY SessionsNamed
<1>2. \A q \in Profiles : SessionOf(live[q])' = IF q = p THEN None ELSE SessionOf(live[q])
  BY DEF SessionOf
<1>3. \A q \in Profiles : SessionOf(binding[q])' = SessionOf(binding[q])
  OBVIOUS
<1>4. QED
  BY <1>1, <1>2, <1>3 DEF Service!LetGo

LEMMA FlightServes ==
    ASSUME ServiceInv, NEW c \in Calls,
           \/ SignedIn(c) \/ PickContext(c) \/ OpenStored(c) \/ OpenFresh(c)
           \/ Attached(c) \/ AttachGone(c) \/ Resolved(c) \/ Settled(c)
           \/ RememberContext(c)
    PROVE  Service!Next \/ UNCHANGED Service!vars
<1> DEFINE own == call[c].profile
<1>0. TypeInv
  BY DEF ServiceInv, FullInv
<1>1. /\ InFlight(c) /\ UNCHANGED live /\ own \in Profiles
      /\ \A p \in Profiles : p # own => binding'[p] = binding[p]
  BY <1>0, FlightKeeps, FlightBinds
<1>2. call[c].pc \notin {"held", "remember"} => live[own] = None
  BY <1>1 DEF ServiceInv, FullInv, SingleFlight, NotYetHeld
<1>3. \/ binding'[own] = binding[own]
      \/ call[c].pc \in {"open", "attach"} /\ binding'[own] = None
      \/ /\ call[c].pc = "settle"
         /\ binding'[own] = [session |-> call[c].session, context |-> call[c].context]
  BY <1>0, FlightBinds
<1> HIDE DEF own
<1>4. CASE binding'[own] = binding[own]
  <2>1. \A p \in Profiles : SessionOf(binding[p])' = SessionOf(binding[p])
    BY <1>1, <1>4 DEF SessionOf
  <2>2. \A p \in Profiles : SessionOf(live[p])' = SessionOf(live[p])
    BY <1>1
  <2>3. QED
    BY <2>1, <2>2, ServiceRests
<1>5. CASE call[c].pc \in {"open", "attach"} /\ binding'[own] = None /\ binding[own] # None
  <2>1. live[own] = None
    BY <1>2, <1>5
  <2>2. Service!End(own)
    BY <1>0, <1>1, <1>5, <2>1, ServiceEnds
  <2>3. QED
    BY <1>1, <2>2 DEF Service!Next
<1>6. CASE /\ call[c].pc = "settle"
           /\ binding'[own] = [session |-> call[c].session, context |-> call[c].context]
  <2>1. live[own] = None /\ binding[own] = None
    BY <1>2, <1>6 DEF own, ServiceInv, BoundOnce
  <2>2. call[c].session \in Sessions /\ call[c].context \in Contexts
    BY <1>0, <1>6 DEF TypeInv, CallsOK, RecordOK, Phases
  <2>3. binding'[own] # None /\ binding'[own].session = call[c].session
    <3>1. [session |-> call[c].session, context |-> call[c].context] \in Binding
      BY <2>2 DEF Binding
    <3>2. QED
      BY <1>6, <3>1, NoneAssumption
  <2>4. \A q \in Profiles : binding[q] # None => binding[q].session # call[c].session
    BY <1>6 DEF ServiceInv, OneOwner
  <2>5. Service!Remember(own, call[c].session)
    BY <1>0, <1>1, <2>1, <2>2, <2>3, <2>4, ServiceRemembers
  <2>6. QED
    BY <1>1, <2>2, <2>5 DEF Service!Next
<1>7. QED
  BY <1>3, <1>4, <1>5, <1>6

LEMMA HoldServes ==
    ASSUME ServiceInv, NEW c \in Calls, Hold(c)
    PROVE  Service!Next
<1> DEFINE own == call[c].profile
<1>0. TypeInv /\ SingleFlight /\ Stored /\ call[c].pc = "hold"
  BY DEF ServiceInv, FullInv, BindingInv, Hold
<1>1. /\ InFlight(c) /\ own \in Profiles /\ UNCHANGED binding
      /\ \A p \in Profiles : p # own => live'[p] = live[p]
      /\ \E conn \in Connection :
            live'[own] = conn /\ conn.session = call[c].session
  BY <1>0, HoldMakes
<1>2. live[own] = None /\ binding[own] # None /\ binding[own].session = call[c].session
  BY <1>0, <1>1 DEF SingleFlight, NotYetHeld, Stored, Bound
<1>3. live'[own] # None /\ live'[own].session = binding[own].session
  BY <1>1, <1>2, NoneAssumption
<1> HIDE DEF own
<1>4. Service!Use(own)
  BY <1>0, <1>1, <1>2, <1>3, ServiceUses
<1>5. QED
  BY <1>1, <1>4 DEF Service!Next

LEMMA EndsHeldServes ==
    ASSUME ServiceInv, NEW d \in Discs, NEW p \in Profiles, NEW older,
           EndsHeld(d, p, older)
    PROVE  Service!Next \/ UNCHANGED Service!vars
<1>1. TypeInv /\ BindingMatchesLive
  BY DEF ServiceInv, FullInv, BindingInv
<1>2. /\ live'[p] = None /\ binding'[p] = None
      /\ \A q \in Profiles : q # p => live'[q] = live[q] /\ binding'[q] = binding[q]
  BY <1>1 DEF EndsHeld, TypeInv, TypeOK
<1>3. CASE binding[p] # None
  <2>1. Service!End(p)
    BY <1>1, <1>2, <1>3, ServiceEnds
  <2>2. QED
    BY <2>1 DEF Service!Next
<1>4. CASE binding[p] = None
  <2>1. live[p] = None
    BY <1>1, <1>4 DEF BindingMatchesLive
  <2>2. /\ \A q \in Profiles : SessionOf(live[q])' = SessionOf(live[q])
        /\ \A q \in Profiles : SessionOf(binding[q])' = SessionOf(binding[q])
    BY <1>2, <1>4, <2>1 DEF SessionOf
  <2>3. QED
    BY <2>2, ServiceRests
<1>5. QED
  BY <1>3, <1>4

(* Every step of the session manager is a step of the service, or none     *)
(* that its callers see.                                                   *)
LEMMA NextServes ==
    ASSUME ServiceInv, [Next]_vars
    PROVE  Service!Next \/ UNCHANGED Service!vars
<1>0. TypeInv
  BY DEF ServiceInv, FullInv
<1>1. ASSUME UNCHANGED <<live, binding>>
      PROVE  UNCHANGED Service!vars
  <2>1. /\ \A q \in Profiles : SessionOf(live[q])' = SessionOf(live[q])
        /\ \A q \in Profiles : SessionOf(binding[q])' = SessionOf(binding[q])
    BY <1>1
  <2>2. QED
    BY <2>1, ServiceRests
<1>2. ASSUME NEW c \in Calls,
             \/ JoinConnect(c) \/ ReuseConnection(c) \/ LeadConnect(c) \/ Return(c)
             \/ GiveUp(c) \/ Created(c) \/ NotSettled(c) \/ Connected(c) \/ Remembered(c)
      PROVE  UNCHANGED Service!vars
  BY <1>0, <1>1, <1>2, ConnectTakes, SettlingAnswers
<1>3. ASSUME NEW d \in Discs,
             \/ StartDisconnect(d) \/ DisconnectStep(d) \/ ReturnDisconnect(d)
      PROVE  Service!Next \/ UNCHANGED Service!vars
  <2>1. \/ UNCHANGED <<live, binding>>
        \/ \E older : Active # None /\ EndsHeld(d, Active, older)
    BY <1>3 DEF StartDisconnect, DisconnectStep, ResumeDisconnect, SessionDeleted,
                ReturnDisconnect
  <2>2. Active # None => Active \in Profiles
    BY <1>0, ActiveKnown DEF TypeInv
  <2>3. QED
    BY <1>1, <2>1, <2>2, EndsHeldServes
<1>4. ASSUME NEW p \in Profiles, Forget(p)
      PROVE  Service!Next
  <2>1. Service!LetGo(p)
    BY <1>0, <1>4, ServiceLetsGo DEF Forget, TypeInv, TypeOK
  <2>2. QED
    BY <2>1 DEF Service!Next
<1>5. CASE \/ \E p \in Profiles : SwitchProfile(p) \/ EditProfile(p)
           \/ \E s \in Sessions :
                 UnawaitedDelete(s) \/ SessionReady(s) \/ SessionReaped(s)
           \/ UNCHANGED vars
  BY <1>1, <1>5 DEF SwitchProfile, EditProfile, memory, UnawaitedDelete,
                    SessionReady, SessionReaped, vars
<1>6. CASE Reload
  <2>1. \A q \in Profiles : SessionOf(live[q])' = None
    BY <1>6 DEF Reload, SessionOf
  <2>2. \A q \in Profiles : SessionOf(binding[q])' = SessionOf(binding[q])
    BY <1>6 DEF Reload
  <2>3. Service!Reload
    BY <2>1, <2>2 DEF Service!Reload
  <2>4. QED
    BY <2>3 DEF Service!Next
<1>7. QED
  BY <1>2, <1>3, <1>4, <1>5, <1>6, FlightServes, HoldServes DEF Next, ConnectStep

(* Under all the awaits, cancellations, joins and edits, callers see of    *)
(* the session manager a ConnectionService: a session comes into use only  *)
(* by being remembered first, is never swapped for another, and is never   *)
(* two profiles' at once.                                                  *)
THEOREM ManagerImplementsService ==
    ASSUME ~SwitchDuringDisconnect
    PROVE  Spec => ImplementsService
<1>1. Init => Service!Init
  BY DEF Init, Service!Init, SessionOf
<1>2. Init => OrphanInv /\ OneOwner
  BY DEF Init, IdleCall, IdleDisc, OrphanInv, BoundOnce, QuietDiscs, Kept, Alive, OneOwner
<1>3. FullInv /\ OrphanInv /\ OneOwner /\ [Next]_vars => (OrphanInv /\ OneOwner)'
  BY NextOrphan, NextOwner DEF FullInv
<1>4. FullInv /\ OrphanInv /\ OneOwner /\ [Next]_vars => [Service!Next]_(Service!vars)
  BY NextServes DEF OrphanInv, ServiceInv
<1>5. Spec => []FullInv
  BY FullInvariant
<1>6. QED
  BY <1>1, <1>2, <1>3, <1>4, <1>5, PTL DEF Spec, ImplementsService, Service!Spec
=============================================================================
