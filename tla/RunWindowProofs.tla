--------------------------- MODULE RunWindowProofs ---------------------------
(* Theorems about RunWindow for every set of profiles, commands, sessions, *)
(* connections and backends.                                               *)
EXTENDS RunWindow, TLAPS

-----------------------------------------------------------------------------
(* Types.  What a command has at each place in the code, and that what     *)
(* points at an object points at one that was made, for the same profile.  *)
Placed(r) ==
    /\ r.pc # "idle" => r.kind \in Kinds
    /\ r.pc \in Connecting \cup Submitted => r.profile \in Profiles
    /\ r.pc \in {"got", "closing", "built", "ready"} \cup Submitted =>
          r.conn \in Conns /\ conn[r.conn] # None /\ conn[r.conn].profile = r.profile
    /\ r.pc \in {"closing", "built", "ready"} \cup Submitted =>
          r.backend \in Backends /\ backend[r.backend] # None
    /\ r.pc \in {"built", "ready"} \cup Submitted => backend[r.backend].conn = r.conn
    /\ r.pc = "closing" => ProfileOf(r.backend) = r.profile
    /\ r.aborted => r.pc \in Submitted \cup {"told"}
    /\ r.pc = "result" => r.kind = "reset"

AllPlaced == \A c \in Cmds : Placed(cmd[c])
Made ==
    /\ \A p \in Profiles : live[p] # None =>
          conn[live[p]] # None /\ conn[live[p]].profile = p
    /\ \A b \in Backends : backend[b] # None => conn[backend[b].conn] # None
    /\ \A p \in Profiles : cache[p] # None =>
          backend[cache[p]] # None /\ ProfileOf(cache[p]) = p
Pointed ==
    /\ currentRun # None => Executing(currentRun) /\ IsRun(currentRun)
    /\ currentReset # None => Executing(currentReset) /\ cmd[currentReset].kind = "reset"

ShapeInv == TypeOK /\ AllPlaced /\ Made /\ Pointed

(* Objects are made once and stay what they are of.                        *)
Grown ==
    /\ \A k \in Conns : conn[k] # None => conn'[k] = conn[k]
    /\ \A b \in Backends : backend[b] # None =>
          backend'[b] # None /\ backend'[b].conn = backend[b].conn

LEMMA PlacedOn ==
    ASSUME ShapeInv, Grown, NEW r, Placed(r)
    PROVE  Placed(r)'
<1>1. \A b \in Backends : backend[b] # None =>
         backend[b].conn \in Conns /\ conn[backend[b].conn] # None
  BY DEF ShapeInv, TypeOK, Backend, Made
<1>2. QED
  BY <1>1 DEF Placed, Grown, ProfileOf, Connecting, Submitted

(* Only a command that moves needs to be looked at.                        *)
LEMMA PlacedAll ==
    ASSUME ShapeInv, Grown, cmd' \in [Cmds -> Cmd],
           \A d \in Cmds : \/ cmd'[d] = cmd[d]
                           \/ Executing(d) /\ cmd'[d] = [cmd[d] EXCEPT !.aborted = TRUE]
                           \/ Placed(cmd[d])'
    PROVE  AllPlaced'
<1>1. ASSUME NEW d \in Cmds PROVE Placed(cmd[d])'
  <2>1. Placed(cmd[d]) /\ cmd[d] \in Cmd
    BY DEF ShapeInv, AllPlaced, TypeOK
  <2>2. CASE cmd'[d] = cmd[d]
    <3>1. \A r : r = cmd[d] /\ Placed(r) => Placed(r)'
      BY PlacedOn
    <3>2. QED
      BY <2>1, <2>2, <3>1 DEF Placed, ProfileOf
  <2>3. CASE Executing(d) /\ cmd'[d] = [cmd[d] EXCEPT !.aborted = TRUE]
    <3>1. Placed([cmd[d] EXCEPT !.aborted = TRUE])
      BY <2>1, <2>3 DEF Placed, Cmd, Executing, Connecting, Submitted
    <3>2. \A r : Placed(r) => Placed(r)'
      BY PlacedOn
    <3>3. QED
      BY <2>3, <3>1, <3>2 DEF Placed, ProfileOf
  <2>4. QED
    BY <2>2, <2>3
<1>2. QED
  BY <1>1 DEF AllPlaced

(* Nothing that is pointed at is taken away.                               *)
LEMMA MadeOn ==
    ASSUME ShapeInv, Grown,
           \A p \in Profiles :
              \/ live'[p] \in {live[p], None}
              \/ conn'[live'[p]] # None /\ conn'[live'[p]].profile = p,
           \A b \in Backends : backend'[b] # None =>
              backend[b] # None \/ conn'[backend'[b].conn] # None,
           UNCHANGED cache
    PROVE  Made'
<1>1. \A p \in Profiles : live'[p] # None =>
         conn'[live'[p]] # None /\ conn'[live'[p]].profile = p
  BY DEF ShapeInv, TypeOK, Made, Grown
<1>2. \A b \in Backends : backend'[b] # None => conn'[backend'[b].conn] # None
  BY DEF ShapeInv, TypeOK, Backend, Made, Grown
<1>3. \A p \in Profiles : cache[p] # None =>
         backend'[cache[p]] # None /\ conn'[backend'[cache[p]].conn].profile = p
  BY DEF ShapeInv, TypeOK, Backend, Made, Grown, ProfileOf
<1>4. QED
  BY <1>1, <1>2, <1>3 DEF Made, ProfileOf

LEMMA PointedOn ==
    ASSUME ShapeInv, UNCHANGED window,
           \A d \in Cmds : Executing(d) => Executing(d)' /\ cmd'[d].kind = cmd[d].kind
    PROVE  Pointed'
BY DEF ShapeInv, TypeOK, Pointed, Executing, IsRun, window

(* The surroundings leave the commands and what they use alone.            *)
LEMMA SurroundingsLeave ==
    ASSUME ShapeInv,
           \/ \E p \in Profiles : SignedOut(p) \/ SwitchesProfile(p)
           \/ Disconnects
           \/ \E s \in Sessions : SessionReaped(s)
           \/ UNCHANGED vars
    PROVE  /\ UNCHANGED <<claimed, conn, backend, cache, cmd, window>>
           /\ \A p \in Profiles : live'[p] \in {live[p], None}
BY DEF SignedOut, SwitchesProfile, Disconnects, SessionReaped, vars, manager,
       ShapeInv, TypeOK

LEMMA SurroundingsShape ==
    ASSUME ShapeInv,
           \/ \E p \in Profiles : SignedOut(p) \/ SwitchesProfile(p)
           \/ Disconnects
           \/ \E s \in Sessions : SessionReaped(s)
           \/ UNCHANGED vars
    PROVE  ShapeInv'
<1>1. /\ UNCHANGED <<claimed, conn, backend, cache, cmd, window>>
      /\ \A p \in Profiles : live'[p] \in {live[p], None}
  BY SurroundingsLeave
<1>2. TypeOK'
  <2>1. /\ active' \in Profiles /\ live' \in [Profiles -> Conns \cup {None}]
        /\ binding' \in [Profiles -> Sessions \cup {None}]
    BY DEF SignedOut, SwitchesProfile, Disconnects, SessionReaped, vars, manager,
           ShapeInv, TypeOK
  <2>2. session' \in [Sessions -> Session]
    <3>1. UNCHANGED session \/ \E s : session' = [session EXCEPT ![s].state = "gone"]
      BY DEF SignedOut, SwitchesProfile, Disconnects, SessionReaped, vars
    <3>2. session \in [Sessions -> Session]
      BY DEF ShapeInv, TypeOK
    <3>3. QED
      BY <3>1, <3>2 DEF Session
  <2>3. QED
    BY <1>1, <2>1, <2>2 DEF ShapeInv, TypeOK, window
<1>3. Grown
  BY <1>1 DEF Grown
<1>4. AllPlaced' /\ Made' /\ Pointed'
  <2>1. AllPlaced'
    BY <1>1, <1>2, <1>3, PlacedAll DEF TypeOK
  <2>2. Made'
    BY <1>1, <1>3, MadeOn
  <2>3. Pointed'
    BY <1>1, PointedOn DEF Executing
  <2>4. QED
    BY <2>1, <2>2, <2>3
<1>5. QED
  BY <1>2, <1>4 DEF ShapeInv

(* Invoking a command, and what it is told.                                *)
LEMMA SlotMoves ==
    ASSUME ShapeInv, NEW c \in Cmds,
           \/ \E kind \in Kinds : Invoke(c, kind)
           \/ Return(c) \/ Refused(c)
    PROVE  /\ UNCHANGED <<active, manager, session, conn, backend, cache, window>>
           /\ ~Executing(c) /\ ~Executing(c)' /\ cmd' \in [Cmds -> Cmd]
           /\ \A d \in Cmds : d # c => cmd'[d] = cmd[d]
           /\ \/ /\ Quiet /\ cmd'[c].profile = active /\ ~cmd'[c].aborted
                 /\ \/ cmd'[c].pc = "connect"
                    \/ /\ cmd'[c].pc = "got" /\ cmd'[c].conn = live[active]
                       /\ live[active] # None
                 /\ cmd'[c].kind \in Kinds /\ cmd[c].pc = "idle"
                 /\ "overlap" \in Mishaps \/ \A d \in Cmds : cmd[d].pc \notin Connecting
              \/ cmd'[c] = IdleCmd
              \/ /\ cmd[c].pc = "ready" /\ cmd'[c].pc = "told" /\ cmd'[c].kind = cmd[c].kind
                 /\ cmd'[c].aborted = cmd[c].aborted
<1>1. cmd \in [Cmds -> Cmd] /\ cmd[c] \in Cmd /\ live \in [Profiles -> Conns \cup {None}]
      /\ active \in Profiles
  BY DEF ShapeInv, TypeOK
<1>2. IdleCmd \in Cmd
  BY DEF IdleCmd, Cmd
<1>3. ASSUME NEW kind \in Kinds, Invoke(c, kind)
      PROVE  /\ cmd' \in [Cmds -> Cmd] /\ \A d \in Cmds : d # c => cmd'[d] = cmd[d]
             /\ cmd[c].pc = "idle"
             /\ cmd'[c].pc \in {"connect", "got"} /\ cmd'[c].profile = active
             /\ cmd'[c].conn = live[active] /\ cmd'[c].kind = kind /\ ~cmd'[c].aborted
             /\ cmd'[c].pc = "got" => live[active] # None
  <2> DEFINE pc == IF live[active] = None THEN "connect" ELSE "got"
             new == [IdleCmd EXCEPT !.pc = pc, !.kind = kind, !.profile = active,
                                    !.conn = live[active]]
  <2>0. pc \in {"connect", "got"} /\ (pc = "got" => live[active] # None)
    OBVIOUS
  <2> HIDE DEF pc
  <2>1. new \in Cmd
    BY <1>1, <2>0 DEF Cmd, Connecting, IdleCmd
  <2>2. cmd' = [cmd EXCEPT ![c] = new] /\ cmd[c].pc = "idle"
    BY <1>3 DEF Invoke, pc
  <2>3. QED
    BY <1>1, <2>0, <2>1, <2>2 DEF IdleCmd
<1>4. CASE Return(c)
  BY <1>1, <1>2, <1>4 DEF Return, Executing, Submitted, IdleCmd
<1>5. CASE Refused(c)
  <2>1. Told(c, "busy") \in Cmd
    BY <1>1 DEF Told, IdleCmd, Cmd, Outcomes
  <2>2. QED
    BY <1>1, <1>5, <2>1 DEF Refused, Told, Executing, Submitted, IdleCmd
<1>6. CASE \E kind \in Kinds : Invoke(c, kind)
  <2>1. PICK kind \in Kinds : Invoke(c, kind)
    BY <1>6
  <2>2. /\ UNCHANGED <<active, manager, session, conn, backend, cache, window>> /\ Quiet
        /\ "overlap" \in Mishaps \/ \A d \in Cmds : cmd[d].pc \notin Connecting
    BY <2>1 DEF Invoke
  <2>3. QED
    BY <1>3, <2>1, <2>2 DEF Executing, Submitted
<1>7. QED
  BY <1>4, <1>5, <1>6

LEMMA SlotShape ==
    ASSUME ShapeInv, NEW c \in Cmds,
           \/ \E kind \in Kinds : Invoke(c, kind)
           \/ Return(c) \/ Refused(c)
    PROVE  ShapeInv'
<1>1. /\ UNCHANGED <<active, manager, session, conn, backend, cache, window>>
      /\ ~Executing(c) /\ cmd' \in [Cmds -> Cmd]
      /\ \A d \in Cmds : d # c => cmd'[d] = cmd[d]
  BY SlotMoves
<1>2. Placed(cmd[c])'
  <2>1. \/ cmd'[c].pc = "connect" /\ cmd'[c].kind \in Kinds /\ cmd'[c].profile = active
           /\ ~cmd'[c].aborted
        \/ /\ cmd'[c].pc = "got" /\ cmd'[c].kind \in Kinds /\ cmd'[c].profile = active
           /\ ~cmd'[c].aborted /\ cmd'[c].conn = live[active] /\ live[active] # None
        \/ cmd'[c].pc = "idle" /\ ~cmd'[c].aborted
        \/ cmd'[c].pc = "told" /\ cmd[c].pc = "ready" /\ cmd'[c].kind = cmd[c].kind
    BY SlotMoves DEF IdleCmd
  <2>2. active \in Profiles /\ live[active] \in Conns \cup {None}
    BY DEF ShapeInv, TypeOK
  <2>3. live[active] # None => conn[live[active]] # None /\ conn[live[active]].profile = active
    BY <2>2 DEF ShapeInv, Made
  <2>4. cmd[c].pc = "ready" => cmd[c].kind \in Kinds
    BY DEF ShapeInv, AllPlaced, Placed
  <2>5. QED
    BY <1>1, <2>1, <2>2, <2>3, <2>4 DEF Placed, Connecting, Submitted
<1>3. Grown
  BY <1>1 DEF Grown
<1>4. AllPlaced' /\ Made' /\ Pointed'
  <2>1. AllPlaced'
    BY <1>1, <1>2, <1>3, PlacedAll
  <2>2. Made'
    BY <1>1, <1>3, MadeOn DEF manager
  <2>3. Pointed'
    BY <1>1, PointedOn DEF Executing
  <2>4. QED
    BY <2>1, <2>2, <2>3
<1>5. TypeOK'
  BY <1>1 DEF ShapeInv, TypeOK, manager, window
<1>6. QED
  BY <1>4, <1>5 DEF ShapeInv

(* A connection that comes up is a new object, given to all who wait.      *)
ConnectsTo(p, k, s, created) ==
    /\ UNCHANGED <<active, claimed, backend, cache, window>>
    /\ conn[k] = None /\ live[p] = None
    /\ conn' = [conn EXCEPT ![k] = [profile |-> p, session |-> s, created |-> created]]
    /\ live' = [live EXCEPT ![p] = k] /\ binding' = [binding EXCEPT ![p] = s]
    /\ session' = [session EXCEPT ![s].state = "alive"]
    /\ created = ~(binding[p] # None /\ session[binding[p]].state = "alive")
    /\ IF created THEN session[s].state = "unused" ELSE s = binding[p]
    /\ cmd' \in [Cmds -> Cmd]
    /\ \A d \in Cmds :
          \/ cmd'[d] = cmd[d] /\ ~(cmd[d].pc = "connect" /\ cmd[d].profile = p)
          \/ /\ cmd[d].pc = "connect" /\ cmd[d].profile = p
             /\ cmd'[d] = [cmd[d] EXCEPT !.pc = "got", !.conn = k]

LEMMA ConnectsMakes ==
    ASSUME ShapeInv, NEW p \in Profiles, Connects(p)
    PROVE  \E k \in Conns, s \in Sessions, created \in BOOLEAN :
             ConnectsTo(p, k, s, created)
<1>1. cmd \in [Cmds -> Cmd]
  BY DEF ShapeInv, TypeOK
<1> DEFINE reattach == binding[p] # None /\ session[binding[p]].state = "alive"
<1>2. PICK k \in Conns, s \in Sessions :
        /\ conn[k] = None
        /\ IF reattach THEN s = binding[p] ELSE session[s].state = "unused"
        /\ session' = [session EXCEPT ![s].state = "alive"]
        /\ conn' = [conn EXCEPT ![k] =
                      [profile |-> p, session |-> s, created |-> ~reattach]]
        /\ binding' = [binding EXCEPT ![p] = s] /\ live' = [live EXCEPT ![p] = k]
        /\ cmd' = [c \in Cmds |-> IF c \in Waiting(p)
                      THEN [cmd[c] EXCEPT !.pc = "got", !.conn = k] ELSE cmd[c]]
  BY DEF Connects
<1>3. cmd' \in [Cmds -> Cmd]
  <2>1. ASSUME NEW d \in Cmds PROVE [cmd[d] EXCEPT !.pc = "got", !.conn = k] \in Cmd
    BY <1>1 DEF Cmd, Connecting
  <2>2. QED
    BY <1>1, <1>2, <2>1
<1>4. \A d \in Cmds :
        \/ cmd'[d] = cmd[d] /\ ~(cmd[d].pc = "connect" /\ cmd[d].profile = p)
        \/ /\ cmd[d].pc = "connect" /\ cmd[d].profile = p
           /\ cmd'[d] = [cmd[d] EXCEPT !.pc = "got", !.conn = k]
  BY <1>2 DEF Waiting
<1>5. UNCHANGED <<active, claimed, backend, cache, window>> /\ live[p] = None
  BY DEF Connects
<1>6. PICK created \in BOOLEAN :
        created = ~reattach /\ conn' = [conn EXCEPT ![k] =
                      [profile |-> p, session |-> s, created |-> created]]
  <2>1. CASE reattach
    <3>1. (~reattach) = FALSE
      BY <2>1
    <3>2. QED
      BY <1>2, <3>1
  <2>2. CASE ~reattach
    <3>1. (~reattach) = TRUE
      BY <2>2
    <3>2. QED
      BY <1>2, <3>1
  <2>3. QED
    BY <2>1, <2>2
<1> HIDE DEF reattach
<1>8. IF created THEN session[s].state = "unused" ELSE s = binding[p]
  BY <1>2, <1>6
<1>9. QED
  BY <1>2, <1>3, <1>4, <1>5, <1>6, <1>8 DEF reattach, ConnectsTo

LEMMA ConnectsShape ==
    ASSUME ShapeInv, NEW p \in Profiles, Connects(p)
    PROVE  ShapeInv'
<1>0. PICK k \in Conns, s \in Sessions, created \in BOOLEAN : ConnectsTo(p, k, s, created)
  BY ConnectsMakes
<1>1. /\ UNCHANGED <<active, claimed, backend, cache, window>>
      /\ conn[k] = None
      /\ conn' = [conn EXCEPT ![k] =
                    [profile |-> p, session |-> s, created |-> created]]
      /\ live' = [live EXCEPT ![p] = k] /\ binding' = [binding EXCEPT ![p] = s]
      /\ session' = [session EXCEPT ![s].state = "alive"]
      /\ cmd' \in [Cmds -> Cmd]
      /\ \A d \in Cmds :
            \/ cmd'[d] = cmd[d]
            \/ /\ cmd[d].pc = "connect" /\ cmd[d].profile = p
               /\ cmd'[d] = [cmd[d] EXCEPT !.pc = "got", !.conn = k]
  BY <1>0 DEF ConnectsTo
<1>2. [profile |-> p, session |-> s, created |-> created] \in Connection
  BY DEF Connection
<1>3. /\ conn' \in [Conns -> Connection \cup {None}]
      /\ conn'[k] # None /\ conn'[k].profile = p
      /\ \A j \in Conns : conn[j] # None => conn'[j] = conn[j]
  BY <1>1, <1>2, NullAssumption DEF ShapeInv, TypeOK
<1>4. Grown
  BY <1>1, <1>3 DEF Grown
<1>5. AllPlaced'
  <2>1. ASSUME NEW d \in Cmds, cmd[d].pc = "connect", cmd[d].profile = p,
               cmd'[d] = [cmd[d] EXCEPT !.pc = "got", !.conn = k]
        PROVE  Placed(cmd[d])'
    <3>1. cmd[d] \in Cmd /\ Placed(cmd[d])
      BY DEF ShapeInv, TypeOK, AllPlaced
    <3>2. /\ cmd'[d].pc = "got" /\ cmd'[d].conn = k /\ cmd'[d].profile = p
          /\ ~cmd'[d].aborted /\ cmd'[d].kind \in Kinds
      BY <2>1, <3>1 DEF Cmd, Placed, Submitted
    <3>3. QED
      BY <1>3, <3>2 DEF Placed, Submitted
  <2>2. \A d \in Cmds : cmd'[d] = cmd[d] \/ Placed(cmd[d])'
    BY <1>1, <2>1
  <2>3. QED
    BY <1>1, <1>4, <2>2, PlacedAll
<1>6. Made'
  BY <1>1, <1>3, <1>4, MadeOn DEF ShapeInv, TypeOK
<1>7. Pointed'
  <2>1. \A d \in Cmds : Executing(d) => cmd'[d] = cmd[d]
    BY <1>1 DEF Executing, Submitted
  <2>2. QED
    BY <1>1, <2>1, PointedOn DEF Executing
<1>8. TypeOK'
  <2>1. session' \in [Sessions -> Session]
    BY <1>1 DEF ShapeInv, TypeOK, Session
  <2>2. QED
    BY <1>1, <1>3, <2>1 DEF ShapeInv, TypeOK, window
<1>9. QED
  BY <1>5, <1>6, <1>7, <1>8 DEF ShapeInv

LEMMA FailsMoves ==
    ASSUME ShapeInv, NEW p \in Profiles, ConnectFails(p)
    PROVE  /\ UNCHANGED <<active, manager, session, conn, backend, cache, window>>
           /\ cmd' \in [Cmds -> Cmd]
           /\ \A d \in Cmds : \/ cmd'[d] = cmd[d]
                              \/ cmd[d].pc = "connect" /\ cmd'[d] = IdleCmd
<1>1. IdleCmd \in Cmd
  BY DEF IdleCmd, Cmd
<1>2. QED
  BY <1>1 DEF ConnectFails, Waiting, ShapeInv, TypeOK

LEMMA FailsShape ==
    ASSUME ShapeInv, NEW p \in Profiles, ConnectFails(p)
    PROVE  ShapeInv'
<1>1. /\ UNCHANGED <<active, manager, session, conn, backend, cache, window>>
      /\ cmd' \in [Cmds -> Cmd]
      /\ \A d \in Cmds : \/ cmd'[d] = cmd[d]
                         \/ cmd[d].pc = "connect" /\ cmd'[d] = IdleCmd
  BY FailsMoves
<1>2. Grown
  BY <1>1 DEF Grown
<1>3. AllPlaced'
  <2>1. ASSUME NEW d \in Cmds, cmd'[d] = IdleCmd PROVE Placed(cmd[d])'
    BY <2>1 DEF IdleCmd, Placed, Connecting, Submitted
  <2>2. QED
    BY <1>1, <1>2, <2>1, PlacedAll
<1>4. Made'
  BY <1>1, <1>2, MadeOn DEF manager
<1>5. Pointed'
  <2>1. \A d \in Cmds : Executing(d) => cmd'[d] = cmd[d]
    BY <1>1 DEF Executing, Submitted
  <2>2. QED
    BY <1>1, <2>1, PointedOn DEF Executing
<1>6. TypeOK'
  BY <1>1 DEF ShapeInv, TypeOK, manager, window
<1>7. QED
  BY <1>3, <1>4, <1>5, <1>6 DEF ShapeInv

(* What a step of one command leaves of that command and of the others: at *)
(* most it tells some that are at work to stop.                            *)
Same(c) == /\ cmd'[c].kind = cmd[c].kind /\ cmd'[c].profile = cmd[c].profile
           /\ cmd'[c].conn = cmd[c].conn
Stopped(d) == Executing(d) /\ cmd'[d] = [cmd[d] EXCEPT !.aborted = TRUE]

LEMMA StoppedStays ==
    ASSUME ShapeInv, NEW d \in Cmds, Stopped(d)
    PROVE  /\ Executing(d) /\ Executing(d)' /\ cmd'[d].pc = cmd[d].pc /\ Same(d)
           /\ cmd'[d].backend = cmd[d].backend /\ cmd'[d].seeding = cmd[d].seeding
           /\ cmd'[d].aborted /\ cmd'[d].outcome = cmd[d].outcome
<1>1. cmd[d] \in Cmd /\ cmd'[d] = [cmd[d] EXCEPT !.aborted = TRUE] /\ Executing(d)
  BY DEF Stopped, ShapeInv, TypeOK
<1>2. QED
  BY <1>1 DEF Cmd, Same, Executing

LEMMA GotHas ==
    ASSUME ShapeInv, NEW c \in Cmds,
           cmd[c].pc \in {"got", "closing", "built", "ready"} \cup Submitted
    PROVE  /\ cmd[c] \in Cmd /\ cmd \in [Cmds -> Cmd] /\ cmd[c].kind \in Kinds
           /\ cmd[c].profile \in Profiles /\ cmd[c].conn \in Conns
           /\ conn[cmd[c].conn] \in Connection /\ conn[cmd[c].conn] # None
           /\ conn[cmd[c].conn].profile = cmd[c].profile
           /\ cache[cmd[c].profile] \in Backends \cup {None}
           /\ cache[cmd[c].profile] # None =>
                 backend[cache[cmd[c].profile]] \in Backend /\
                 ProfileOf(cache[cmd[c].profile]) = cmd[c].profile
BY DEF ShapeInv, TypeOK, AllPlaced, Placed, Made, Connecting, Submitted

LEMMA HeldHas ==
    ASSUME ShapeInv, NEW c \in Cmds, cmd[c].pc \in {"closing", "built", "ready"} \cup Submitted
    PROVE  /\ cmd[c].backend \in Backends /\ backend[cmd[c].backend] # None
           /\ backend[cmd[c].backend] \in Backend
           /\ ProfileOf(cmd[c].backend) = cmd[c].profile
           /\ cmd[c].pc # "closing" => backend[cmd[c].backend].conn = cmd[c].conn
<1>1. Placed(cmd[c])
  BY DEF ShapeInv, AllPlaced
<1>2. QED
  BY <1>1 DEF ShapeInv, TypeOK, Placed, Connecting, Submitted, ProfileOf

LEMMA NewBackendFits ==
    ASSUME ShapeInv, NEW k \in Conns, conn[k] # None
    PROVE  /\ NewBackend(k) \in Backend /\ NewBackend(k) # None
           /\ NewBackend(k).conn = k /\ ~NewBackend(k).connected
           /\ ~NewBackend(k).uploaded
           /\ NewBackend(k).pending <=> conn[k].created /\ conn[k].profile \in Startup
<1>1. conn[k] \in Connection
  BY DEF ShapeInv, TypeOK
<1> DEFINE pending == conn[k].created /\ conn[k].profile \in Startup
<1>2. pending \in BOOLEAN
  BY <1>1 DEF Connection
<1> HIDE DEF pending
<1>3. [conn |-> k, connected |-> FALSE, uploaded |-> FALSE, pending |-> pending] \in Backend
  BY <1>2 DEF Backend
<1>4. NewBackend(k) = [conn |-> k, connected |-> FALSE, uploaded |-> FALSE, pending |-> pending]
  BY DEF NewBackend, pending
<1>5. NewBackend(k) \in Backend /\ NewBackend(k) # None
  BY <1>3, <1>4, NullAssumption
<1>6. /\ NewBackend(k).conn = k /\ ~NewBackend(k).connected /\ ~NewBackend(k).uploaded
      /\ NewBackend(k).pending <=> pending
  BY <1>2, <1>4
<1>7. pending <=> conn[k].created /\ conn[k].profile \in Startup
  BY Zenon DEF pending
<1>8. QED
  BY <1>5, <1>6, <1>7, Zenon

(* backendFor() hands out the cached backend, connected again.             *)
Taken(c, b) ==
    /\ cmd[c].pc = "got" /\ b = cache[cmd[c].profile] /\ b \in Backends
    /\ backend[b] # None /\ backend[b].conn = cmd[c].conn
    /\ backend' = [backend EXCEPT ![b].connected = TRUE]
    /\ cmd' \in [Cmds -> Cmd]
    /\ cmd'[c] = [cmd[c] EXCEPT !.pc = "ready", !.backend = b]
    /\ \A d \in Cmds : d # c => cmd'[d] = cmd[d]
    /\ UNCHANGED <<active, manager, session, conn, cache, window>>

LEMMA UseCachedTakes ==
    ASSUME ShapeInv, NEW c \in Cmds, UseCached(c)
    PROVE  \E b \in Backends : Taken(c, b)
<1> DEFINE b == cache[conn[cmd[c].conn].profile]
<1>1. /\ cmd[c].pc = "got" /\ b # None /\ backend[b].conn = cmd[c].conn
      /\ backend' = [backend EXCEPT ![b].connected = TRUE]
      /\ cmd' = [cmd EXCEPT ![c] = [cmd[c] EXCEPT !.pc = "ready", !.backend = b]]
      /\ UNCHANGED <<active, manager, session, conn, cache, window>>
  BY DEF UseCached
<1>2. /\ cmd[c] \in Cmd /\ cmd \in [Cmds -> Cmd]
      /\ conn[cmd[c].conn].profile = cmd[c].profile
      /\ b \in Backends /\ backend[b] \in Backend
  BY <1>1, GotHas
<1>3. [cmd[c] EXCEPT !.pc = "ready", !.backend = b] \in Cmd
  BY <1>2 DEF Cmd, Connecting
<1>4. b = cache[cmd[c].profile] /\ backend[b] # None
  BY <1>2, NullAssumption
<1> HIDE DEF b
<1>5. QED
  BY <1>1, <1>2, <1>3, <1>4 DEF Taken

LEMMA TakenShape ==
    ASSUME ShapeInv, NEW c \in Cmds, NEW b \in Backends, Taken(c, b)
    PROVE  ShapeInv'
<1>1. /\ cmd[c].pc = "got" /\ cmd[c].profile \in Profiles /\ cmd[c].conn \in Conns
      /\ conn[cmd[c].conn] # None /\ conn[cmd[c].conn].profile = cmd[c].profile
      /\ cmd[c] \in Cmd /\ cmd[c].kind \in Kinds /\ ~cmd[c].aborted
  <2>1. cmd[c].pc = "got"
    BY DEF Taken
  <2>2. Placed(cmd[c])
    BY DEF ShapeInv, AllPlaced
  <2>3. QED
    BY <2>1, <2>2, GotHas DEF Placed, Submitted
<1>2. /\ backend' \in [Backends -> Backend \cup {None}]
      /\ \A a \in Backends : backend[a] # None =>
            backend'[a] # None /\ backend'[a].conn = backend[a].conn
      /\ \A a \in Backends : backend'[a] # None => backend[a] # None
  <2>1. backend[b] \in Backend /\ backend \in [Backends -> Backend \cup {None}]
    BY DEF Taken, ShapeInv, TypeOK
  <2>2. [backend[b] EXCEPT !.connected = TRUE] \in Backend
    BY <2>1 DEF Backend
  <2>3. backend' = [backend EXCEPT ![b] = [backend[b] EXCEPT !.connected = TRUE]]
    BY DEF Taken
  <2>4. [backend[b] EXCEPT !.connected = TRUE].conn = backend[b].conn
    BY <2>1 DEF Backend
  <2>5. QED
    BY <2>1, <2>2, <2>3, <2>4, NullAssumption DEF Taken
<1>3. Grown
  BY <1>2 DEF Grown, Taken
<1>4. AllPlaced'
  <2>1. /\ cmd'[c].pc = "ready" /\ cmd'[c].backend = b /\ cmd'[c].kind = cmd[c].kind
        /\ cmd'[c].profile = cmd[c].profile /\ cmd'[c].conn = cmd[c].conn
        /\ ~cmd'[c].aborted
    BY <1>1 DEF Taken, Cmd
  <2>2. Placed(cmd[c])'
    BY <1>1, <1>2, <2>1 DEF Placed, Submitted, Taken
  <2>3. QED
    BY <1>3, <2>2, PlacedAll DEF Taken
<1>5. Made'
  BY <1>2, <1>3, MadeOn DEF Taken, manager
<1>6. Pointed'
  <2>1. \A d \in Cmds : Executing(d) => cmd'[d] = cmd[d]
    BY <1>1 DEF Taken, Executing, Submitted
  <2>2. QED
    BY <2>1, PointedOn DEF Executing, Taken
<1>7. TypeOK'
  BY <1>2 DEF ShapeInv, TypeOK, manager, window, Taken
<1>8. QED
  BY <1>4, <1>5, <1>6, <1>7 DEF ShapeInv

(* backendFor() builds a backend in the place of the old one, whose work   *)
(* is told to stop: after a close, or when there was none to close.        *)
Builds(c, old, new) ==
    /\ \/ /\ cmd[c].pc = "got" /\ old = cache[cmd[c].profile]
          /\ old # None => backend[old].conn # cmd[c].conn
       \/ cmd[c].pc = "closing" /\ Quiet /\ old = cmd[c].backend
    /\ backend[new] = None /\ backend' \in [Backends -> Backend \cup {None}]
    /\ backend'[new] = NewBackend(cmd[c].conn)
    /\ \A a \in Backends : a # new =>
          \/ backend'[a] = backend[a]
          \/ /\ backend[a] # None /\ a = old
             /\ backend'[a] = [backend[a] EXCEPT !.connected = FALSE]
    /\ cmd' \in [Cmds -> Cmd]
    /\ cmd'[c] = [cmd[c] EXCEPT !.pc = "built", !.backend = new]
    /\ \A d \in Cmds : d # c =>
          \/ /\ cmd'[d] = cmd[d]
             /\ ~(Executing(d) /\ IsRun(d) /\ cmd[d].backend = old)
          \/ (Stopped(d) /\ cmd[d].backend = old)
    /\ UNCHANGED <<active, manager, session, conn, cache, window>>

LEMMA ReplaceBuilds ==
    ASSUME ShapeInv, NEW c \in Cmds, NEW old \in Backends,
           \/ /\ cmd[c].pc = "got" /\ old = cache[cmd[c].profile]
              /\ backend[old].conn # cmd[c].conn
           \/ cmd[c].pc = "closing" /\ Quiet /\ old = cmd[c].backend,
           backend[old] # None, Replace(c, old),
           UNCHANGED <<active, manager, session, conn, cache, window>>
    PROVE  \E new \in Backends : Builds(c, old, new)
<1>1. PICK new \in Backends :
        /\ backend[new] = None
        /\ backend' = [backend EXCEPT ![old].connected = FALSE,
                                      ![new] = NewBackend(cmd[c].conn)]
        /\ cmd' = [d \in Cmds |->
              IF d = c THEN [cmd[c] EXCEPT !.pc = "built", !.backend = new]
              ELSE IF d \in WorkOn(old) THEN [cmd[d] EXCEPT !.aborted = TRUE]
              ELSE cmd[d]]
  BY DEF Replace
<1>2. /\ cmd[c] \in Cmd /\ cmd \in [Cmds -> Cmd] /\ cmd[c].conn \in Conns
      /\ conn[cmd[c].conn] # None
  BY GotHas
<1>3. backend \in [Backends -> Backend \cup {None}] /\ backend[old] \in Backend
  BY DEF ShapeInv, TypeOK
<1>4. NewBackend(cmd[c].conn) \in Backend
  BY <1>2, NewBackendFits
<1>5. [backend[old] EXCEPT !.connected = FALSE] \in Backend
  BY <1>3 DEF Backend
<1>6. /\ backend' \in [Backends -> Backend \cup {None}]
      /\ backend'[new] = NewBackend(cmd[c].conn)
      /\ \A a \in Backends : a # new =>
            \/ backend'[a] = backend[a]
            \/ a = old /\ backend'[a] = [backend[a] EXCEPT !.connected = FALSE]
  BY <1>1, <1>3, <1>4, <1>5
<1>7. \A d \in Cmds : [cmd[d] EXCEPT !.aborted = TRUE] \in Cmd
  BY <1>2 DEF Cmd
<1>8. [cmd[c] EXCEPT !.pc = "built", !.backend = new] \in Cmd
  BY <1>2 DEF Cmd, Connecting
<1>9. cmd' \in [Cmds -> Cmd]
  BY <1>1, <1>2, <1>7, <1>8
<1>10. \A d \in Cmds : d # c =>
          \/ /\ cmd'[d] = cmd[d]
             /\ ~(Executing(d) /\ IsRun(d) /\ cmd[d].backend = old)
          \/ (Stopped(d) /\ cmd[d].backend = old)
  BY <1>1 DEF WorkOn, Stopped
<1>11. cmd'[c] = [cmd[c] EXCEPT !.pc = "built", !.backend = new]
  BY <1>1
<1>12. QED
  BY <1>1, <1>6, <1>9, <1>10, <1>11 DEF Builds

LEMMA BackendForBuilds ==
    ASSUME ShapeInv, NEW c \in Cmds,
           \/ BuildNew(c) \/ Closed(c)
           \/ CloseReplaced(c) /\ ~(\E d \in RunOn(cache[cmd[c].profile]) : cmd[d].pc = "stream")
    PROVE  \E old \in Backends \cup {None}, new \in Backends : Builds(c, old, new)
<1>1. CASE BuildNew(c)
  <2> DEFINE b == cache[conn[cmd[c].conn].profile]
  <2>1. /\ cmd[c].pc = "got" /\ b # None => backend[b].conn # cmd[c].conn /\ ~Busy(b)
        /\ cmd[c].pc = "got" /\ Build(c)
        /\ UNCHANGED <<active, manager, session, conn, cache, window>>
    BY <1>1 DEF BuildNew
  <2>2. PICK new \in Backends :
          /\ backend[new] = None
          /\ backend' = [backend EXCEPT ![new] = NewBackend(cmd[c].conn)]
          /\ cmd' = [cmd EXCEPT ![c] = [cmd[c] EXCEPT !.pc = "built", !.backend = new]]
    BY <2>1 DEF Build
  <2>3. /\ cmd[c] \in Cmd /\ cmd \in [Cmds -> Cmd] /\ cmd[c].conn \in Conns
        /\ conn[cmd[c].conn] # None /\ b = cache[cmd[c].profile]
        /\ b \in Backends \cup {None}
    BY <2>1, GotHas
  <2>4. NewBackend(cmd[c].conn) \in Backend
    BY <2>3, NewBackendFits
  <2>5. [cmd[c] EXCEPT !.pc = "built", !.backend = new] \in Cmd
    BY <2>3 DEF Cmd, Connecting
  <2>6. /\ backend' \in [Backends -> Backend \cup {None}]
        /\ backend'[new] = NewBackend(cmd[c].conn)
        /\ \A a \in Backends : a # new => backend'[a] = backend[a]
    BY <2>2, <2>4 DEF ShapeInv, TypeOK
  <2>7. \A d \in Cmds : ~(Executing(d) /\ IsRun(d) /\ cmd[d].backend = b)
    <3>1. ASSUME NEW d \in Cmds, Executing(d), IsRun(d), cmd[d].backend = b PROVE FALSE
      <4>1. b # None
        BY <3>1, HeldHas, RunWindowAssumption DEF Executing
      <4>2. QED
        BY <2>1, <3>1, <4>1 DEF Busy, RunOn
    <3>2. QED
      BY <3>1
  <2>8. cmd' \in [Cmds -> Cmd]
    BY <2>2, <2>3, <2>5
  <2> HIDE DEF b
  <2>9. Builds(c, b, new)
    BY <2>1, <2>2, <2>3, <2>6, <2>7, <2>8 DEF Builds
  <2>10. QED
    BY <2>3, <2>9
<1>2. CASE Closed(c)
  <2>1. /\ Quiet /\ cmd[c].pc = "closing" /\ Replace(c, cmd[c].backend)
        /\ UNCHANGED <<active, manager, session, conn, cache, window>>
    BY <1>2 DEF Closed
  <2>2. cmd[c].backend \in Backends /\ backend[cmd[c].backend] # None
    BY <2>1, HeldHas
  <2>3. QED
    BY <2>1, <2>2, ReplaceBuilds
<1>3. CASE CloseReplaced(c) /\ ~(\E d \in RunOn(cache[cmd[c].profile]) : cmd[d].pc = "stream")
  <2> DEFINE b == cache[conn[cmd[c].conn].profile]
  <2>1. cmd[c].pc = "got"
    BY <1>3 DEF CloseReplaced
  <2>2. b = cache[cmd[c].profile] /\ b \in Backends \cup {None} /\ (b # None => backend[b] # None)
    BY <2>1, GotHas, NullAssumption
  <2>3. /\ b # None /\ backend[b].conn # cmd[c].conn /\ Replace(c, b)
        /\ UNCHANGED <<active, manager, session, conn, cache, window>>
    BY <1>3, <2>2 DEF CloseReplaced
  <2> HIDE DEF b
  <2>4. QED
    BY <2>1, <2>2, <2>3, ReplaceBuilds
<1>4. QED
  BY <1>1, <1>2, <1>3

LEMMA BuildsShape ==
    ASSUME ShapeInv, NEW c \in Cmds, NEW old, NEW new \in Backends, Builds(c, old, new)
    PROVE  ShapeInv' /\ Grown
<1>1. cmd[c].pc \in {"got", "closing"}
  BY DEF Builds
<1>2. /\ cmd[c].profile \in Profiles /\ cmd[c].conn \in Conns /\ cmd[c].kind \in Kinds
      /\ conn[cmd[c].conn] # None /\ conn[cmd[c].conn].profile = cmd[c].profile
      /\ cmd[c] \in Cmd /\ ~cmd[c].aborted
  <2>1. Placed(cmd[c])
    BY DEF ShapeInv, AllPlaced
  <2>2. QED
    BY <1>1, <2>1, GotHas DEF Placed, Submitted
<1>3. /\ NewBackend(cmd[c].conn).conn = cmd[c].conn
      /\ NewBackend(cmd[c].conn) # None
  BY <1>2, NewBackendFits
<1>4. /\ \A a \in Backends : backend[a] # None =>
            backend'[a] # None /\ backend'[a].conn = backend[a].conn
      /\ \A a \in Backends : backend'[a] # None => backend[a] # None \/ a = new
  <2>1. ASSUME NEW a \in Backends, backend[a] # None
        PROVE  backend'[a] # None /\ backend'[a].conn = backend[a].conn
    <3>1. a # new /\ backend[a] \in Backend
      BY <2>1 DEF Builds, ShapeInv, TypeOK
    <3>2. [backend[a] EXCEPT !.connected = FALSE] \in Backend
      BY <3>1 DEF Backend
    <3>3. [backend[a] EXCEPT !.connected = FALSE] # None
      BY <3>2, NullAssumption
    <3>4. QED
      BY <2>1, <3>1, <3>3 DEF Builds, Backend
  <2>2. ASSUME NEW a \in Backends, backend'[a] # None PROVE backend[a] # None \/ a = new
    BY <2>2 DEF Builds
  <2>3. QED
    BY <2>1, <2>2
<1>5. Grown
  BY <1>4 DEF Grown, Builds
<1>6. /\ cmd'[c].pc = "built" /\ cmd'[c].backend = new /\ Same(c) /\ ~cmd'[c].aborted
  BY <1>2 DEF Builds, Cmd, Same
<1>7. AllPlaced'
  <2>1. Placed(cmd[c])'
    BY <1>2, <1>3, <1>6 DEF Placed, Submitted, Builds, Same
  <2>2. QED
    BY <1>5, <2>1, PlacedAll DEF Builds, Stopped
<1>8. Made'
  BY <1>2, <1>3, <1>4, <1>5, MadeOn DEF Builds, manager
<1>9. Pointed'
  <2>1. \A d \in Cmds : Executing(d) => cmd'[d] = cmd[d] \/ Stopped(d)
    BY <1>1 DEF Builds, Executing, Submitted
  <2>2. \A d \in Cmds : Executing(d) => Executing(d)' /\ cmd'[d].kind = cmd[d].kind
    BY <2>1, StoppedStays DEF Executing, Same
  <2>3. QED
    BY <2>2, PointedOn DEF Builds
<1>10. TypeOK'
  BY DEF ShapeInv, TypeOK, manager, window, Builds
<1>11. QED
  BY <1>5, <1>7, <1>8, <1>9, <1>10 DEF ShapeInv

(* A step that only moves one command along, or tells some to stop.        *)
LEMMA SteadyShape ==
    ASSUME ShapeInv,
           UNCHANGED <<active, manager, conn, cache, window>>,
           session' \in [Sessions -> Session],
           backend' \in [Backends -> Backend \cup {None}],
           \A a \in Backends : /\ backend[a] = None => backend'[a] = None
                               /\ backend[a] # None =>
                                     backend'[a] # None /\ backend'[a].conn = backend[a].conn,
           cmd' \in [Cmds -> Cmd],
           \A d \in Cmds : \/ cmd'[d] = cmd[d] \/ Stopped(d)
                           \/ /\ Placed(cmd[d])'
                              /\ Executing(d) => Executing(d)' /\ cmd'[d].kind = cmd[d].kind
    PROVE  ShapeInv' /\ Grown
<1>1. Grown
  BY DEF Grown
<1>2. AllPlaced'
  BY <1>1, PlacedAll DEF Stopped
<1>3. Made'
  BY <1>1, MadeOn DEF manager
<1>4. Pointed'
  <2>1. \A d \in Cmds : Stopped(d) => cmd'[d].pc = cmd[d].pc /\ cmd'[d].kind = cmd[d].kind
    BY StoppedStays DEF Same
  <2>2. \A d \in Cmds : Executing(d) => Executing(d)' /\ cmd'[d].kind = cmd[d].kind
    BY <2>1 DEF Executing
  <2>3. QED
    BY <2>2, PointedOn
<1>5. TypeOK'
  BY DEF ShapeInv, TypeOK, manager, window
<1>6. QED
  BY <1>1, <1>2, <1>3, <1>4, <1>5 DEF ShapeInv

(* backendFor() first awaits the cancel of the job that the old one runs.  *)
Closes(c, old) ==
    /\ cmd[c].pc = "got" /\ old = cache[cmd[c].profile] /\ old \in Backends
    /\ backend[old] # None /\ backend[old].conn # cmd[c].conn
    /\ cmd' \in [Cmds -> Cmd]
    /\ cmd'[c] = [cmd[c] EXCEPT !.pc = "closing", !.backend = old]
    /\ \A d \in Cmds : d # c =>
          \/ /\ cmd'[d] = cmd[d]
             /\ ~(Executing(d) /\ IsRun(d) /\ cmd[d].backend = old)
          \/ Stopped(d) /\ cmd[d].backend = old /\ IsRun(d)
    /\ \E d \in Cmds : Executing(d) /\ cmd[d].backend = old
    /\ UNCHANGED <<active, manager, session, conn, backend, cache, window>>

LEMMA CloseReplacedCloses ==
    ASSUME ShapeInv, NEW c \in Cmds, CloseReplaced(c),
           \E d \in RunOn(cache[cmd[c].profile]) : cmd[d].pc = "stream"
    PROVE  \E old \in Backends : Closes(c, old)
<1> DEFINE b == cache[conn[cmd[c].conn].profile]
<1>1. cmd[c].pc = "got"
  BY DEF CloseReplaced
<1>2. /\ b = cache[cmd[c].profile] /\ b \in Backends \cup {None}
      /\ b # None => backend[b] # None
      /\ cmd[c] \in Cmd /\ cmd \in [Cmds -> Cmd]
  BY <1>1, GotHas, NullAssumption
<1>3. /\ b # None /\ backend[b].conn # cmd[c].conn
      /\ cmd' = [d \in Cmds |->
                  IF d = c THEN [cmd[c] EXCEPT !.pc = "closing", !.backend = b]
                  ELSE IF d \in RunOn(b) THEN [cmd[d] EXCEPT !.aborted = TRUE]
                  ELSE cmd[d]]
      /\ UNCHANGED <<active, manager, session, conn, backend, cache, window>>
  BY <1>2 DEF CloseReplaced
<1>4. \A d \in Cmds : [cmd[d] EXCEPT !.aborted = TRUE] \in Cmd
  BY <1>2 DEF Cmd
<1>5. [cmd[c] EXCEPT !.pc = "closing", !.backend = b] \in Cmd
  BY <1>2 DEF Cmd, Connecting
<1> HIDE DEF b
<1>6. cmd' \in [Cmds -> Cmd]
  BY <1>2, <1>3, <1>4, <1>5
<1>7. \A d \in Cmds : d # c =>
         \/ cmd'[d] = cmd[d] /\ ~(Executing(d) /\ IsRun(d) /\ cmd[d].backend = b)
         \/ Stopped(d) /\ cmd[d].backend = b /\ IsRun(d)
  BY <1>3 DEF RunOn, Stopped
<1>8. cmd'[c] = [cmd[c] EXCEPT !.pc = "closing", !.backend = b]
  BY <1>3
<1>9. \E d \in Cmds : Executing(d) /\ cmd[d].backend = b
  BY <1>2 DEF RunOn
<1>10. Closes(c, b)
  BY <1>1, <1>2, <1>3, <1>6, <1>7, <1>8, <1>9 DEF Closes
<1>11. QED
  BY <1>2, <1>3, <1>10

LEMMA ClosesShape ==
    ASSUME ShapeInv, NEW c \in Cmds, NEW old \in Backends, Closes(c, old)
    PROVE  ShapeInv' /\ Grown
<1>1. /\ cmd[c].pc = "got" /\ ~Executing(c)
  BY DEF Closes, Executing, Submitted
<1>2. /\ cmd[c].profile \in Profiles /\ cmd[c].conn \in Conns /\ cmd[c].kind \in Kinds
      /\ conn[cmd[c].conn] # None /\ conn[cmd[c].conn].profile = cmd[c].profile
      /\ cmd[c] \in Cmd /\ ~cmd[c].aborted /\ ProfileOf(old) = cmd[c].profile
  <2>1. Placed(cmd[c])
    BY DEF ShapeInv, AllPlaced
  <2>2. ~cmd[c].aborted
    BY <1>1, <2>1 DEF Placed, Submitted
  <2>3. old = cache[cmd[c].profile] /\ old # None
    BY RunWindowAssumption DEF Closes
  <2>4. QED
    BY <1>1, <2>2, <2>3, GotHas
<1>3. /\ cmd'[c].pc = "closing" /\ cmd'[c].backend = old /\ Same(c) /\ ~cmd'[c].aborted
  BY <1>2 DEF Closes, Cmd, Same
<1>4. Placed(cmd[c])'
  BY <1>2, <1>3 DEF Placed, Submitted, Closes, Same, ProfileOf
<1>5. session' \in [Sessions -> Session] /\ backend' \in [Backends -> Backend \cup {None}]
  BY DEF ShapeInv, TypeOK, Closes
<1>6. QED
  BY <1>1, <1>4, <1>5, SteadyShape DEF Closes

(* What marking a backend does to the backends: its object stays what it is. *)
Marks(b) ==
    /\ backend[b] # None /\ backend' \in [Backends -> Backend \cup {None}]
    /\ \A a \in Backends : a # b => backend'[a] = backend[a]
    /\ backend'[b] # None /\ backend'[b].conn = backend[b].conn

LEMMA MarksConnected ==
    ASSUME ShapeInv, NEW b \in Backends, backend[b] # None, NEW on \in BOOLEAN,
           backend' = [backend EXCEPT ![b].connected = on]
    PROVE  /\ Marks(b) /\ (backend'[b].connected <=> on)
           /\ backend'[b].pending = backend[b].pending
           /\ backend'[b].uploaded = backend[b].uploaded
<1>1. backend[b] \in Backend /\ backend \in [Backends -> Backend \cup {None}]
  BY DEF ShapeInv, TypeOK
<1>2. [backend[b] EXCEPT !.connected = on] \in Backend
  BY <1>1 DEF Backend
<1>3. backend' = [backend EXCEPT ![b] = [backend[b] EXCEPT !.connected = on]]
  OBVIOUS
<1>4. /\ [backend[b] EXCEPT !.connected = on].conn = backend[b].conn
      /\ [backend[b] EXCEPT !.connected = on].pending = backend[b].pending
      /\ [backend[b] EXCEPT !.connected = on].uploaded = backend[b].uploaded
      /\ [backend[b] EXCEPT !.connected = on].connected <=> on
  BY <1>1 DEF Backend
<1>5. QED
  BY <1>1, <1>2, <1>3, <1>4, NullAssumption DEF Marks

(* connect() marks a built backend ready and the cache takes it.           *)
Stores(c) ==
    /\ cmd[c].pc = "built"
    /\ Marks(cmd[c].backend) /\ backend'[cmd[c].backend].connected
    /\ backend'[cmd[c].backend].pending = backend[cmd[c].backend].pending
    /\ cache' = [cache EXCEPT ![cmd[c].profile] = cmd[c].backend]
    /\ cmd' \in [Cmds -> Cmd]
    /\ cmd'[c] = [cmd[c] EXCEPT !.pc = "ready"]
    /\ \A d \in Cmds : d # c => cmd'[d] = cmd[d]
    /\ UNCHANGED <<active, manager, session, conn, window>>

LEMMA StoreStores ==
    ASSUME ShapeInv, NEW c \in Cmds, Store(c)
    PROVE  Stores(c)
<1>1. /\ cmd[c].pc = "built"
      /\ backend' = [backend EXCEPT ![cmd[c].backend].connected = TRUE]
      /\ cache' = [cache EXCEPT ![conn[cmd[c].conn].profile] = cmd[c].backend]
      /\ cmd' = [cmd EXCEPT ![c] = [cmd[c] EXCEPT !.pc = "ready"]]
      /\ UNCHANGED <<active, manager, session, conn, window>>
  BY DEF Store
<1>2. /\ cmd[c] \in Cmd /\ cmd \in [Cmds -> Cmd]
      /\ conn[cmd[c].conn].profile = cmd[c].profile
  BY <1>1, GotHas
<1>3. cmd[c].backend \in Backends /\ backend[cmd[c].backend] # None
  BY <1>1, HeldHas
<1>4. /\ Marks(cmd[c].backend) /\ backend'[cmd[c].backend].connected
      /\ backend'[cmd[c].backend].pending = backend[cmd[c].backend].pending
  BY <1>1, <1>3, MarksConnected
<1>5. [cmd[c] EXCEPT !.pc = "ready"] \in Cmd
  BY <1>2 DEF Cmd, Connecting
<1>6. QED
  BY <1>1, <1>2, <1>4, <1>5 DEF Stores

LEMMA StoresShape ==
    ASSUME ShapeInv, NEW c \in Cmds, Stores(c)
    PROVE  ShapeInv' /\ Grown
<1> DEFINE b == cmd[c].backend
<1>1. cmd[c].pc = "built" /\ ~Executing(c)
  BY DEF Stores, Executing, Submitted
<1>2. /\ cmd[c].profile \in Profiles /\ cmd[c].conn \in Conns /\ cmd[c].kind \in Kinds
      /\ conn[cmd[c].conn] # None /\ conn[cmd[c].conn].profile = cmd[c].profile
      /\ cmd[c] \in Cmd
  BY <1>1, GotHas
<1>3. /\ b \in Backends /\ backend[b] # None /\ ProfileOf(b) = cmd[c].profile
      /\ backend[b].conn = cmd[c].conn
  BY <1>1, HeldHas
<1>4. ~cmd[c].aborted
  BY <1>1 DEF ShapeInv, AllPlaced, Placed, Submitted
<1>5. /\ cmd'[c].pc = "ready" /\ Same(c) /\ cmd'[c].backend = b /\ ~cmd'[c].aborted
  BY <1>2, <1>4 DEF Stores, Cmd, Same
<1>6. /\ \A a \in Backends : backend[a] # None =>
            backend'[a] # None /\ backend'[a].conn = backend[a].conn
      /\ \A a \in Backends : backend'[a] # None => backend[a] # None
      /\ backend' \in [Backends -> Backend \cup {None}]
  BY DEF Stores, Marks
<1>7. Grown
  BY <1>6 DEF Grown, Stores
<1>8. AllPlaced'
  <2>1. Placed(cmd[c])'
    BY <1>2, <1>3, <1>5, <1>6 DEF Placed, Submitted, Stores, Same
  <2>2. QED
    BY <1>7, <2>1, PlacedAll DEF Stores
<1>9. Made'
  <2>1. /\ UNCHANGED <<conn, live>>
        /\ \A p \in Profiles : cache'[p] = cache[p] \/ (p = cmd[c].profile /\ cache'[p] = b)
    BY DEF Stores, manager, ShapeInv, TypeOK
  <2>2. \A a \in Backends : backend'[a] # None => conn'[backend'[a].conn] # None
    BY <1>6, <2>1 DEF ShapeInv, Made
  <2>3. \A p \in Profiles : cache'[p] # None =>
           backend'[cache'[p]] # None /\ conn[backend'[cache'[p]].conn].profile = p
    BY <1>3, <1>6, <2>1 DEF ShapeInv, Made, TypeOK, ProfileOf
  <2>4. QED
    BY <2>1, <2>2, <2>3 DEF ShapeInv, Made, ProfileOf
<1>10. Pointed'
  <2>1. \A d \in Cmds : Executing(d) => cmd'[d] = cmd[d]
    BY <1>1 DEF Stores, Executing, Submitted
  <2>2. QED
    BY <2>1, PointedOn DEF Executing, Stores
<1>11. TypeOK'
  BY <1>2, <1>3, <1>6 DEF ShapeInv, TypeOK, manager, window, Stores
<1>12. QED
  BY <1>7, <1>8, <1>9, <1>10, <1>11 DEF ShapeInv

(* A submission claims its profile and is shown.                           *)
Starts(c, pc, seeding) ==
    /\ cmd[c].pc = "ready" /\ backend[cmd[c].backend].connected
    /\ RunOn(cmd[c].backend) = {} /\ cmd[c].profile \notin claimed
    /\ claimed' = claimed \cup {cmd[c].profile}
    /\ seeding <=> /\ cmd[c].profile \in Startup
                   /\ \/ cmd[c].kind \in {"file", "reset"}
                      \/ cmd[c].kind = "selection" /\ backend[cmd[c].backend].pending
    /\ pc \in {"startup", "prepare", "submit"} /\ (pc = "prepare" => IsRun(c))
    /\ cmd' \in [Cmds -> Cmd]
    /\ cmd'[c] = [cmd[c] EXCEPT !.seeding = seeding, !.pc = pc]
    /\ \A d \in Cmds : d # c => cmd'[d] = cmd[d]
    /\ Shows(c)
    /\ UNCHANGED <<active, live, binding, session, conn, backend, cache>>

LEMMA StartStarts ==
    ASSUME ShapeInv, NEW c \in Cmds, Start(c)
    PROVE  \E pc \in Submitted, seeding \in BOOLEAN : Starts(c, pc, seeding)
<1> DEFINE b == cmd[c].backend
           seeding == /\ ProfileOf(b) \in Startup
                      /\ \/ cmd[c].kind \in {"file", "reset"}
                         \/ cmd[c].kind = "selection" /\ backend[b].pending
           pc == IF seeding /\ ~backend[b].uploaded THEN "startup" ELSE AfterStartup(c)
<1>1. /\ cmd[c].pc = "ready" /\ ~Busy(b) /\ backend[b].connected
      /\ claimed' = claimed \cup {ProfileOf(b)}
      /\ cmd' = [cmd EXCEPT ![c] = [cmd[c] EXCEPT !.seeding = seeding, !.pc = pc]]
      /\ Shows(c)
      /\ UNCHANGED <<active, live, binding, session, conn, backend, cache>>
  BY DEF Start
<1>2. /\ cmd[c] \in Cmd /\ cmd \in [Cmds -> Cmd]
  BY <1>1, GotHas
<1>3. ProfileOf(b) = cmd[c].profile
  BY <1>1, HeldHas
<1>4. pc \in {"startup", "prepare", "submit"} /\ (pc = "prepare" => IsRun(c))
  BY DEF AfterStartup
<1> HIDE DEF pc
<1>5. PICK sown \in BOOLEAN : /\ sown <=> seeding
        /\ cmd' = [cmd EXCEPT ![c] = [cmd[c] EXCEPT !.seeding = sown, !.pc = pc]]
  <2>1. CASE seeding
    <3>1. (seeding) = TRUE
      BY <2>1
    <3> HIDE DEF seeding
    <3>2. QED
      BY <1>1, <2>1, <3>1
  <2>2. CASE ~seeding
    <3>1. (seeding) = FALSE
      BY <2>2
    <3> HIDE DEF seeding
    <3>2. QED
      BY <1>1, <2>2, <3>1
  <2>3. QED
    BY <2>1, <2>2
<1>6. [cmd[c] EXCEPT !.seeding = sown, !.pc = pc] \in Cmd
  BY <1>2, <1>4 DEF Cmd, Submitted
<1>7. pc \in Submitted
  BY <1>4 DEF Submitted
<1>8. RunOn(b) = {} /\ cmd[c].profile \notin claimed
  BY <1>1, <1>3 DEF Busy
<1>9. Starts(c, pc, sown)
  BY <1>1, <1>2, <1>3, <1>4, <1>5, <1>6, <1>8 DEF Starts
<1>10. QED
  BY <1>7, <1>9

LEMMA StartsShape ==
    ASSUME ShapeInv, NEW c \in Cmds, NEW pc \in Submitted, NEW seeding \in BOOLEAN,
           Starts(c, pc, seeding)
    PROVE  ShapeInv' /\ Grown
<1>1. cmd[c].pc = "ready" /\ ~Executing(c) /\ cmd[c] \in Cmd /\ cmd[c].profile \in Profiles
  BY GotHas DEF Starts, Executing, Submitted
<1>2. /\ cmd'[c].pc = pc /\ Same(c) /\ cmd'[c].backend = cmd[c].backend
      /\ cmd'[c].aborted = cmd[c].aborted
  BY <1>1 DEF Starts, Cmd, Same
<1>3. Grown
  BY DEF Grown, Starts
<1>4. AllPlaced'
  <2>1. Placed(cmd[c])
    BY DEF ShapeInv, AllPlaced
  <2>2. pc # "result" /\ pc # "closing"
    BY DEF Starts, Submitted
  <2>3. Placed(cmd[c])'
    BY <1>1, <1>2, <2>1, <2>2 DEF Placed, Same, Starts
  <2>4. QED
    BY <1>3, <2>3, PlacedAll DEF Starts
<1>5. Made'
  BY <1>3, MadeOn DEF Starts
<1>6. Pointed'
  <2>1. /\ currentRun' = currentRun \/ (IsRun(c) /\ currentRun' = c)
        /\ currentReset' = currentReset \/ (cmd[c].kind = "reset" /\ currentReset' = c)
    BY DEF Starts, Shows
  <2>2. \A d \in Cmds : Executing(d) => Executing(d)' /\ cmd'[d].kind = cmd[d].kind
    BY <1>1 DEF Starts, Executing
  <2>3. Executing(c)' /\ cmd'[c].kind = cmd[c].kind
    BY <1>2 DEF Executing, Same
  <2>4. currentRun \in Cmds \cup {None} /\ currentReset \in Cmds \cup {None}
    BY DEF ShapeInv, TypeOK
  <2>5. QED
    BY <2>1, <2>2, <2>3, <2>4, RunWindowAssumption DEF ShapeInv, Pointed, IsRun
<1>7. TypeOK'
  <2>1. currentRun' \in Cmds \cup {None} /\ currentReset' \in Cmds \cup {None} /\ running' \in BOOLEAN
    BY DEF ShapeInv, TypeOK, Starts, Shows
  <2>2. QED
    BY <1>1, <2>1 DEF ShapeInv, TypeOK, Starts
<1>8. QED
  BY <1>3, <1>4, <1>5, <1>6, <1>7 DEF ShapeInv

(* The submission goes on to its next await.                               *)
GoesOn(c, pc) ==
    /\ Executing(c) /\ Quiet
    /\ pc = "result" => cmd[c].kind = "reset"
    /\ Marks(cmd[c].backend)
    /\ backend'[cmd[c].backend].connected = backend[cmd[c].backend].connected
    /\ session' \in [Sessions -> Session]
    /\ cmd' \in [Cmds -> Cmd]
    /\ cmd'[c] = [cmd[c] EXCEPT !.pc = pc]
    /\ \A d \in Cmds : d # c => cmd'[d] = cmd[d]
    /\ UNCHANGED <<active, manager, conn, cache, window>>

LEMMA ExecutingHas ==
    ASSUME ShapeInv, NEW c \in Cmds, Executing(c)
    PROVE  /\ cmd[c] \in Cmd /\ cmd \in [Cmds -> Cmd]
           /\ cmd[c].profile \in Profiles /\ cmd[c].conn \in Conns /\ cmd[c].kind \in Kinds
           /\ cmd[c].backend \in Backends /\ backend[cmd[c].backend] # None
           /\ backend[cmd[c].backend] \in Backend
           /\ backend[cmd[c].backend].conn = cmd[c].conn
           /\ ProfileOf(cmd[c].backend) = cmd[c].profile
           /\ conn[cmd[c].conn] \in Connection
           /\ SessionOf(c) \in Sessions
<1>1. cmd[c].pc \in Submitted /\ cmd[c].pc # "closing"
  BY DEF Executing, Submitted
<1>2. /\ cmd[c] \in Cmd /\ cmd \in [Cmds -> Cmd] /\ cmd[c].kind \in Kinds
      /\ cmd[c].profile \in Profiles /\ cmd[c].conn \in Conns
      /\ conn[cmd[c].conn] \in Connection
  BY <1>1, GotHas
<1>3. /\ cmd[c].backend \in Backends /\ backend[cmd[c].backend] # None
      /\ backend[cmd[c].backend] \in Backend
      /\ ProfileOf(cmd[c].backend) = cmd[c].profile
      /\ backend[cmd[c].backend].conn = cmd[c].conn
  BY <1>1, HeldHas
<1>4. QED
  BY <1>2, <1>3 DEF SessionOf, Connection

LEMMA PendingMarks ==
    ASSUME ShapeInv, NEW b \in Backends, backend[b] # None,
           \/ backend' = [backend EXCEPT ![b].pending = FALSE]
           \/ backend' = [backend EXCEPT ![b].uploaded = TRUE]
           \/ UNCHANGED backend
    PROVE  Marks(b) /\ backend'[b].connected = backend[b].connected
<1>1. backend[b] \in Backend /\ backend \in [Backends -> Backend \cup {None}]
  BY DEF ShapeInv, TypeOK
<1>2. CASE backend' = [backend EXCEPT ![b].pending = FALSE]
  <2>1. [backend[b] EXCEPT !.pending = FALSE] \in Backend
    BY <1>1 DEF Backend
  <2>2. QED
    BY <1>1, <1>2, <2>1, NullAssumption DEF Marks, Backend
<1>3. CASE backend' = [backend EXCEPT ![b].uploaded = TRUE]
  <2>1. [backend[b] EXCEPT !.uploaded = TRUE] \in Backend
    BY <1>1 DEF Backend
  <2>2. QED
    BY <1>1, <1>3, <2>1, NullAssumption DEF Marks, Backend
<1>4. CASE UNCHANGED backend
  BY <1>1, <1>4 DEF Marks
<1>5. QED
  BY <1>2, <1>3, <1>4

LEMMA WorkGoesOn ==
    ASSUME ShapeInv, NEW c \in Cmds,
           \/ SnippetUploaded(c) \/ Prepared(c) \/ JobCreated(c)
           \/ JobEnded(c) \/ StatusRead(c)
    PROVE  \E pc \in Submitted : GoesOn(c, pc)
<1>1. PICK pc \in Submitted :
        /\ Executing(c) /\ Quiet
        /\ pc = "result" => cmd[c].kind = "reset"
        /\ cmd' = [cmd EXCEPT ![c] = [cmd[c] EXCEPT !.pc = pc]]
        /\ \/ backend' = [backend EXCEPT ![cmd[c].backend].pending = FALSE]
           \/ backend' = [backend EXCEPT ![cmd[c].backend].uploaded = TRUE]
           \/ UNCHANGED backend
        /\ UNCHANGED <<active, manager, conn, cache, window>>
  <2>1. CASE SnippetUploaded(c)
    <3>1. AfterStartup(c) \in Submitted /\ AfterStartup(c) # "result"
      BY DEF AfterStartup, Submitted
    <3>2. QED
      BY <2>1, <3>1 DEF SnippetUploaded, Answers, Goes
  <2>2. CASE Prepared(c)
    <3>1. "submit" \in Submitted
      BY DEF Submitted
    <3>2. QED
      BY <2>2, <3>1 DEF Prepared, Answers, Goes
  <2>3. CASE JobCreated(c)
    <3>1. "stream" \in Submitted
      BY DEF Submitted
    <3>2. QED
      BY <2>3, <3>1 DEF JobCreated, Answers, Goes
  <2>4. CASE JobEnded(c)
    <3>1. "syscc" \in Submitted
      BY DEF Submitted
    <3>2. QED
      BY <2>4, <3>1 DEF JobEnded, Answers, Goes
  <2>5. CASE StatusRead(c)
    <3>1. "result" \in Submitted /\ "capture" \in Submitted
      BY DEF Submitted
    <3> DEFINE pc == IF cmd[c].kind = "reset" THEN "result" ELSE "capture"
    <3>2. pc \in Submitted /\ (pc = "result" => cmd[c].kind = "reset")
      BY <3>1
    <3>3. cmd' = [cmd EXCEPT ![c] = [cmd[c] EXCEPT !.pc = pc]]
      BY <2>5 DEF StatusRead, Goes
    <3> HIDE DEF pc
    <3>4. QED
      BY <2>5, <3>2, <3>3 DEF StatusRead, Answers
  <2>6. QED
    BY <2>1, <2>2, <2>3, <2>4, <2>5
<1>2. /\ cmd[c] \in Cmd /\ cmd \in [Cmds -> Cmd]
      /\ cmd[c].backend \in Backends /\ backend[cmd[c].backend] # None
  BY <1>1, ExecutingHas
<1>3. Marks(cmd[c].backend) /\ backend'[cmd[c].backend].connected = backend[cmd[c].backend].connected
  BY <1>1, <1>2, PendingMarks
<1>4. session' \in [Sessions -> Session]
  <2>1. CASE JobCreated(c)
    <3> DEFINE bare == /\ IsRun(c) /\ ~cmd[c].seeding /\ ~session[SessionOf(c)].seeded
                       /\ ProfileOf(cmd[c].backend) \in Startup
           s == SessionOf(c)
           seeded == session[s].seeded \/ cmd[c].seeding
           wild == session[s].bare \/ bare
    <3>1. session' = [session EXCEPT ![s].seeded = seeded, ![s].bare = wild]
      BY <2>1 DEF JobCreated
    <3>2. seeded \in BOOLEAN /\ wild \in BOOLEAN /\ s \in Sessions
      BY <1>1, <1>2, ExecutingHas DEF ShapeInv, TypeOK, Cmd, Session
    <3> HIDE DEF bare, seeded, wild, s
    <3>3. QED
      BY <3>1, <3>2 DEF ShapeInv, TypeOK, Session
  <2>2. CASE ~JobCreated(c)
    BY <2>2 DEF SnippetUploaded, Prepared, JobEnded, StatusRead, ShapeInv, TypeOK
  <2>3. QED
    BY <2>1, <2>2
<1>5. [cmd[c] EXCEPT !.pc = pc] \in Cmd
  BY <1>2 DEF Cmd
<1>6. GoesOn(c, pc)
  BY <1>1, <1>2, <1>3, <1>4, <1>5 DEF GoesOn
<1>7. QED
  BY <1>6

LEMMA GoesOnShape ==
    ASSUME ShapeInv, NEW c \in Cmds, NEW pc \in Submitted, GoesOn(c, pc)
    PROVE  ShapeInv' /\ Grown
<1>1. Executing(c) /\ cmd[c] \in Cmd
  BY ExecutingHas DEF GoesOn
<1>2. /\ cmd'[c].pc = pc /\ Same(c) /\ cmd'[c].backend = cmd[c].backend
      /\ cmd'[c].aborted = cmd[c].aborted
  BY <1>1 DEF GoesOn, Cmd, Same
<1>3. /\ backend' \in [Backends -> Backend \cup {None}]
      /\ \A a \in Backends : /\ backend[a] = None => backend'[a] = None
                             /\ backend[a] # None =>
                                   backend'[a] # None /\ backend'[a].conn = backend[a].conn
  BY DEF GoesOn, Marks
<1>4. Placed(cmd[c])'
  <2>1. Placed(cmd[c])
    BY DEF ShapeInv, AllPlaced
  <2>2. /\ cmd[c].profile \in Profiles /\ cmd[c].conn \in Conns /\ cmd[c].kind \in Kinds
        /\ cmd[c].backend \in Backends /\ backend[cmd[c].backend] # None
        /\ backend[cmd[c].backend].conn = cmd[c].conn /\ conn[cmd[c].conn] # None
        /\ conn[cmd[c].conn].profile = cmd[c].profile
    BY <1>1, <2>1, ExecutingHas DEF Placed, Executing
  <2>3. pc # "closing" /\ pc # "idle" /\ (pc = "result" => cmd[c].kind = "reset")
    BY DEF Submitted, GoesOn
  <2>4. UNCHANGED conn
    BY DEF GoesOn
  <2>5. QED
    BY <1>2, <1>3, <2>2, <2>3, <2>4 DEF Placed, Same
<1>5. Executing(c)' /\ cmd'[c].kind = cmd[c].kind
  BY <1>2 DEF Executing, Same
<1>6. \A d \in Cmds : \/ cmd'[d] = cmd[d] \/ Stopped(d)
                      \/ /\ Placed(cmd[d])'
                         /\ Executing(d) => Executing(d)' /\ cmd'[d].kind = cmd[d].kind
  BY <1>4, <1>5 DEF GoesOn
<1>7. QED
  BY <1>3, <1>6, SteadyShape DEF GoesOn

(* The submission settles: a run that was told to stop as cancelled.  It   *)
(* forgets the connection only when it finds the session gone.             *)
Settles(c, outcome) ==
    /\ Executing(c) /\ Quiet
    /\ IsRun(c) /\ cmd[c].aborted => outcome = "cancelled"
    /\ claimed' = claimed \ {cmd[c].profile}
    /\ cmd' \in [Cmds -> Cmd]
    /\ cmd'[c] = Told(c, outcome)
    /\ \A d \in Cmds : d # c => cmd'[d] = cmd[d]
    /\ Hides(c)
    /\ \/ UNCHANGED live
       \/ /\ live' = [live EXCEPT ![cmd[c].profile] = None]
          /\ "blip" \notin Mishaps => session[SessionOf(c)].state = "gone"
    /\ UNCHANGED <<active, binding, session, conn, backend, cache>>

LEMMA SettleSettles ==
    ASSUME ShapeInv, NEW c \in Cmds, Completes(c) \/ RequestFails(c) \/ ResetReported(c)
    PROVE  \E outcome \in Outcomes : Settles(c, outcome)
<1>1. Executing(c) /\ Quiet
  BY DEF Completes, RequestFails, ResetReported, Executing, Submitted, Answers
<1>2. PICK outcome \in Outcomes :
        /\ Settle(c, outcome) /\ (IsRun(c) /\ cmd[c].aborted => outcome = "cancelled")
        /\ outcome = "gone" /\ "blip" \notin Mishaps => session[SessionOf(c)].state = "gone"
  <2>1. CASE Completes(c)
    <3>1. CASE cmd[c].aborted
      BY <2>1, <3>1 DEF Completes, Outcomes
    <3>2. CASE ~cmd[c].aborted
      BY <2>1, <3>2 DEF Completes, Outcomes
    <3>3. QED
      BY <3>1, <3>2
  <2>2. CASE RequestFails(c)
    BY <2>2 DEF RequestFails, Outcomes
  <2>3. CASE ResetReported(c)
    <3>1. cmd[c].kind = "reset"
      BY <2>3 DEF ResetReported, ShapeInv, AllPlaced, Placed
    <3>2. QED
      BY <2>3, <3>1 DEF ResetReported, Outcomes, IsRun
  <2>4. QED
    BY <2>1, <2>2, <2>3
<1>3. /\ cmd[c] \in Cmd /\ cmd \in [Cmds -> Cmd]
      /\ ProfileOf(cmd[c].backend) = cmd[c].profile
  BY <1>1, ExecutingHas
<1>4. Told(c, outcome) \in Cmd
  BY <1>3 DEF Told, Cmd, IdleCmd
<1>5. /\ claimed' = claimed \ {cmd[c].profile}
      /\ cmd' = [cmd EXCEPT ![c] = Told(c, outcome)]
      /\ Hides(c)
      /\ \/ UNCHANGED live
         \/ /\ live' = [live EXCEPT ![cmd[c].profile] = None]
            /\ "blip" \notin Mishaps => session[SessionOf(c)].state = "gone"
      /\ UNCHANGED <<active, binding, session, conn, backend, cache>>
  BY <1>2, <1>3 DEF Settle
<1>6. Settles(c, outcome)
  BY <1>1, <1>2, <1>3, <1>4, <1>5 DEF Settles
<1>7. QED
  BY <1>6

LEMMA ToldIs ==
    ASSUME NEW c \in Cmds, NEW outcome \in Outcomes
    PROVE  /\ Told(c, outcome).pc = "told" /\ Told(c, outcome).kind = cmd[c].kind
           /\ Told(c, outcome).aborted = cmd[c].aborted
           /\ Told(c, outcome).outcome = outcome
BY DEF Told, IdleCmd

LEMMA SettlesShape ==
    ASSUME ShapeInv, NEW c \in Cmds, NEW outcome \in Outcomes, Settles(c, outcome)
    PROVE  ShapeInv' /\ Grown
<1>1. Executing(c) /\ cmd[c].kind \in Kinds /\ cmd[c].profile \in Profiles
  BY ExecutingHas DEF Settles
<1>2. /\ cmd'[c].pc = "told" /\ cmd'[c].kind = cmd[c].kind
      /\ cmd'[c].aborted = cmd[c].aborted /\ cmd'[c].outcome = outcome
  BY ToldIs DEF Settles
<1>3. Grown
  BY DEF Grown, Settles
<1>4. AllPlaced'
  <2>1. Placed(cmd[c])'
    BY <1>1, <1>2 DEF Placed, Connecting, Submitted
  <2>2. QED
    BY <1>3, <2>1, PlacedAll DEF Settles
<1>5. Made'
  <2>1. \A p \in Profiles : live'[p] \in {live[p], None}
    BY DEF Settles, ShapeInv, TypeOK
  <2>2. QED
    BY <1>3, <2>1, MadeOn DEF Settles
<1>6. Pointed'
  <2>1. currentRun' # None => currentRun' = currentRun /\ currentRun # c
    BY RunWindowAssumption DEF Settles, Hides, ShapeInv, Pointed
  <2>2. currentReset' # None => currentReset' = currentReset /\ currentReset # c
    BY RunWindowAssumption DEF Settles, Hides, ShapeInv, Pointed
  <2>3. \A d \in Cmds : d # c => cmd'[d] = cmd[d]
    BY DEF Settles
  <2>4. currentRun \in Cmds \cup {None} /\ currentReset \in Cmds \cup {None}
    BY DEF ShapeInv, TypeOK
  <2>5. QED
    BY <2>1, <2>2, <2>3, <2>4 DEF ShapeInv, Pointed, IsRun, Executing
<1>7. TypeOK'
  <2>1. currentRun' \in Cmds \cup {None} /\ currentReset' \in Cmds \cup {None} /\ running' \in BOOLEAN
    BY DEF ShapeInv, TypeOK, Settles, Hides
  <2>2. live' \in [Profiles -> Conns \cup {None}]
    BY DEF ShapeInv, TypeOK, Settles
  <2>3. QED
    BY <2>1, <2>2 DEF ShapeInv, TypeOK, Settles
<1>8. QED
  BY <1>3, <1>4, <1>5, <1>6, <1>7 DEF ShapeInv

(* Cancel, from the command palette or a run's own notification.           *)
Cancels ==
    /\ Quiet
    /\ UNCHANGED backend \/ \E b \in Backends :
          Marks(b) /\ backend'[b].pending = backend[b].pending
    /\ cmd' \in [Cmds -> Cmd]
    /\ \A d \in Cmds : cmd'[d] = cmd[d] \/ Stopped(d)
    /\ UNCHANGED <<active, manager, session, conn, cache, window>>

LEMMA CancelCancels ==
    ASSUME ShapeInv, CancelRun \/ \E c \in Cmds : CancelFromNotification(c)
    PROVE  Cancels
<1>1. cmd \in [Cmds -> Cmd] /\ currentRun \in Cmds \cup {None} /\ currentReset \in Cmds \cup {None}
  BY DEF ShapeInv, TypeOK
<1>2. \A d \in Cmds : [cmd[d] EXCEPT !.aborted = TRUE] \in Cmd
  BY <1>1 DEF Cmd
<1>3. CASE \E c \in Cmds : CancelFromNotification(c)
  BY <1>1, <1>2, <1>3 DEF CancelFromNotification, Cancels, Stopped
<1>4. CASE CancelRun /\ currentRun # None
  <2>1. Executing(currentRun) /\ currentRun \in Cmds
    BY <1>1, <1>4 DEF ShapeInv, Pointed
  <2>2. /\ Quiet /\ cmd' = [cmd EXCEPT ![currentRun] = [cmd[currentRun] EXCEPT !.aborted = TRUE]]
        /\ UNCHANGED backend /\ UNCHANGED <<active, manager, session, conn, cache, window>>
    BY <1>4 DEF CancelRun
  <2>3. QED
    BY <1>1, <1>2, <2>1, <2>2 DEF Cancels, Stopped
<1>5. CASE CancelRun /\ ~(currentRun # None)
  <2> DEFINE b == cmd[currentReset].backend
  <2>1. /\ Quiet /\ currentReset # None
        /\ cmd' = [c \in Cmds |-> IF c \in WorkOn(b)
                            THEN [cmd[c] EXCEPT !.aborted = TRUE] ELSE cmd[c]]
        /\ backend' = [backend EXCEPT ![b].connected = FALSE]
        /\ UNCHANGED <<active, manager, session, conn, cache, window>>
    BY <1>5 DEF CancelRun
  <2>2. Executing(currentReset) /\ currentReset \in Cmds
    BY <1>1, <2>1 DEF ShapeInv, Pointed
  <2>3. b \in Backends /\ backend[b] # None
    BY <2>2, ExecutingHas
  <2>4. Marks(b) /\ backend'[b].pending = backend[b].pending
    BY <2>1, <2>3, MarksConnected
  <2> HIDE DEF b
  <2>5. cmd' \in [Cmds -> Cmd] /\ \A d \in Cmds : cmd'[d] = cmd[d] \/ Stopped(d)
    BY <1>1, <1>2, <2>1 DEF WorkOn, Stopped
  <2>6. QED
    BY <2>1, <2>3, <2>4, <2>5 DEF Cancels
<1>6. QED
  BY <1>3, <1>4, <1>5

LEMMA CancelsShape ==
    ASSUME ShapeInv, Cancels
    PROVE  ShapeInv' /\ Grown
<1>1. /\ backend' \in [Backends -> Backend \cup {None}]
      /\ \A a \in Backends : /\ backend[a] = None => backend'[a] = None
                             /\ backend[a] # None =>
                                   backend'[a] # None /\ backend'[a].conn = backend[a].conn
  BY DEF Cancels, Marks, ShapeInv, TypeOK
<1>2. session' \in [Sessions -> Session]
  BY DEF Cancels, ShapeInv, TypeOK
<1>3. QED
  BY <1>1, <1>2, SteadyShape DEF Cancels

(* Every step is of one of these kinds.                                    *)
Surroundings ==
    \/ \E p \in Profiles : SignedOut(p) \/ SwitchesProfile(p)
    \/ Disconnects
    \/ \E s \in Sessions : SessionReaped(s)
    \/ UNCHANGED vars
Slots(c) == (\E kind \in Kinds : Invoke(c, kind)) \/ Return(c) \/ Refused(c)
Advances(c) ==
    SnippetUploaded(c) \/ Prepared(c) \/ JobCreated(c) \/ JobEnded(c) \/ StatusRead(c)

Outside ==
    \/ Surroundings
    \/ \E c \in Cmds : Slots(c)
    \/ \E p \in Profiles : Connects(p)
    \/ \E p \in Profiles : ConnectFails(p)
    \/ Cancels
BackendFor ==
    \/ \E c \in Cmds, b \in Backends : Taken(c, b)
    \/ \E c \in Cmds, old \in Backends \cup {None}, new \in Backends : Builds(c, old, new)
    \/ \E c \in Cmds, old \in Backends : Closes(c, old)
    \/ \E c \in Cmds : Stores(c)
Submits ==
    \/ \E c \in Cmds, pc \in Submitted, seeding \in BOOLEAN : Starts(c, pc, seeding)
    \/ \E c \in Cmds, pc \in Submitted : Advances(c) /\ GoesOn(c, pc)
    \/ \E c \in Cmds, outcome \in Outcomes : Settles(c, outcome)

LEMMA StepKinds ==
    ASSUME ShapeInv, [Next]_vars
    PROVE  Outside \/ BackendFor \/ Submits
<1>1. CASE UNCHANGED vars
  BY <1>1 DEF Outside, Surroundings
<1>2. CASE \E p \in Profiles :
             Connects(p) \/ ConnectFails(p) \/ SignedOut(p) \/ SwitchesProfile(p)
  BY <1>2 DEF Outside, Surroundings
<1>3. CASE Disconnects \/ \E s \in Sessions : SessionReaped(s)
  BY <1>3 DEF Outside, Surroundings
<1>4. CASE CancelRun \/ \E c \in Cmds : CancelFromNotification(c)
  BY <1>4, CancelCancels DEF Outside
<1>5. ASSUME NEW c \in Cmds, Continues(c) PROVE Outside \/ BackendFor \/ Submits
  <2>1. CASE UseCached(c)
    BY <2>1, UseCachedTakes DEF BackendFor
  <2>2. CASE CloseReplaced(c)
    <3>1. CASE \E d \in RunOn(cache[cmd[c].profile]) : cmd[d].pc = "stream"
      BY <2>2, <3>1, CloseReplacedCloses DEF BackendFor
    <3>2. CASE ~\E d \in RunOn(cache[cmd[c].profile]) : cmd[d].pc = "stream"
      BY <2>2, <3>2, BackendForBuilds DEF BackendFor
    <3>3. QED
      BY <3>1, <3>2
  <2>3. CASE BuildNew(c)
    BY <2>3, BackendForBuilds DEF BackendFor
  <2>4. CASE Store(c)
    BY <2>4, StoreStores DEF BackendFor
  <2>5. CASE Refused(c)
    BY <2>5 DEF Outside, Slots
  <2>6. CASE Start(c)
    BY <2>6, StartStarts DEF Submits
  <2>7. QED
    BY <1>5, <2>1, <2>2, <2>3, <2>4, <2>5, <2>6 DEF Continues
<1>6. ASSUME NEW c \in Cmds, Answered(c) \/ JobEnded(c) PROVE BackendFor \/ Submits
  <2>1. CASE Closed(c)
    BY <2>1, BackendForBuilds DEF BackendFor
  <2>2. CASE Advances(c)
    BY <2>2, WorkGoesOn DEF Submits, Advances
  <2>3. CASE Completes(c) \/ RequestFails(c) \/ ResetReported(c)
    BY <2>3, SettleSettles DEF Submits
  <2>4. QED
    BY <1>6, <2>1, <2>2, <2>3 DEF Answered, Advances
<1>7. ASSUME NEW c \in Cmds, (\E kind \in Kinds : Invoke(c, kind)) \/ Return(c) PROVE Outside
  BY <1>7 DEF Outside, Slots
<1>8. QED
  BY <1>1, <1>2, <1>3, <1>4, <1>5, <1>6, <1>7 DEF Next

LEMMA ShapeStep ==
    ASSUME ShapeInv, [Next]_vars
    PROVE  ShapeInv'
<1>1. CASE Outside
  <2>1. CASE Surroundings
    BY <2>1, SurroundingsShape DEF Surroundings
  <2>2. CASE \E c \in Cmds : Slots(c)
    BY <2>2, SlotShape DEF Slots
  <2>3. CASE \E p \in Profiles : Connects(p)
    BY <2>3, ConnectsShape
  <2>4. CASE \E p \in Profiles : ConnectFails(p)
    BY <2>4, FailsShape
  <2>5. CASE Cancels
    BY <2>5, CancelsShape
  <2>6. QED
    BY <1>1, <2>1, <2>2, <2>3, <2>4, <2>5 DEF Outside
<1>2. CASE BackendFor
  <2>1. CASE \E c \in Cmds, b \in Backends : Taken(c, b)
    BY <2>1, TakenShape
  <2>2. CASE \E c \in Cmds, old \in Backends \cup {None}, new \in Backends : Builds(c, old, new)
    BY <2>2, BuildsShape
  <2>3. CASE \E c \in Cmds, old \in Backends : Closes(c, old)
    BY <2>3, ClosesShape
  <2>4. CASE \E c \in Cmds : Stores(c)
    BY <2>4, StoresShape
  <2>5. QED
    BY <1>2, <2>1, <2>2, <2>3, <2>4 DEF BackendFor
<1>3. CASE Submits
  <2>1. CASE \E c \in Cmds, pc \in Submitted, seeding \in BOOLEAN : Starts(c, pc, seeding)
    BY <2>1, StartsShape
  <2>2. CASE \E c \in Cmds, pc \in Submitted : Advances(c) /\ GoesOn(c, pc)
    BY <2>2, GoesOnShape
  <2>3. CASE \E c \in Cmds, outcome \in Outcomes : Settles(c, outcome)
    BY <2>3, SettlesShape
  <2>4. QED
    BY <1>3, <2>1, <2>2, <2>3 DEF Submits
<1>4. QED
  BY <1>1, <1>2, <1>3, StepKinds

LEMMA InitIdle ==
    ASSUME Init
    PROVE  \A c \in Cmds : cmd[c].pc = "idle" /\ ~cmd[c].aborted /\ ~Executing(c)
BY DEF Init, IdleCmd, Executing, Submitted

LEMMA InitShape == Init => ShapeInv
<1> SUFFICES ASSUME Init PROVE ShapeInv
  OBVIOUS
<1>1. TypeOK
  <2>1. IdleCmd \in Cmd
    BY DEF IdleCmd, Cmd
  <2>2. [state |-> "unused", seeded |-> FALSE, bare |-> FALSE] \in Session
    BY DEF Session
  <2>3. QED
    BY <2>1, <2>2 DEF Init, TypeOK
<1>2. AllPlaced
  BY InitIdle DEF AllPlaced, Placed, Connecting, Submitted
<1>3. Made /\ Pointed
  BY DEF Init, Made, Pointed
<1>4. QED
  BY <1>1, <1>2, <1>3 DEF ShapeInv

(* What a command, a backend, a connection and a session hold at each     *)
(* place in the code: the ground on which the other invariants stand.      *)
THEOREM ShapeHolds == Spec => []ShapeInv
<1>1. ShapeInv /\ [Next]_vars => ShapeInv'
  BY ShapeStep
<1>2. QED
  BY InitShape, <1>1, PTL DEF Spec

(* Every variable keeps to its range.                                      *)
THEOREM RunWindowTypes == Spec => []TypeOK
<1>1. ShapeInv => TypeOK
  BY DEF ShapeInv
<1>2. QED
  BY <1>1, ShapeHolds, PTL

-----------------------------------------------------------------------------
(* Claims.  Only starting and settling change what is under way.           *)
WorkKept ==
    /\ UNCHANGED <<claimed, window>>
    /\ \A d \in Cmds : Executing(d) <=> Executing(d)'
    /\ \A d \in Cmds : Executing(d) =>
          /\ Same(d) /\ cmd'[d].backend = cmd[d].backend
          /\ cmd'[d].seeding = cmd[d].seeding
          /\ cmd[d].aborted => cmd'[d].aborted

LEMMA KeptUnless ==
    ASSUME ShapeInv, UNCHANGED <<claimed, window>>,
           \A d \in Cmds : \/ cmd'[d] = cmd[d] \/ Stopped(d)
                           \/ ~Executing(d) /\ ~Executing(d)'
    PROVE  WorkKept
<1>1. ASSUME NEW d \in Cmds, Stopped(d)
      PROVE  /\ Executing(d) /\ Executing(d)' /\ Same(d) /\ cmd'[d].backend = cmd[d].backend
             /\ cmd'[d].seeding = cmd[d].seeding /\ cmd'[d].aborted
  BY <1>1, StoppedStays
<1>2. QED
  BY <1>1 DEF WorkKept, Executing, Same

LEMMA OutsideKeepsWork ==
    ASSUME ShapeInv, Outside
    PROVE  WorkKept
<1>1. CASE Surroundings
  <2>1. UNCHANGED <<claimed, conn, backend, cache, cmd, window>>
    BY <1>1, SurroundingsLeave DEF Surroundings
  <2>2. QED
    BY <2>1, KeptUnless DEF Executing
<1>2. ASSUME NEW c \in Cmds, Slots(c) PROVE WorkKept
  <2>1. /\ UNCHANGED <<active, manager, session, conn, backend, cache, window>>
        /\ ~Executing(c) /\ ~Executing(c)'
        /\ \A d \in Cmds : d # c => cmd'[d] = cmd[d]
    BY <1>2, SlotMoves DEF Slots
  <2>2. QED
    BY <2>1, KeptUnless DEF manager
<1>3. ASSUME NEW p \in Profiles, Connects(p) PROVE WorkKept
  <2>1. PICK k \in Conns, s \in Sessions, created \in BOOLEAN : ConnectsTo(p, k, s, created)
    BY <1>3, ConnectsMakes
  <2>2. ASSUME NEW d \in Cmds, cmd[d].pc = "connect",
               cmd'[d] = [cmd[d] EXCEPT !.pc = "got", !.conn = k]
        PROVE  ~Executing(d) /\ ~Executing(d)'
    <3>1. cmd[d] \in Cmd
      BY DEF ShapeInv, TypeOK
    <3>2. cmd'[d].pc = "got"
      BY <2>2, <3>1 DEF Cmd
    <3>3. QED
      BY <2>2, <3>2 DEF Executing, Submitted
  <2>3. QED
    BY <2>1, <2>2, KeptUnless DEF ConnectsTo
<1>4. ASSUME NEW p \in Profiles, ConnectFails(p) PROVE WorkKept
  <2>1. /\ UNCHANGED <<active, manager, session, conn, backend, cache, window>>
        /\ \A d \in Cmds : \/ cmd'[d] = cmd[d]
                           \/ cmd[d].pc = "connect" /\ cmd'[d] = IdleCmd
    BY <1>4, FailsMoves
  <2>2. \A d \in Cmds : \/ cmd'[d] = cmd[d]
                        \/ ~Executing(d) /\ ~Executing(d)'
    BY <2>1 DEF Executing, Submitted, IdleCmd
  <2>3. QED
    BY <2>1, <2>2, KeptUnless DEF manager
<1>5. CASE Cancels
  BY <1>5, KeptUnless DEF Cancels, manager
<1>6. QED
  BY <1>1, <1>2, <1>3, <1>4, <1>5 DEF Outside

(* Where a step of backendFor() takes its command.                         *)
LEMMA BackendForGoes ==
    ASSUME ShapeInv, NEW c \in Cmds,
           \/ \E b \in Backends : Taken(c, b)
           \/ \E old \in Backends \cup {None}, new \in Backends : Builds(c, old, new)
           \/ \E old \in Backends : Closes(c, old)
           \/ Stores(c)
    PROVE  /\ cmd[c].pc \in {"got", "closing", "built"}
           /\ cmd'[c].pc \in {"closing", "built", "ready"}
           /\ Same(c) /\ cmd'[c].aborted = cmd[c].aborted
           /\ cmd' \in [Cmds -> Cmd]
           /\ \A d \in Cmds : d # c => cmd'[d] = cmd[d] \/ Stopped(d)
           /\ UNCHANGED <<active, manager, session, conn, window>>
<1>1. CASE \E b \in Backends : Taken(c, b)
  <2>1. PICK b \in Backends : Taken(c, b)
    BY <1>1
  <2>2. cmd[c].pc = "got" /\ cmd[c] \in Cmd
    BY <2>1, GotHas DEF Taken
  <2>3. QED
    BY <2>1, <2>2 DEF Taken, Cmd, Same
<1>2. CASE \E old \in Backends \cup {None}, new \in Backends : Builds(c, old, new)
  <2>1. PICK old \in Backends \cup {None}, new \in Backends : Builds(c, old, new)
    BY <1>2
  <2>2. cmd[c].pc \in {"got", "closing"} /\ cmd[c] \in Cmd
    BY <2>1, GotHas DEF Builds
  <2>3. QED
    BY <2>1, <2>2 DEF Builds, Cmd, Same
<1>3. CASE \E old \in Backends : Closes(c, old)
  <2>1. PICK old \in Backends : Closes(c, old)
    BY <1>3
  <2>2. cmd[c].pc = "got" /\ cmd[c] \in Cmd
    BY <2>1, GotHas DEF Closes
  <2>3. QED
    BY <2>1, <2>2 DEF Closes, Cmd, Same
<1>4. CASE Stores(c)
  <2>1. cmd[c].pc = "built" /\ cmd[c] \in Cmd
    BY <1>4, GotHas DEF Stores
  <2>2. QED
    BY <1>4, <2>1 DEF Stores, Cmd, Same
<1>5. QED
  BY <1>1, <1>2, <1>3, <1>4

LEMMA BackendForIs ==
    ASSUME BackendFor
    PROVE  \E c \in Cmds :
           \/ \E b \in Backends : Taken(c, b)
           \/ \E old \in Backends \cup {None}, new \in Backends : Builds(c, old, new)
           \/ \E old \in Backends : Closes(c, old)
           \/ Stores(c)
BY DEF BackendFor

LEMMA BackendForKeepsWork ==
    ASSUME ShapeInv, BackendFor
    PROVE  WorkKept
<1>1. PICK c \in Cmds :
           \/ \E b \in Backends : Taken(c, b)
           \/ \E old \in Backends \cup {None}, new \in Backends : Builds(c, old, new)
           \/ \E old \in Backends : Closes(c, old)
           \/ Stores(c)
  BY BackendForIs
<1>2. /\ cmd[c].pc \in {"got", "closing", "built"}
      /\ cmd'[c].pc \in {"closing", "built", "ready"}
      /\ \A d \in Cmds : d # c => cmd'[d] = cmd[d] \/ Stopped(d)
      /\ UNCHANGED <<active, manager, session, conn, window>>
  BY <1>1, BackendForGoes
<1>3. ~Executing(c) /\ ~Executing(c)'
  BY <1>2 DEF Executing, Submitted
<1>4. QED
  BY <1>2, <1>3, KeptUnless DEF manager

LEMMA GoesOnKeepsWork ==
    ASSUME ShapeInv, NEW c \in Cmds, NEW pc \in Submitted, GoesOn(c, pc)
    PROVE  /\ WorkKept /\ cmd'[c].pc = pc /\ cmd'[c].aborted = cmd[c].aborted
<1>1. Executing(c) /\ cmd[c] \in Cmd
  BY ExecutingHas DEF GoesOn
<1>2. /\ cmd'[c].pc = pc /\ Same(c) /\ cmd'[c].backend = cmd[c].backend
      /\ cmd'[c].aborted = cmd[c].aborted /\ cmd'[c].seeding = cmd[c].seeding
  BY <1>1 DEF GoesOn, Cmd, Same
<1>3. Executing(c)'
  BY <1>2 DEF Executing
<1>4. \A d \in Cmds : d # c => cmd'[d] = cmd[d]
  BY DEF GoesOn
<1>5. UNCHANGED <<claimed, window>>
  BY DEF GoesOn, manager
<1>6. QED
  BY <1>1, <1>2, <1>3, <1>4, <1>5 DEF WorkKept, Executing, Same

LEMMA StepWork ==
    ASSUME ShapeInv, [Next]_vars
    PROVE  \/ WorkKept
           \/ \E c \in Cmds, pc \in Submitted, seeding \in BOOLEAN : Starts(c, pc, seeding)
           \/ \E c \in Cmds, outcome \in Outcomes : Settles(c, outcome)
<1>1. CASE Outside
  BY <1>1, OutsideKeepsWork
<1>2. CASE BackendFor
  BY <1>2, BackendForKeepsWork
<1>3. CASE Submits
  <2>1. CASE \E c \in Cmds, pc \in Submitted : Advances(c) /\ GoesOn(c, pc)
    BY <2>1, GoesOnKeepsWork
  <2>2. QED
    BY <1>3, <2>1 DEF Submits
<1>4. QED
  BY <1>1, <1>2, <1>3, StepKinds

(* The claims are those of the profiles that have something under way, and *)
(* each has one.                                                           *)
ClaimFits ==
    /\ \A c \in Cmds : Executing(c) => cmd[c].profile \in claimed
    /\ \A p \in claimed : \E c \in Cmds : Executing(c) /\ cmd[c].profile = p
    /\ \A c, d \in Cmds : Executing(c) /\ Executing(d) /\ cmd[c].profile = cmd[d].profile
                             => c = d

LEMMA ClaimFitsMeans ==
    ASSUME ShapeInv, ClaimFits
    PROVE  ClaimMatchesWork
<1>1. \A c \in Cmds : Executing(c) => ProfileOf(cmd[c].backend) = cmd[c].profile
  BY ExecutingHas
<1>2. QED
  BY <1>1 DEF ClaimMatchesWork, Works, ClaimFits

LEMMA StartsWork ==
    ASSUME ShapeInv, NEW c \in Cmds, NEW pc \in Submitted, NEW seeding \in BOOLEAN,
           Starts(c, pc, seeding)
    PROVE  /\ ~Executing(c) /\ Executing(c)' /\ Same(c) /\ cmd'[c].pc = pc
           /\ cmd'[c].backend = cmd[c].backend /\ (cmd'[c].seeding <=> seeding)
           /\ cmd[c].profile \notin claimed /\ cmd[c].profile \in Profiles
           /\ claimed' = claimed \cup {cmd[c].profile}
           /\ \A d \in Cmds : d # c => cmd'[d] = cmd[d]
<1>1. cmd[c].pc = "ready" /\ cmd[c] \in Cmd /\ cmd[c].profile \in Profiles
  BY GotHas DEF Starts
<1>2. QED
  BY <1>1 DEF Starts, Cmd, Same, Executing, Submitted

LEMMA SettlesWork ==
    ASSUME ShapeInv, NEW c \in Cmds, NEW outcome \in Outcomes, Settles(c, outcome)
    PROVE  /\ Executing(c) /\ ~Executing(c)' /\ cmd'[c].pc = "told"
           /\ claimed' = claimed \ {cmd[c].profile}
           /\ \A d \in Cmds : d # c => cmd'[d] = cmd[d]
BY ToldIs DEF Settles, Executing, Submitted

LEMMA ClaimStep ==
    ASSUME ShapeInv, ClaimFits, [Next]_vars
    PROVE  ClaimFits'
<1>1. CASE WorkKept
  BY <1>1 DEF WorkKept, ClaimFits, Same
<1>2. ASSUME NEW c \in Cmds, NEW pc \in Submitted, NEW seeding \in BOOLEAN,
             Starts(c, pc, seeding)
      PROVE  ClaimFits'
  <2>1. /\ ~Executing(c) /\ Executing(c)' /\ cmd'[c].profile = cmd[c].profile
        /\ cmd[c].profile \notin claimed
        /\ claimed' = claimed \cup {cmd[c].profile}
        /\ \A d \in Cmds : d # c => cmd'[d] = cmd[d]
    BY <1>2, StartsWork DEF Same
  <2>2. QED
    BY <2>1 DEF ClaimFits, Executing
<1>3. ASSUME NEW c \in Cmds, NEW outcome \in Outcomes, Settles(c, outcome)
      PROVE  ClaimFits'
  <2>1. /\ Executing(c) /\ ~Executing(c)'
        /\ claimed' = claimed \ {cmd[c].profile}
        /\ \A d \in Cmds : d # c => cmd'[d] = cmd[d]
    BY <1>3, SettlesWork
  <2>2. QED
    BY <2>1 DEF ClaimFits, Executing
<1>4. QED
  BY <1>1, <1>2, <1>3, StepWork

(* Across the backends that reconnects leave behind a profile has at most  *)
(* one submission under way, and holds its claim exactly while it has one. *)
THEOREM ClaimsHold == Spec => []ClaimMatchesWork
<1>1. Init => ClaimFits
  BY InitIdle DEF Init, ClaimFits
<1>2. ShapeInv /\ ClaimFits /\ [Next]_vars => ClaimFits'
  BY ClaimStep
<1>3. ShapeInv /\ ClaimFits => ClaimMatchesWork
  BY ClaimFitsMeans
<1>4. QED
  BY <1>1, <1>2, <1>3, ShapeHolds, PTL DEF Spec

-----------------------------------------------------------------------------
(* A run that was told to stop is told "cancelled", whatever its requests  *)
(* answered.  It can be told otherwise only before it started, when nobody *)
(* can cancel it.                                                          *)
LEMMA ToldStays ==
    ASSUME ShapeInv, [Next]_vars, NEW d \in Cmds, cmd'[d].pc = "told"
    PROVE  \/ cmd'[d] = cmd[d]
           \/ ~cmd'[d].aborted
           \/ \E outcome \in Outcomes : Settles(d, outcome)
<1>0. \A c \in Cmds : Stopped(c) => cmd'[c].pc # "told"
  BY StoppedStays DEF Executing, Submitted
<1>1. CASE Outside
  <2>1. CASE Surroundings
    BY <2>1, SurroundingsLeave DEF Surroundings
  <2>2. ASSUME NEW c \in Cmds, Slots(c) PROVE cmd'[d] = cmd[d] \/ ~cmd'[d].aborted
    <3>1. /\ \A e \in Cmds : e # c => cmd'[e] = cmd[e]
          /\ \/ cmd'[c].pc # "told"
             \/ cmd[c].pc = "ready" /\ cmd'[c].aborted = cmd[c].aborted
      BY <2>2, SlotMoves DEF Slots, IdleCmd
    <3>2. cmd[c].pc = "ready" => ~cmd[c].aborted
      BY DEF ShapeInv, AllPlaced, Placed, Submitted
    <3>3. QED
      BY <3>1, <3>2
  <2>3. ASSUME NEW p \in Profiles, Connects(p) PROVE cmd'[d] = cmd[d]
    <3>1. PICK k \in Conns, s \in Sessions, created \in BOOLEAN : ConnectsTo(p, k, s, created)
      BY <2>3, ConnectsMakes
    <3>2. cmd[d] \in Cmd
      BY DEF ShapeInv, TypeOK
    <3>3. QED
      BY <3>1, <3>2 DEF ConnectsTo, Cmd
  <2>4. ASSUME NEW p \in Profiles, ConnectFails(p) PROVE cmd'[d] = cmd[d]
    BY <2>4, FailsMoves DEF IdleCmd
  <2>5. CASE Cancels
    BY <1>0, <2>5 DEF Cancels
  <2>6. QED
    BY <1>1, <2>1, <2>2, <2>3, <2>4, <2>5 DEF Outside
<1>2. CASE BackendFor
  <2>1. PICK c \in Cmds :
           \/ \E b \in Backends : Taken(c, b)
           \/ \E old \in Backends \cup {None}, new \in Backends : Builds(c, old, new)
           \/ \E old \in Backends : Closes(c, old)
           \/ Stores(c)
    BY <1>2, BackendForIs
  <2>2. /\ cmd'[c].pc # "told"
        /\ \A e \in Cmds : e # c => cmd'[e] = cmd[e] \/ Stopped(e)
    BY <2>1, BackendForGoes
  <2>3. QED
    BY <1>0, <2>2
<1>3. CASE Submits
  <2>1. ASSUME NEW c \in Cmds, NEW pc \in Submitted, NEW seeding \in BOOLEAN,
               Starts(c, pc, seeding)
        PROVE  cmd'[d] = cmd[d]
    BY <2>1, StartsWork DEF Submitted
  <2>2. ASSUME NEW c \in Cmds, NEW pc \in Submitted, GoesOn(c, pc) PROVE cmd'[d] = cmd[d]
    <3>1. cmd'[c].pc = pc
      BY <2>2, GoesOnKeepsWork
    <3>2. \A e \in Cmds : e # c => cmd'[e] = cmd[e]
      BY <2>2 DEF GoesOn
    <3>3. QED
      BY <3>1, <3>2 DEF Submitted
  <2>3. ASSUME NEW c \in Cmds, NEW outcome \in Outcomes, Settles(c, outcome)
        PROVE  cmd'[d] = cmd[d] \/ Settles(d, outcome)
    BY <2>3, SettlesWork
  <2>4. QED
    BY <1>3, <2>1, <2>2, <2>3 DEF Submits
<1>4. QED
  BY <1>1, <1>2, <1>3, StepKinds

(* A run that somebody cancelled, from either place or by a reconnect,     *)
(* settles as cancelled, whichever of its requests the cancel met.         *)
THEOREM CancelledStaysCancelled == Spec => []CancelledIsCancelled
<1>1. Init => CancelledIsCancelled
  BY InitIdle DEF CancelledIsCancelled
<1>2. ASSUME ShapeInv, CancelledIsCancelled, [Next]_vars PROVE CancelledIsCancelled'
  <2>1. ASSUME NEW d \in Cmds, cmd'[d].pc = "told",
               cmd'[d].kind \in {"file", "selection"}, cmd'[d].aborted
        PROVE  cmd'[d].outcome = "cancelled"
    <3>1. CASE cmd'[d] = cmd[d]
      BY <1>2, <2>1, <3>1 DEF CancelledIsCancelled, IsRun
    <3>2. ASSUME NEW outcome \in Outcomes, Settles(d, outcome)
          PROVE  cmd'[d].outcome = "cancelled"
      <4>1. /\ cmd'[d].kind = cmd[d].kind /\ cmd'[d].aborted = cmd[d].aborted
            /\ cmd'[d].outcome = outcome
        BY <3>2, ToldIs DEF Settles
      <4>2. QED
        BY <2>1, <3>2, <4>1 DEF Settles, IsRun
    <3>3. QED
      BY <1>2, <2>1, <3>1, <3>2, ToldStays
  <2>2. QED
    BY <2>1 DEF CancelledIsCancelled, IsRun
<1>3. QED
  BY <1>1, <1>2, ShapeHolds, PTL DEF Spec

-----------------------------------------------------------------------------
(* A backend is handed over connected.  Between two events the commands    *)
(* that are in their continuations all hold one connection: what one of    *)
(* them closes is of another, and not what its neighbour is about to use.  *)
SameConn ==
    \A c, d \in Cmds : cmd[c].pc \in Microtasks /\ cmd[d].pc \in Microtasks
                          => cmd[c].conn = cmd[d].conn

LEMMA StoppedIsNoMicrotask ==
    ASSUME ShapeInv, NEW d \in Cmds, Stopped(d)
    PROVE  cmd[d].pc \notin Microtasks /\ cmd'[d].pc \notin Microtasks
BY StoppedStays DEF Executing, Submitted, Microtasks

(* Which commands can be in a continuation after a step.                   *)
LEMMA MicrotasksMove ==
    ASSUME ShapeInv, [Next]_vars
    PROVE  \/ /\ UNCHANGED backend
              /\ \A d \in Cmds : cmd'[d].pc \in Microtasks => cmd'[d] = cmd[d]
           \/ \A d \in Cmds : cmd'[d].pc \notin Microtasks
           \/ \E k : \A d \in Cmds : cmd'[d].pc \in Microtasks =>
                        cmd'[d].conn = k /\ cmd'[d].pc = "got"
           \/ BackendFor
<1>1. CASE Outside
  <2>1. CASE Surroundings
    BY <2>1, SurroundingsLeave DEF Surroundings
  <2>2. ASSUME NEW c \in Cmds, Slots(c)
        PROVE  \/ /\ UNCHANGED backend
                  /\ \A d \in Cmds : cmd'[d].pc \in Microtasks => cmd'[d] = cmd[d]
               \/ \A d \in Cmds : cmd'[d].pc \in Microtasks =>
                     cmd'[d].conn = cmd'[c].conn /\ cmd'[d].pc = "got"
    <3>1. /\ UNCHANGED backend
          /\ \A d \in Cmds : d # c => cmd'[d] = cmd[d]
          /\ \/ Quiet /\ cmd'[c].pc \in {"connect", "got"}
             \/ cmd'[c].pc \in {"idle", "told"}
      BY <2>2, SlotMoves DEF Slots, IdleCmd
    <3>2. QED
      BY <3>1 DEF Quiet, Microtasks
  <2>3. ASSUME NEW p \in Profiles, Connects(p)
        PROVE  \E k : \A d \in Cmds : cmd'[d].pc \in Microtasks =>
                        cmd'[d].conn = k /\ cmd'[d].pc = "got"
    <3>1. PICK k \in Conns, s \in Sessions, created \in BOOLEAN : ConnectsTo(p, k, s, created)
      BY <2>3, ConnectsMakes
    <3>2. Quiet
      BY <2>3 DEF Connects
    <3>3. ASSUME NEW d \in Cmds, cmd'[d].pc \in Microtasks
          PROVE  cmd'[d].conn = k /\ cmd'[d].pc = "got"
      <4>1. cmd'[d] = [cmd[d] EXCEPT !.pc = "got", !.conn = k]
        BY <3>1, <3>2, <3>3 DEF ConnectsTo, Quiet
      <4>2. cmd[d] \in Cmd
        BY DEF ShapeInv, TypeOK
      <4>3. QED
        BY <4>1, <4>2 DEF Cmd
    <3>4. QED
      BY <3>3
  <2>4. ASSUME NEW p \in Profiles, ConnectFails(p)
        PROVE  /\ UNCHANGED backend
               /\ \A d \in Cmds : cmd'[d].pc \in Microtasks => cmd'[d] = cmd[d]
    BY <2>4, FailsMoves DEF IdleCmd, Microtasks
  <2>5. CASE Cancels
    BY <2>5, StoppedIsNoMicrotask DEF Cancels, Quiet
  <2>6. QED
    BY <1>1, <2>1, <2>2, <2>3, <2>4, <2>5 DEF Outside
<1>2. CASE Submits
  <2>1. ASSUME NEW c \in Cmds, NEW pc \in Submitted, NEW seeding \in BOOLEAN,
               Starts(c, pc, seeding)
        PROVE  /\ UNCHANGED backend
               /\ \A d \in Cmds : cmd'[d].pc \in Microtasks => cmd'[d] = cmd[d]
    <3>1. /\ cmd'[c].pc = pc
          /\ \A d \in Cmds : d # c => cmd'[d] = cmd[d]
      BY <2>1, StartsWork
    <3>2. UNCHANGED backend
      BY <2>1 DEF Starts
    <3>3. QED
      BY <3>1, <3>2 DEF Microtasks, Submitted
  <2>2. ASSUME NEW c \in Cmds, NEW pc \in Submitted, GoesOn(c, pc)
        PROVE  \A d \in Cmds : cmd'[d].pc \notin Microtasks
    <3>1. cmd'[c].pc = pc
      BY <2>2, GoesOnKeepsWork
    <3>2. Quiet /\ \A e \in Cmds : e # c => cmd'[e] = cmd[e]
      BY <2>2 DEF GoesOn
    <3>3. QED
      BY <3>1, <3>2 DEF Submitted, Microtasks, Quiet
  <2>3. ASSUME NEW c \in Cmds, NEW outcome \in Outcomes, Settles(c, outcome)
        PROVE  \A d \in Cmds : cmd'[d].pc \notin Microtasks
    BY <2>3, SettlesWork DEF Settles, Quiet, Microtasks
  <2>4. QED
    BY <1>2, <2>1, <2>2, <2>3 DEF Submits
<1>3. QED
  BY <1>1, <1>2, StepKinds

LEMMA BackendForSameConn ==
    ASSUME ShapeInv, SameConn, BackendFor
    PROVE  SameConn'
<1>1. PICK c \in Cmds :
         \/ \E b \in Backends : Taken(c, b)
         \/ \E old \in Backends \cup {None}, new \in Backends : Builds(c, old, new)
         \/ \E old \in Backends : Closes(c, old)
         \/ Stores(c)
  BY BackendForIs
<1>2. /\ cmd'[c].conn = cmd[c].conn
      /\ \A d \in Cmds : d # c => cmd'[d] = cmd[d] \/ Stopped(d)
  BY <1>1, BackendForGoes DEF Same
<1>3. cmd[c].pc \in Microtasks \/ Quiet
  BY <1>1 DEF Taken, Builds, Closes, Stores, Microtasks
<1>4. \A d \in Cmds : d # c /\ cmd'[d].pc \in Microtasks => cmd'[d] = cmd[d]
  BY <1>2, StoppedIsNoMicrotask
<1>5. QED
  BY <1>2, <1>3, <1>4 DEF SameConn, Quiet

LEMMA BackendForReady ==
    ASSUME ShapeInv, SameConn, ReadyIsConnected, BackendFor
    PROVE  ReadyIsConnected'
<1>1. PICK c \in Cmds :
         \/ \E b \in Backends : Taken(c, b)
         \/ \E old \in Backends \cup {None}, new \in Backends : Builds(c, old, new)
         \/ \E old \in Backends : Closes(c, old)
         \/ Stores(c)
  BY BackendForIs
<1>2. /\ \A d \in Cmds : d # c => cmd'[d] = cmd[d] \/ Stopped(d)
      /\ cmd[c].pc \in {"got", "closing", "built"}
  BY <1>1, BackendForGoes
<1>3. \A d \in Cmds : d # c /\ cmd'[d].pc = "ready" => cmd'[d] = cmd[d]
  BY <1>2, StoppedIsNoMicrotask DEF Microtasks
<1>4. \A d \in Cmds : cmd[d].pc = "ready" =>
         /\ cmd[d].backend \in Backends /\ backend[cmd[d].backend] # None
         /\ backend[cmd[d].backend].conn = cmd[d].conn
         /\ backend[cmd[d].backend].connected
  BY HeldHas DEF ReadyIsConnected
<1>5. ASSUME NEW b \in Backends, Taken(c, b) PROVE ReadyIsConnected'
  <2>1. backend[b] \in Backend /\ cmd[c] \in Cmd /\ backend[b] # None
    BY <1>5 DEF Taken, ShapeInv, TypeOK
  <2>2. backend' = [backend EXCEPT ![b].connected = TRUE]
    BY <1>5 DEF Taken
  <2>3. Marks(b) /\ backend'[b].connected
    BY <2>1, <2>2, MarksConnected
  <2>4. cmd'[c].backend = b
    BY <1>5, <2>1 DEF Taken, Cmd
  <2>5. QED
    BY <1>3, <1>4, <2>3, <2>4 DEF ReadyIsConnected, Marks
<1>6. ASSUME Stores(c) PROVE ReadyIsConnected'
  <2>1. Marks(cmd[c].backend) /\ backend'[cmd[c].backend].connected /\ cmd[c] \in Cmd
    BY <1>6 DEF Stores, ShapeInv, TypeOK
  <2>2. cmd'[c].backend = cmd[c].backend
    BY <1>6, <2>1 DEF Stores, Cmd
  <2>3. QED
    BY <1>3, <1>4, <2>1, <2>2 DEF ReadyIsConnected, Marks
<1>7. ASSUME NEW old \in Backends, Closes(c, old) PROVE ReadyIsConnected'
  <2>1. UNCHANGED backend /\ cmd[c] \in Cmd
    BY <1>7 DEF Closes, ShapeInv, TypeOK
  <2>2. cmd'[c].pc = "closing"
    BY <1>7, <2>1 DEF Closes, Cmd
  <2>3. QED
    BY <1>3, <1>4, <2>1, <2>2 DEF ReadyIsConnected
<1>8. ASSUME NEW old \in Backends \cup {None}, NEW new \in Backends, Builds(c, old, new)
      PROVE  ReadyIsConnected'
  <2>1. cmd[c] \in Cmd
    BY DEF ShapeInv, TypeOK
  <2>2. cmd'[c].pc = "built"
    BY <1>8, <2>1 DEF Builds, Cmd
  <2>3. ASSUME NEW d \in Cmds, cmd'[d].pc = "ready"
        PROVE  backend'[cmd'[d].backend].connected
    <3>1. d # c /\ cmd'[d] = cmd[d] /\ cmd[d].pc = "ready"
      BY <1>3, <2>2, <2>3
    <3>2. cmd[d].backend # new /\ ~Quiet
      BY <1>4, <1>8, <3>1 DEF Builds, Quiet, Microtasks
    <3>3. /\ cmd[c].pc = "got" /\ (old # None => backend[old].conn # cmd[c].conn)
      BY <1>8, <3>2 DEF Builds
    <3>4. cmd[c].conn = cmd[d].conn
      BY <3>1, <3>3 DEF SameConn, Microtasks
    <3>5. cmd[d].backend # old
      BY <1>4, <3>1, <3>3, <3>4, RunWindowAssumption
    <3>6. backend'[cmd[d].backend] = backend[cmd[d].backend]
      BY <1>4, <1>8, <3>1, <3>2, <3>5 DEF Builds
    <3>7. QED
      BY <1>4, <3>1, <3>6
  <2>4. QED
    BY <2>3 DEF ReadyIsConnected
<1>9. QED
  BY <1>1, <1>5, <1>6, <1>7, <1>8

(* A backend is connected when a command is about to use it, also one that *)
(* a Cancel or a reconnect closed before.                                  *)
THEOREM HandedOverConnected == Spec => []ReadyIsConnected
<1> DEFINE Inv == SameConn /\ ReadyIsConnected
<1>1. Init => Inv
  BY InitIdle DEF SameConn, ReadyIsConnected, Microtasks
<1>2. ASSUME ShapeInv, Inv, [Next]_vars PROVE Inv'
  <2>1. CASE BackendFor
    BY <1>2, <2>1, BackendForSameConn, BackendForReady
  <2>2. CASE ~BackendFor
    <3>1. \/ /\ UNCHANGED backend
             /\ \A d \in Cmds : cmd'[d].pc \in Microtasks => cmd'[d] = cmd[d]
          \/ \E k : \A d \in Cmds : cmd'[d].pc \in Microtasks =>
                        cmd'[d].conn = k /\ cmd'[d].pc = "got"
      BY <1>2, <2>2, MicrotasksMove
    <3>2. QED
      BY <1>2, <3>1 DEF SameConn, ReadyIsConnected, Microtasks
  <2>3. QED
    BY <2>1, <2>2
<1>3. QED
  BY <1>1, <1>2, ShapeHolds, PTL DEF Spec

-----------------------------------------------------------------------------
(* What the window shows.  As long as the active profile does not change   *)
(* under a command, all commands are of the active profile, and the claim  *)
(* keeps them to one submission: the one the closure's variables name.     *)
Under(c) == cmd[c].pc \notin {"idle", "told"}
AtActive == \A c \in Cmds : Under(c) => cmd[c].profile = active

KeyFits ==
    /\ \A c \in Cmds : Executing(c) /\ IsRun(c) => currentRun = c
    /\ \A c \in Cmds : Executing(c) /\ cmd[c].kind = "reset" => currentReset = c
    /\ running <=> \E c \in Cmds : Executing(c) /\ cmd[c].kind # "probe"

LEMMA KeyFitsMeans ==
    ASSUME ShapeInv, KeyFits
    PROVE  RunningKeyHolds
<1>1. \A c \in Cmds : Executing(c) => cmd[c].kind \in Kinds
  BY ExecutingHas
<1>2. QED
  BY <1>1 DEF KeyFits, RunningKeyHolds, IsRun, Kinds

LEMMA ActiveMoves ==
    ASSUME ShapeInv, [Next]_vars
    PROVE  UNCHANGED active \/ \E p \in Profiles : SwitchesProfile(p)
<1>1. CASE Outside
  <2>1. CASE Surroundings
    BY <2>1 DEF Surroundings, SignedOut, Disconnects, SessionReaped, vars
  <2>2. CASE \E c \in Cmds : Slots(c)
    BY <2>2, SlotMoves DEF Slots
  <2>3. CASE \E p \in Profiles : Connects(p)
    BY <2>3 DEF Connects
  <2>4. CASE \E p \in Profiles : ConnectFails(p)
    BY <2>4 DEF ConnectFails
  <2>5. CASE Cancels
    BY <2>5 DEF Cancels
  <2>6. QED
    BY <1>1, <2>1, <2>2, <2>3, <2>4, <2>5 DEF Outside
<1>2. CASE BackendFor
  BY <1>2 DEF BackendFor, Taken, Builds, Closes, Stores
<1>3. CASE Submits
  BY <1>3 DEF Submits, Starts, GoesOn, Settles
<1>4. QED
  BY <1>1, <1>2, <1>3, StepKinds

LEMMA UnderMoves ==
    ASSUME ShapeInv, [Next]_vars, NEW d \in Cmds, Under(d)'
    PROVE  \/ Under(d) /\ cmd'[d].profile = cmd[d].profile
           \/ cmd'[d].profile = active /\ UNCHANGED active
<1>0. \A c \in Cmds : cmd'[c] = cmd[c] \/ Stopped(c) =>
         /\ cmd'[c].pc = cmd[c].pc
         /\ cmd'[c].profile = cmd[c].profile
  BY StoppedStays DEF Same
<1>1. CASE Outside
  <2>1. CASE Surroundings
    BY <2>1, SurroundingsLeave DEF Surroundings, Under
  <2>2. ASSUME NEW c \in Cmds, Slots(c)
        PROVE  \/ Under(d) /\ cmd'[d].profile = cmd[d].profile
               \/ cmd'[d].profile = active /\ UNCHANGED active
    BY <2>2, SlotMoves DEF Slots, Under, IdleCmd
  <2>3. ASSUME NEW p \in Profiles, Connects(p)
        PROVE  Under(d) /\ cmd'[d].profile = cmd[d].profile
    <3>1. PICK k \in Conns, s \in Sessions, created \in BOOLEAN : ConnectsTo(p, k, s, created)
      BY <2>3, ConnectsMakes
    <3>2. cmd[d] \in Cmd
      BY DEF ShapeInv, TypeOK
    <3>3. CASE cmd'[d] = cmd[d]
      BY <3>3 DEF Under
    <3>4. CASE cmd[d].pc = "connect" /\ cmd'[d] = [cmd[d] EXCEPT !.pc = "got", !.conn = k]
      BY <3>2, <3>4 DEF Under, Cmd
    <3>5. QED
      BY <3>1, <3>3, <3>4 DEF ConnectsTo
  <2>4. ASSUME NEW p \in Profiles, ConnectFails(p)
        PROVE  Under(d) /\ cmd'[d].profile = cmd[d].profile
    BY <2>4, FailsMoves DEF Under, IdleCmd
  <2>5. CASE Cancels
    BY <1>0, <2>5 DEF Cancels, Under
  <2>6. QED
    BY <1>1, <2>1, <2>2, <2>3, <2>4, <2>5 DEF Outside
<1>2. CASE BackendFor
  <2>1. PICK c \in Cmds :
           \/ \E b \in Backends : Taken(c, b)
           \/ \E old \in Backends \cup {None}, new \in Backends : Builds(c, old, new)
           \/ \E old \in Backends : Closes(c, old)
           \/ Stores(c)
    BY <1>2, BackendForIs
  <2>2. /\ cmd[c].pc \in {"got", "closing", "built"} /\ cmd'[c].profile = cmd[c].profile
        /\ \A e \in Cmds : e # c => cmd'[e] = cmd[e] \/ Stopped(e)
    BY <2>1, BackendForGoes DEF Same
  <2>3. QED
    BY <1>0, <2>2 DEF Under
<1>3. CASE Submits
  <2>1. ASSUME NEW c \in Cmds, NEW pc \in Submitted, NEW seeding \in BOOLEAN,
               Starts(c, pc, seeding)
        PROVE  Under(d) /\ cmd'[d].profile = cmd[d].profile
    <3>1. cmd[c].pc = "ready"
      BY <2>1 DEF Starts
    <3>2. QED
      BY <2>1, <3>1, StartsWork DEF Under, Same
  <2>2. ASSUME NEW c \in Cmds, NEW pc \in Submitted, GoesOn(c, pc)
        PROVE  Under(d) /\ cmd'[d].profile = cmd[d].profile
    <3>1. Executing(c) /\ cmd'[c].profile = cmd[c].profile
      BY <2>2, GoesOnKeepsWork DEF WorkKept, GoesOn, Same
    <3>2. \A e \in Cmds : e # c => cmd'[e] = cmd[e]
      BY <2>2 DEF GoesOn
    <3>3. QED
      BY <3>1, <3>2 DEF Under, Executing, Submitted
  <2>3. ASSUME NEW c \in Cmds, NEW outcome \in Outcomes, Settles(c, outcome)
        PROVE  Under(d) /\ cmd'[d].profile = cmd[d].profile
    BY <2>3, SettlesWork DEF Under
  <2>4. QED
    BY <1>3, <2>1, <2>2, <2>3 DEF Submits
<1>4. QED
  BY <1>1, <1>2, <1>3, StepKinds

LEMMA ActiveStep ==
    ASSUME "switch" \notin Mishaps \/ \A p, q \in Profiles : p = q,
           ShapeInv, AtActive, [Next]_vars
    PROVE  AtActive'
<1>1. CASE UNCHANGED active
  BY <1>1, UnderMoves DEF AtActive
<1>2. ASSUME NEW p \in Profiles, SwitchesProfile(p) PROVE AtActive'
  BY <1>2 DEF SwitchesProfile, AtActive, Under, ShapeInv, TypeOK
<1>3. QED
  BY <1>1, <1>2, ActiveMoves

LEMMA KeyStep ==
    ASSUME ShapeInv, ClaimFits, AtActive, KeyFits, [Next]_vars
    PROVE  KeyFits'
<1>1. \A c, d \in Cmds : Executing(c) /\ Executing(d) => c = d
  <2>1. \A c \in Cmds : Executing(c) => cmd[c].profile = active
    BY DEF AtActive, Under, Executing, Submitted
  <2>2. QED
    BY <2>1 DEF ClaimFits
<1>2. CASE WorkKept
  BY <1>2 DEF WorkKept, KeyFits, Same, IsRun, window
<1>3. ASSUME NEW c \in Cmds, NEW pc \in Submitted, NEW seeding \in BOOLEAN,
             Starts(c, pc, seeding)
      PROVE  KeyFits'
  <2>1. /\ Executing(c)' /\ cmd'[c].kind = cmd[c].kind /\ cmd[c].kind \in Kinds
        /\ cmd[c].profile = active /\ active \notin claimed
        /\ \A d \in Cmds : d # c => cmd'[d] = cmd[d]
    <3>1. cmd[c].pc = "ready"
      BY <1>3 DEF Starts
    <3>2. cmd[c].kind \in Kinds /\ cmd[c].profile = active
      BY <3>1, GotHas DEF AtActive, Under
    <3>3. QED
      BY <1>3, <3>2, StartsWork DEF Same
  <2>2. \A d \in Cmds : ~Executing(d)
    BY <2>1 DEF ClaimFits, AtActive, Under, Executing, Submitted
  <2>3. \A d \in Cmds : Executing(d)' <=> d = c
    BY <2>1, <2>2 DEF Executing
  <2>4. /\ IsRun(c) => currentRun' = c
        /\ cmd[c].kind = "reset" => currentReset' = c
        /\ running' <=> running \/ cmd[c].kind # "probe"
    BY <1>3 DEF Starts, Shows
  <2>5. running => FALSE
    BY <2>2 DEF KeyFits
  <2>6. QED
    BY <2>1, <2>3, <2>4, <2>5 DEF KeyFits, IsRun
<1>4. ASSUME NEW c \in Cmds, NEW outcome \in Outcomes, Settles(c, outcome)
      PROVE  KeyFits'
  <2>1. /\ Executing(c) /\ ~Executing(c)'
        /\ \A d \in Cmds : d # c => cmd'[d] = cmd[d]
    BY <1>4, SettlesWork
  <2>2. \A d \in Cmds : ~Executing(d)'
    BY <1>1, <2>1 DEF Executing
  <2>3. running' <=> running /\ cmd[c].kind = "probe"
    BY <1>4 DEF Settles, Hides
  <2>4. running => cmd[c].kind # "probe"
    BY <1>1, <2>1 DEF KeyFits
  <2>5. QED
    BY <2>2, <2>3, <2>4 DEF KeyFits
<1>5. QED
  BY <1>2, <1>3, <1>4, StepWork

(* The context key is set exactly while a run or a reset is under way, and *)
(* then Cancel finds it: with one profile, or as long as nobody changes    *)
(* the profile under a command.                                            *)
THEOREM CancelFindsIt ==
    ASSUME "switch" \notin Mishaps \/ \A p, q \in Profiles : p = q
    PROVE  Spec => []RunningKeyHolds
<1> DEFINE Inv == ClaimFits /\ AtActive /\ KeyFits
<1>1. Init => Inv
  BY InitIdle DEF Init, ClaimFits, AtActive, Under, KeyFits
<1>2. ShapeInv /\ Inv /\ [Next]_vars => Inv'
  BY ClaimStep, ActiveStep, KeyStep
<1>3. ShapeInv /\ Inv => RunningKeyHolds
  BY KeyFitsMeans
<1>4. QED
  BY <1>1, <1>2, <1>3, ShapeHolds, PTL DEF Spec

-----------------------------------------------------------------------------
(* One backend for a connection, and nothing left running on another.  A   *)
(* backend is the cached one, or being built, or of a connection that no   *)
(* one will ask a backend for again: it is not held any more, and nobody   *)
(* on the way to a backend has it.                                         *)
Alone == \A c, d \in Cmds : cmd[c].pc \in Connecting /\ cmd[d].pc \in Connecting => c = d

BuiltBy(b) == \E c \in Cmds : cmd[c].pc = "built" /\ cmd[c].backend = b
Passed(k) ==
    /\ live[conn[k].profile] # k
    /\ \A c \in Cmds : cmd[c].pc \in {"got", "closing"} => cmd[c].conn # k
Reached ==
    \A b \in Backends : backend[b] # None =>
        cache[ProfileOf(b)] = b \/ BuiltBy(b) \/ Passed(backend[b].conn)

BuildsUnused ==
    \A c \in Cmds : cmd[c].pc = "built" =>
        /\ cache[cmd[c].profile] # cmd[c].backend
        /\ \A d \in Cmds : Executing(d) /\ IsRun(d) /\ cmd[d].profile = cmd[c].profile
                              => cmd[d].aborted
HandsOutCached ==
    \A c \in Cmds : cmd[c].pc = "ready" => cache[cmd[c].profile] = cmd[c].backend
ClosesCached ==
    \A c \in Cmds : cmd[c].pc = "closing" =>
        /\ cache[cmd[c].profile] = cmd[c].backend
        /\ backend[cmd[c].backend].conn # cmd[c].conn
OldIsPast ==
    \A c \in Cmds :
        LET p == cmd[c].profile IN
        cmd[c].pc \in {"got", "closing", "built"} /\ cache[p] # None =>
            \/ backend[cache[p]].conn = cmd[c].conn
            \/ backend[cache[p]].conn # live[p]
RunsStopped ==
    \A c \in Cmds : Executing(c) /\ IsRun(c) =>
        cache[cmd[c].profile] = cmd[c].backend \/ cmd[c].aborted

BackendInv ==
    /\ OneBackendPerConnection /\ RunsStopped /\ Alone /\ Reached
    /\ BuildsUnused /\ HandsOutCached /\ ClosesCached /\ OldIsPast

(* How a command moves in a step that neither builds nor stores a backend. *)
Stays(d) ==
    /\ cmd'[d].pc = cmd[d].pc \/ (Executing(d) /\ Executing(d)')
    /\ Same(d) /\ cmd'[d].backend = cmd[d].backend
    /\ cmd[d].aborted => cmd'[d].aborted
Drops(d) == cmd[d].pc # "built" /\ cmd'[d].pc \notin Connecting \cup Submitted
ComesUp(d) ==
    /\ cmd[d].pc = "connect" /\ cmd'[d].pc = "got" /\ cmd'[d].profile = cmd[d].profile
    /\ cmd'[d].conn \in Conns /\ conn[cmd'[d].conn] = None
    /\ live'[cmd'[d].profile] = cmd'[d].conn
Begins(d) ==
    /\ cmd[d].pc = "ready" /\ Executing(d)' /\ Same(d) /\ cmd'[d].backend = cmd[d].backend
TakesCached(d) ==
    /\ cmd[d].pc = "got" /\ Same(d) /\ cmd'[d].backend = cache[cmd[d].profile]
    /\ \/ cmd'[d].pc = "ready"
       \/ cmd'[d].pc = "closing" /\ backend[cmd'[d].backend].conn # cmd[d].conn
IsInvoked(d) ==
    /\ cmd[d].pc = "idle" /\ UNCHANGED live
    /\ \/ cmd'[d].pc = "connect"
       \/ /\ cmd'[d].pc = "got" /\ cmd'[d].profile \in Profiles
          /\ cmd'[d].conn = live[cmd'[d].profile] /\ cmd'[d].conn # None
MovesOn(d) == Stays(d) \/ Drops(d) \/ ComesUp(d) \/ Begins(d) \/ TakesCached(d) \/ IsInvoked(d)

(* Such a step makes no backend and no connection comes back.              *)
BackendsKept ==
    /\ UNCHANGED cache
    /\ \A b \in Backends : backend[b] = None => backend'[b] = None
    /\ \A p \in Profiles : \/ live'[p] \in {live[p], None}
                           \/ live'[p] \in Conns /\ conn[live'[p]] = None
    /\ \A d \in Cmds : MovesOn(d)
    /\ \/ \A d \in Cmds : cmd'[d].pc \in Connecting => cmd[d].pc \in Connecting
       \/ \E c \in Cmds : \A d \in Cmds : d # c => cmd'[d].pc \notin Connecting

LEMMA MadeHas ==
    ASSUME ShapeInv, NEW b \in Backends, backend[b] # None
    PROVE  /\ backend[b].conn \in Conns /\ backend[b].conn # None
           /\ conn[backend[b].conn] # None /\ conn[backend[b].conn] \in Connection
           /\ ProfileOf(b) = conn[backend[b].conn].profile /\ ProfileOf(b) \in Profiles
<1>1. backend[b] \in Backend /\ conn[backend[b].conn] # None
  BY DEF ShapeInv, TypeOK, Made
<1>2. QED
  BY <1>1, RunWindowAssumption DEF ShapeInv, TypeOK, Backend, ProfileOf, Connection

LEMMA BackendsKeptStep ==
    ASSUME ShapeInv, ShapeInv', Grown, BackendInv, BackendsKept
    PROVE  BackendInv'
<1>1. \A b \in Backends : backend'[b] # None =>
         /\ backend[b] # None /\ backend'[b].conn = backend[b].conn
         /\ backend[b].conn \in Conns /\ backend[b].conn # None
         /\ conn[backend[b].conn] # None
         /\ conn'[backend[b].conn] = conn[backend[b].conn]
  BY MadeHas DEF BackendsKept, Grown
<1>2. \A p \in Profiles : cache[p] # None => cache[p] \in Backends /\ backend[cache[p]] # None
  BY DEF ShapeInv, TypeOK, Made
<1>3. OneBackendPerConnection'
  BY <1>1 DEF OneBackendPerConnection, BackendInv
<1>4. Alone'
  BY DEF Alone, BackendInv, BackendsKept
<1>5. ASSUME NEW c \in Cmds, Executing(c)', IsRun(c)'
      PROVE  cache'[cmd'[c].profile] = cmd'[c].backend \/ cmd'[c].aborted
  <2>1. Stays(c) \/ Begins(c)
    BY <1>5 DEF BackendsKept, MovesOn, Drops, ComesUp, TakesCached, IsInvoked,
       Executing, Submitted
  <2>2. CASE Stays(c)
    <3>1. Executing(c) /\ IsRun(c)
      BY <1>5, <2>2 DEF Stays, Executing, IsRun, Same
    <3>2. QED
      BY <2>2, <3>1 DEF Stays, Same, BackendInv, RunsStopped, BackendsKept
  <2>3. CASE Begins(c)
    BY <2>3 DEF Begins, Same, BackendInv, HandsOutCached, BackendsKept
  <2>4. QED
    BY <2>1, <2>2, <2>3
<1>6. ASSUME NEW b \in Backends, backend'[b] # None
      PROVE  (cache[ProfileOf(b)] = b \/ BuiltBy(b) \/ Passed(backend[b].conn))'
  <2> DEFINE k == backend[b].conn
  <2>1. /\ backend[b] # None /\ backend'[b].conn = k /\ k \in Conns /\ k # None
        /\ conn[k] # None /\ conn'[k] = conn[k] /\ UNCHANGED cache
        /\ conn[k].profile \in Profiles
    BY <1>1, <1>6, MadeHas DEF BackendsKept
  <2> HIDE DEF k
  <2>2. CASE cache[ProfileOf(b)] = b
    BY <2>1, <2>2 DEF ProfileOf, k
  <2>3. CASE BuiltBy(b)
    <3>1. PICK c \in Cmds : cmd[c].pc = "built" /\ cmd[c].backend = b
      BY <2>3 DEF BuiltBy
    <3>2. Stays(c)
      BY <3>1 DEF BackendsKept, MovesOn, Drops, ComesUp, Begins, TakesCached, IsInvoked
    <3>3. cmd'[c].pc = "built" /\ cmd'[c].backend = b
      BY <3>1, <3>2 DEF Stays, Executing, Submitted
    <3>4. QED
      BY <3>3 DEF BuiltBy
  <2>4. CASE Passed(k)
    <3>1. live'[conn[k].profile] # k
      BY <2>1, <2>4 DEF Passed, BackendsKept
    <3>2. ASSUME NEW c \in Cmds, cmd'[c].pc \in {"got", "closing"}, cmd'[c].conn = k
          PROVE  FALSE
      <4>1. CASE Stays(c)
        BY <2>4, <3>2, <4>1 DEF Stays, Same, Passed, Executing, Submitted
      <4>2. CASE ComesUp(c)
        BY <2>1, <3>2, <4>2 DEF ComesUp
      <4>3. CASE TakesCached(c)
        BY <2>4, <3>2, <4>3 DEF TakesCached, Same, Passed
      <4>4. CASE IsInvoked(c)
        <5>1. cmd'[c].profile \in Profiles /\ live[cmd'[c].profile] = k
          BY <3>2, <4>4 DEF IsInvoked
        <5>2. conn[k].profile = cmd'[c].profile
          BY <2>1, <5>1 DEF ShapeInv, Made
        <5>3. QED
          BY <2>4, <5>1, <5>2 DEF Passed
      <4>5. ~Drops(c) /\ ~Begins(c)
        BY <3>2 DEF Drops, Begins, Connecting, Executing, Submitted
      <4>6. QED
        BY <4>1, <4>2, <4>3, <4>4, <4>5 DEF BackendsKept, MovesOn
    <3>3. Passed(backend[b].conn)'
      BY <2>1, <3>1, <3>2 DEF Passed
    <3>4. QED
      BY <3>3
  <2>5. QED
    BY <2>1, <2>2, <2>3, <2>4 DEF BackendInv, Reached, k
<1>7. ASSUME NEW c \in Cmds, cmd'[c].pc = "built"
      PROVE  /\ cache'[cmd'[c].profile] # cmd'[c].backend
             /\ \A d \in Cmds : Executing(d)' /\ IsRun(d)' /\ cmd'[d].profile = cmd'[c].profile
                                   => cmd'[d].aborted
  <2>1. Stays(c)
    BY <1>7 DEF BackendsKept, MovesOn, Drops, ComesUp, Begins, TakesCached, IsInvoked,
       Connecting, Executing, Submitted
  <2>2. cmd[c].pc = "built" /\ Same(c) /\ cmd'[c].backend = cmd[c].backend
    BY <1>7, <2>1 DEF Stays, Executing, Submitted
  <2>3. ASSUME NEW d \in Cmds, Executing(d)', IsRun(d)', cmd'[d].profile = cmd'[c].profile
        PROVE  cmd'[d].aborted
    <3>1. Stays(d) \/ Begins(d)
      BY <2>3 DEF BackendsKept, MovesOn, Drops, ComesUp, TakesCached, IsInvoked,
         Executing, Submitted
    <3>2. ~Begins(d)
      BY <2>2 DEF Begins, BackendInv, Alone, Connecting
    <3>3. Stays(d) /\ Executing(d) /\ IsRun(d) /\ cmd[d].profile = cmd[c].profile
      BY <2>2, <2>3, <3>1, <3>2 DEF Stays, Executing, IsRun, Same
    <3>4. QED
      BY <2>2, <3>3 DEF Stays, BackendInv, BuildsUnused
  <2>4. QED
    BY <2>2, <2>3 DEF Same, BackendInv, BuildsUnused, BackendsKept
<1>8. ASSUME NEW c \in Cmds, cmd'[c].pc = "ready"
      PROVE  cache'[cmd'[c].profile] = cmd'[c].backend
  <2>1. Stays(c) \/ TakesCached(c)
    BY <1>8 DEF BackendsKept, MovesOn, Drops, ComesUp, Begins, IsInvoked,
       Connecting, Executing, Submitted
  <2>2. CASE Stays(c)
    BY <1>8, <2>2 DEF Stays, Executing, Submitted, Same, BackendInv, HandsOutCached,
       BackendsKept
  <2>3. CASE TakesCached(c)
    BY <2>3 DEF TakesCached, Same, BackendsKept
  <2>4. QED
    BY <2>1, <2>2, <2>3
<1>9. ASSUME NEW c \in Cmds, cmd'[c].pc = "closing"
      PROVE  /\ cache'[cmd'[c].profile] = cmd'[c].backend
             /\ backend'[cmd'[c].backend].conn # cmd'[c].conn
  <2>1. Stays(c) \/ TakesCached(c)
    BY <1>9 DEF BackendsKept, MovesOn, Drops, ComesUp, Begins, IsInvoked,
       Connecting, Executing, Submitted
  <2>2. /\ cache[cmd'[c].profile] = cmd'[c].backend
        /\ backend[cmd'[c].backend].conn # cmd'[c].conn
    <3>1. CASE Stays(c)
      BY <1>9, <3>1 DEF Stays, Executing, Submitted, Same, BackendInv, ClosesCached
    <3>2. CASE TakesCached(c)
      BY <1>9, <3>2 DEF TakesCached, Same
    <3>3. QED
      BY <2>1, <3>1, <3>2
  <2>3. cmd'[c].backend \in Backends /\ backend'[cmd'[c].backend] # None
    BY <1>9 DEF ShapeInv, AllPlaced, Placed, Connecting, Submitted
  <2>4. QED
    BY <1>1, <2>2, <2>3 DEF BackendsKept
<1>10. ASSUME NEW c \in Cmds, NEW p, p = cmd'[c].profile,
              cmd'[c].pc \in {"got", "closing", "built"}, cache[p] # None
       PROVE  \/ backend'[cache[p]].conn = cmd'[c].conn
              \/ backend'[cache[p]].conn # live'[p]
  <2>1. p \in Profiles
    BY <1>10 DEF ShapeInv, AllPlaced, Placed, Connecting, Submitted
  <2> DEFINE k == backend[cache[p]].conn
  <2>2. /\ backend'[cache[p]].conn = k /\ k # None /\ k \in Conns /\ conn[k] # None
    BY <1>2, <1>10, <2>1, MadeHas DEF Grown
  <2> HIDE DEF k
  <2>3. CASE Stays(c) \/ TakesCached(c)
    <3>1. cmd[c].pc \in {"got", "closing", "built"} /\ Same(c)
      BY <1>10, <2>3 DEF Stays, TakesCached, Executing, Submitted
    <3>2. k = cmd[c].conn \/ k # live[p]
      BY <1>10, <3>1 DEF Same, BackendInv, OldIsPast, k
    <3>3. QED
      BY <2>1, <2>2, <3>1, <3>2 DEF Same, BackendsKept
  <2>4. CASE ComesUp(c)
    BY <1>10, <2>2, <2>4 DEF ComesUp
  <2>5. CASE IsInvoked(c)
    BY <1>10, <2>2, <2>5 DEF IsInvoked
  <2>6. ~Drops(c) /\ ~Begins(c)
    BY <1>10 DEF Drops, Begins, Connecting, Executing, Submitted
  <2>7. QED
    BY <2>3, <2>4, <2>5, <2>6 DEF BackendsKept, MovesOn
<1>11. RunsStopped'
  BY <1>5 DEF RunsStopped
<1>12. Reached'
  BY <1>6 DEF Reached
<1>13. BuildsUnused' /\ HandsOutCached' /\ ClosesCached'
  BY <1>7, <1>8, <1>9 DEF BuildsUnused, HandsOutCached, ClosesCached
<1>14. OldIsPast'
  BY <1>10 DEF OldIsPast, BackendsKept
<1>15. QED
  BY <1>3, <1>4, <1>11, <1>12, <1>13, <1>14 DEF BackendInv

LEMMA UnmovedStays ==
    ASSUME ShapeInv, NEW d \in Cmds, cmd'[d] = cmd[d] \/ Stopped(d)
    PROVE  Stays(d) /\ cmd'[d].pc = cmd[d].pc
BY StoppedStays DEF Stays, Same

LEMMA OutsideKeepsBackends ==
    ASSUME "overlap" \notin Mishaps, ShapeInv, Outside
    PROVE  BackendsKept
<1>1. \A d \in Cmds : cmd'[d] = cmd[d] \/ Stopped(d) => MovesOn(d) /\ cmd'[d].pc = cmd[d].pc
  BY UnmovedStays DEF MovesOn
<1>2. CASE Surroundings
  <2>1. /\ UNCHANGED <<claimed, conn, backend, cache, cmd, window>>
        /\ \A p \in Profiles : live'[p] \in {live[p], None}
    BY <1>2, SurroundingsLeave DEF Surroundings
  <2>2. QED
    BY <1>1, <2>1 DEF BackendsKept
<1>3. ASSUME NEW c \in Cmds, Slots(c) PROVE BackendsKept
  <2>1. /\ UNCHANGED <<active, manager, session, conn, backend, cache, window>>
        /\ ~Executing(c)'
        /\ \A d \in Cmds : d # c => cmd'[d] = cmd[d]
    BY <1>3, SlotMoves DEF Slots
  <2>2. \/ /\ cmd[c].pc = "idle" /\ cmd'[c].profile = active
           /\ \/ cmd'[c].pc = "connect"
              \/ cmd'[c].pc = "got" /\ cmd'[c].conn = live[active] /\ live[active] # None
           /\ \A d \in Cmds : cmd[d].pc \notin Connecting
        \/ cmd'[c].pc \in {"idle", "told"} /\ cmd[c].pc # "built"
    <3>1. \/ /\ cmd[c].pc = "idle" /\ cmd'[c].profile = active
             /\ \/ cmd'[c].pc = "connect"
                \/ cmd'[c].pc = "got" /\ cmd'[c].conn = live[active] /\ live[active] # None
             /\ \A d \in Cmds : cmd[d].pc \notin Connecting
          \/ cmd'[c] = IdleCmd
          \/ cmd[c].pc = "ready" /\ cmd'[c].pc = "told"
      BY <1>3, SlotMoves DEF Slots
    <3>2. cmd[c].pc # "built"
      BY <1>3 DEF Slots, Invoke, Return, Refused
    <3>3. IdleCmd.pc = "idle"
      BY DEF IdleCmd
    <3>4. QED
      BY <3>1, <3>2, <3>3
  <2>3. active \in Profiles /\ UNCHANGED <<live, backend, cache>>
    BY <2>1 DEF ShapeInv, TypeOK, manager
  <2>4. IsInvoked(c) \/ Drops(c)
    BY <2>2, <2>3 DEF IsInvoked, Drops, Connecting, Submitted
  <2>5. \/ \A d \in Cmds : cmd'[d].pc \in Connecting => cmd[d].pc \in Connecting
        \/ \E e \in Cmds : \A d \in Cmds : d # e => cmd'[d].pc \notin Connecting
    <3>1. CASE \A d \in Cmds : cmd[d].pc \notin Connecting
      BY <2>1, <3>1
    <3>2. CASE cmd'[c].pc \in {"idle", "told"}
      BY <2>1, <3>2 DEF Connecting
    <3>3. QED
      BY <2>2, <3>1, <3>2
  <2>6. QED
    BY <1>1, <2>1, <2>3, <2>4, <2>5 DEF BackendsKept, MovesOn
<1>4. ASSUME NEW p \in Profiles, Connects(p) PROVE BackendsKept
  <2>1. PICK k \in Conns, s \in Sessions, created \in BOOLEAN : ConnectsTo(p, k, s, created)
    BY <1>4, ConnectsMakes
  <2>2. /\ live' = [live EXCEPT ![p] = k] /\ live \in [Profiles -> Conns \cup {None}]
        /\ conn[k] = None /\ UNCHANGED <<backend, cache>>
    BY <2>1 DEF ConnectsTo, ShapeInv, TypeOK
  <2>3. ASSUME NEW d \in Cmds, cmd[d].pc = "connect", cmd[d].profile = p,
               cmd'[d] = [cmd[d] EXCEPT !.pc = "got", !.conn = k]
        PROVE  ComesUp(d)
    <3>1. cmd[d] \in Cmd
      BY DEF ShapeInv, TypeOK
    <3>2. cmd'[d].pc = "got" /\ cmd'[d].conn = k /\ cmd'[d].profile = p
      BY <2>3, <3>1 DEF Cmd
    <3>3. QED
      BY <2>2, <2>3, <3>2 DEF ComesUp
  <2>4. ASSUME NEW d \in Cmds
        PROVE  MovesOn(d) /\ (cmd'[d].pc \in Connecting => cmd[d].pc \in Connecting)
    <3>1. CASE cmd'[d] = cmd[d]
      BY <1>1, <3>1
    <3>2. CASE cmd'[d] # cmd[d]
      BY <2>1, <2>3, <3>2 DEF ConnectsTo, MovesOn, ComesUp, Connecting
    <3>3. QED
      BY <3>1, <3>2
  <2>5. QED
    BY <2>2, <2>4 DEF BackendsKept
<1>5. ASSUME NEW p \in Profiles, ConnectFails(p) PROVE BackendsKept
  <2>1. /\ UNCHANGED <<active, manager, session, conn, backend, cache, window>>
        /\ \A d \in Cmds : \/ cmd'[d] = cmd[d]
                           \/ cmd[d].pc = "connect" /\ cmd'[d] = IdleCmd
    BY <1>5, FailsMoves
  <2>2. \A d \in Cmds : MovesOn(d) /\ (cmd'[d].pc \in Connecting => cmd[d].pc \in Connecting)
    BY <1>1, <2>1 DEF MovesOn, Drops, IdleCmd, Connecting, Submitted
  <2>3. QED
    BY <2>1, <2>2 DEF BackendsKept, manager
<1>6. CASE Cancels
  <2>1. UNCHANGED <<live, cache>> /\ \A b \in Backends : backend[b] = None => backend'[b] = None
    BY <1>6 DEF Cancels, Marks, manager
  <2>2. QED
    BY <1>1, <1>6, <2>1 DEF BackendsKept, Cancels
<1>7. QED
  BY <1>2, <1>3, <1>4, <1>5, <1>6 DEF Outside

LEMMA SubmitsKeepsBackends ==
    ASSUME ShapeInv, Submits
    PROVE  BackendsKept
<1>1. \A d \in Cmds : cmd'[d] = cmd[d] => MovesOn(d) /\ cmd'[d].pc = cmd[d].pc
  BY UnmovedStays DEF MovesOn
<1>2. ASSUME NEW c \in Cmds, NEW pc \in Submitted, NEW seeding \in BOOLEAN,
             Starts(c, pc, seeding)
      PROVE  BackendsKept
  <2>1. Begins(c) /\ \A d \in Cmds : d # c => cmd'[d] = cmd[d]
    BY <1>2, StartsWork DEF Begins, Starts
  <2>2. UNCHANGED <<live, backend, cache>>
    BY <1>2 DEF Starts
  <2>3. cmd[c].pc \in Connecting
    BY <2>1 DEF Begins, Connecting
  <2>4. QED
    BY <1>1, <2>1, <2>2, <2>3 DEF BackendsKept, MovesOn
<1>3. ASSUME NEW c \in Cmds, NEW pc \in Submitted, GoesOn(c, pc) PROVE BackendsKept
  <2>1. WorkKept /\ cmd'[c].pc = pc /\ cmd'[c].aborted = cmd[c].aborted /\ Executing(c)
    BY <1>3, GoesOnKeepsWork DEF GoesOn
  <2>2. Stays(c)
    BY <2>1 DEF WorkKept, Stays, Executing
  <2>3. \A d \in Cmds : d # c => cmd'[d] = cmd[d]
    BY <1>3 DEF GoesOn
  <2>4. UNCHANGED <<live, cache>> /\ \A b \in Backends : backend[b] = None => backend'[b] = None
    BY <1>3 DEF GoesOn, Marks, manager
  <2>5. cmd'[c].pc \notin Connecting
    BY <2>1 DEF Connecting, Submitted
  <2>6. QED
    BY <1>1, <2>2, <2>3, <2>4, <2>5 DEF BackendsKept, MovesOn
<1>4. ASSUME NEW c \in Cmds, NEW outcome \in Outcomes, Settles(c, outcome) PROVE BackendsKept
  <2>1. /\ Executing(c) /\ cmd'[c].pc = "told"
        /\ \A d \in Cmds : d # c => cmd'[d] = cmd[d]
    BY <1>4, SettlesWork
  <2>2. Drops(c) /\ cmd'[c].pc \notin Connecting
    BY <2>1 DEF Drops, Executing, Connecting, Submitted
  <2>3. UNCHANGED <<backend, cache>> /\ \A p \in Profiles : live'[p] \in {live[p], None}
    BY <1>4 DEF Settles, ShapeInv, TypeOK
  <2>4. QED
    BY <1>1, <2>1, <2>2, <2>3 DEF BackendsKept, MovesOn
<1>5. QED
  BY <1>2, <1>3, <1>4 DEF Submits

LEMMA TakesKeepsBackends ==
    ASSUME ShapeInv, NEW c \in Cmds,
           (\E b \in Backends : Taken(c, b)) \/ (\E old \in Backends : Closes(c, old))
    PROVE  BackendsKept
<1>1. \A d \in Cmds : cmd'[d] = cmd[d] \/ Stopped(d) => MovesOn(d) /\ cmd'[d].pc = cmd[d].pc
  BY UnmovedStays DEF MovesOn
<1>2. cmd[c] \in Cmd
  BY DEF ShapeInv, TypeOK
<1>3. ASSUME NEW b \in Backends, Taken(c, b) PROVE BackendsKept
  <2>1. /\ cmd[c].pc = "got" /\ b = cache[cmd[c].profile]
        /\ cmd'[c].pc = "ready" /\ cmd'[c].backend = b /\ Same(c)
    BY <1>2, <1>3 DEF Taken, Cmd, Same
  <2>2. TakesCached(c) /\ cmd[c].pc \in Connecting
    BY <2>1 DEF TakesCached, Connecting
  <2>3. /\ \A d \in Cmds : d # c => cmd'[d] = cmd[d]
        /\ UNCHANGED <<live, cache>>
        /\ \A a \in Backends : backend[a] = None => backend'[a] = None
    BY <1>3 DEF Taken, manager, ShapeInv, TypeOK
  <2>4. QED
    BY <1>1, <2>2, <2>3 DEF BackendsKept, MovesOn
<1>4. ASSUME NEW old \in Backends, Closes(c, old) PROVE BackendsKept
  <2>1. /\ cmd[c].pc = "got" /\ old = cache[cmd[c].profile]
        /\ backend[old].conn # cmd[c].conn
        /\ cmd'[c].pc = "closing" /\ cmd'[c].backend = old /\ Same(c)
    BY <1>2, <1>4 DEF Closes, Cmd, Same
  <2>2. TakesCached(c) /\ cmd[c].pc \in Connecting
    BY <2>1 DEF TakesCached, Connecting
  <2>3. /\ \A d \in Cmds : d # c => cmd'[d] = cmd[d] \/ Stopped(d)
        /\ UNCHANGED <<live, backend, cache>>
    BY <1>4 DEF Closes, manager
  <2>4. QED
    BY <1>1, <2>2, <2>3 DEF BackendsKept, MovesOn
<1>5. QED
  BY <1>3, <1>4

(* The new backend has a connection that no backend had.                   *)
LEMMA BuildsStep ==
    ASSUME ShapeInv, ShapeInv', Grown, BackendInv, NEW c \in Cmds,
           NEW old \in Backends \cup {None}, NEW new \in Backends, Builds(c, old, new)
    PROVE  BackendInv'
<1> DEFINE k == cmd[c].conn  p == cmd[c].profile
<1>1. /\ cmd[c].pc \in {"got", "closing"} /\ cmd'[c].pc = "built"
      /\ cmd'[c].backend = new /\ Same(c) /\ cmd[c].pc \in Connecting
  <2>1. cmd[c] \in Cmd
    BY DEF ShapeInv, TypeOK
  <2>2. QED
    BY <2>1 DEF Builds, Cmd, Same, Connecting
<1>2. /\ k \in Conns /\ conn[k] # None /\ conn[k].profile = p /\ p \in Profiles
      /\ NewBackend(k).conn = k
  BY <1>1, GotHas, NewBackendFits
<1>3. old = cache[p] /\ (old # None => backend[old].conn # k)
  BY DEF Builds, BackendInv, ClosesCached
<1>4. \A d \in Cmds : d # c => cmd[d].pc \notin Connecting
  BY <1>1 DEF BackendInv, Alone
<1>5. ASSUME NEW d \in Cmds, d # c
      PROVE  Stays(d) /\ cmd'[d].pc = cmd[d].pc /\ cmd'[d].pc \notin Connecting
  BY <1>4, <1>5, UnmovedStays DEF Builds
<1>6. UNCHANGED <<live, conn, cache>> /\ backend[new] = None /\ backend'[new].conn = k
  BY <1>2 DEF Builds, manager
<1>7. ASSUME NEW b \in Backends, b # new, backend'[b] # None
      PROVE  /\ backend[b] # None /\ backend'[b].conn = backend[b].conn
             /\ conn[backend[b].conn] # None /\ backend[b].conn \in Conns
             /\ ProfileOf(b) = conn[backend[b].conn].profile
  <2>1. backend[b] # None
    BY <1>7 DEF Builds
  <2>2. QED
    BY <2>1, MadeHas DEF Grown
<1>8. ASSUME NEW b \in Backends, b # new, backend'[b] # None
      PROVE  backend[b].conn # k /\ (cache[ProfileOf(b)] = b \/ Passed(backend[b].conn))
  <2>1. /\ backend[b] # None /\ ProfileOf(b) = conn[backend[b].conn].profile
    BY <1>7, <1>8
  <2>2. ~BuiltBy(b)
    BY <1>1, <1>4 DEF BuiltBy, Connecting
  <2>3. cache[ProfileOf(b)] = b \/ Passed(backend[b].conn)
    BY <2>1, <2>2 DEF BackendInv, Reached
  <2>4. Passed(backend[b].conn) => backend[b].conn # k
    BY <1>1 DEF Passed
  <2>5. cache[ProfileOf(b)] = b /\ backend[b].conn = k => FALSE
    BY <1>2, <1>3, <1>8, <2>1, RunWindowAssumption
  <2>6. QED
    BY <2>3, <2>4, <2>5
<1> HIDE DEF k, p
<1>9. OneBackendPerConnection'
  BY <1>6, <1>7, <1>8 DEF OneBackendPerConnection, BackendInv
<1>10. Alone'
  BY <1>5 DEF Alone
<1>11. Reached'
  <2>1. BuiltBy(new)'
    BY <1>1 DEF BuiltBy
  <2>2. ASSUME NEW b \in Backends, b # new, backend'[b] # None
        PROVE  (cache[ProfileOf(b)] = b \/ Passed(backend[b].conn))'
    <3>1. cache[ProfileOf(b)] = b => cache'[conn'[backend'[b].conn].profile] = b
      BY <1>6, <1>7, <2>2
    <3>2. \A d \in Cmds : cmd'[d].pc \notin {"got", "closing"}
      BY <1>1, <1>5 DEF Connecting
    <3>3. Passed(backend[b].conn) => live'[conn'[backend'[b].conn].profile] # backend'[b].conn
      BY <1>6, <1>7, <2>2 DEF Passed
    <3>4. QED
      BY <1>8, <2>2, <3>1, <3>2, <3>3 DEF Passed, ProfileOf
  <2>3. QED
    BY <2>1, <2>2 DEF Reached
<1>12. ASSUME NEW d \in Cmds, Executing(d)', IsRun(d)'
       PROVE  /\ cache'[cmd'[d].profile] = cmd'[d].backend \/ cmd'[d].aborted
              /\ cmd'[d].profile = p => cmd'[d].aborted
  <2>1. d # c
    BY <1>1, <1>12 DEF Executing, Submitted
  <2>2. Stays(d) /\ Executing(d) /\ IsRun(d)
    BY <1>5, <1>12, <2>1 DEF Stays, Executing, IsRun, Same
  <2>3. cache[cmd[d].profile] = cmd[d].backend \/ cmd[d].aborted
    BY <2>2 DEF BackendInv, RunsStopped
  <2>4. cmd[d].backend = old => cmd'[d].aborted
    BY <2>1, <2>2, StoppedStays DEF Builds
  <2>5. QED
    BY <1>3, <1>6, <2>2, <2>3, <2>4 DEF Stays, Same
<1>13. RunsStopped'
  BY <1>12 DEF RunsStopped
<1>14. BuildsUnused'
  <2>1. cache[p] # new
    <3>1. cache[p] # None => backend[cache[p]] # None
      BY <1>2 DEF ShapeInv, Made
    <3>2. new # None
      BY RunWindowAssumption
    <3>3. QED
      BY <1>6, <3>1, <3>2
  <2>2. \A d \in Cmds : cmd'[d].pc = "built" => d = c
    BY <1>5 DEF Connecting
  <2>3. QED
    BY <1>1, <1>6, <1>12, <2>1, <2>2 DEF BuildsUnused, Same, p
<1>15. HandsOutCached' /\ ClosesCached'
  BY <1>1, <1>5 DEF HandsOutCached, ClosesCached, Connecting
<1>16. OldIsPast'
  <2>1. cache[p] # None => backend[cache[p]].conn = k \/ backend[cache[p]].conn # live[p]
    BY <1>1 DEF BackendInv, OldIsPast, k, p
  <2>2. cache[p] # None => cache[p] \in Backends /\ backend[cache[p]] # None
    BY <1>2 DEF ShapeInv, TypeOK, Made
  <2>3. cache[p] # None => backend'[cache[p]].conn = backend[cache[p]].conn
    BY <2>2 DEF Grown
  <2>4. \A d \in Cmds : cmd'[d].pc \in {"got", "closing", "built"} => d = c
    BY <1>5 DEF Connecting
  <2>5. cmd'[c].profile = p /\ cmd'[c].conn = k
    BY <1>1 DEF Same, k, p
  <2>6. QED
    BY <1>6, <2>1, <2>3, <2>4, <2>5 DEF OldIsPast
<1>17. QED
  BY <1>9, <1>10, <1>11, <1>13, <1>14, <1>15, <1>16 DEF BackendInv

(* What the cache held is past: its connection is not held any more.       *)
LEMMA StoresStep ==
    ASSUME ShapeInv, ShapeInv', Grown, BackendInv, NEW c \in Cmds, Stores(c)
    PROVE  BackendInv'
<1> DEFINE b == cmd[c].backend  p == cmd[c].profile
<1>1. /\ cmd[c].pc = "built" /\ cmd'[c].pc = "ready" /\ Same(c)
      /\ cmd'[c].backend = b /\ cmd[c].pc \in Connecting
  <2>1. cmd[c] \in Cmd
    BY DEF ShapeInv, TypeOK
  <2>2. QED
    BY <2>1 DEF Stores, Cmd, Same, Connecting
<1>2. /\ b \in Backends /\ backend[b] # None /\ ProfileOf(b) = p /\ p \in Profiles
      /\ backend[b].conn = cmd[c].conn
  BY <1>1, HeldHas, GotHas
<1>3. \A d \in Cmds : d # c => cmd[d].pc \notin Connecting /\ cmd'[d] = cmd[d]
  BY <1>1 DEF BackendInv, Alone, Stores
<1>4. /\ UNCHANGED <<live, conn>>
      /\ \A q \in Profiles : cache'[q] = IF q = p THEN b ELSE cache[q]
  BY <1>2 DEF Stores, manager, ShapeInv, TypeOK
<1>5. \A a \in Backends : backend'[a] # None =>
         /\ backend[a] # None /\ backend'[a].conn = backend[a].conn
         /\ ProfileOf(a) = conn[backend[a].conn].profile /\ ProfileOf(a) \in Profiles
  BY MadeHas DEF Grown, Stores, Marks
<1>6. cache[p] # b /\ \A d \in Cmds :
         Executing(d) /\ IsRun(d) /\ cmd[d].profile = p => cmd[d].aborted
  BY <1>1 DEF BackendInv, BuildsUnused
<1>7. ASSUME cache[p] # None
      PROVE  backend[cache[p]].conn # live[p] /\ cache[p] \in Backends
  <2>1. cache[p] \in Backends /\ backend[cache[p]] # None
    BY <1>2, <1>7 DEF ShapeInv, TypeOK, Made
  <2>2. backend[cache[p]].conn # cmd[c].conn
    BY <1>2, <1>6, <2>1 DEF BackendInv, OneBackendPerConnection
  <2>3. QED
    BY <1>1, <1>7, <2>1, <2>2 DEF BackendInv, OldIsPast
<1> HIDE DEF b, p
<1>8. OneBackendPerConnection'
  BY <1>5 DEF OneBackendPerConnection, BackendInv
<1>9. Alone'
  BY <1>3 DEF Alone
<1>10. Reached'
  <2>1. \A d \in Cmds : cmd'[d].pc \notin {"got", "closing", "built"}
    BY <1>1, <1>3 DEF Connecting
  <2>2. ASSUME NEW a \in Backends, backend'[a] # None
        PROVE  (cache[ProfileOf(a)] = a \/ Passed(backend[a].conn))'
    <3>1. /\ backend[a] # None /\ backend'[a].conn = backend[a].conn
          /\ ProfileOf(a) = conn[backend[a].conn].profile /\ ProfileOf(a) \in Profiles
      BY <1>5, <2>2
    <3>2. CASE a = b
      BY <1>2, <1>4, <3>1, <3>2 DEF ProfileOf
    <3>3. CASE a # b /\ cache[ProfileOf(a)] = a /\ ProfileOf(a) # p
      BY <1>4, <3>1, <3>3 DEF ProfileOf
    <3>4. CASE a # b /\ cache[ProfileOf(a)] = a /\ ProfileOf(a) = p
      <4>1. backend[a].conn # live[p]
        BY <1>7, <3>4, RunWindowAssumption
      <4>2. live'[conn'[backend'[a].conn].profile] # backend'[a].conn
        BY <1>4, <3>1, <3>4, <4>1
      <4>3. QED
        BY <2>1, <4>2 DEF Passed
    <3>5. CASE a # b /\ Passed(backend[a].conn)
      <4>1. live'[conn'[backend'[a].conn].profile] # backend'[a].conn
        BY <1>4, <3>1, <3>5 DEF Passed
      <4>2. QED
        BY <2>1, <4>1 DEF Passed
    <3>6. BuiltBy(a) => a = b
      BY <1>3 DEF BuiltBy, Connecting, b
    <3>7. QED
      BY <3>1, <3>2, <3>3, <3>4, <3>5, <3>6 DEF BackendInv, Reached
  <2>3. QED
    BY <2>2 DEF Reached
<1>11. RunsStopped'
  <2>1. ASSUME NEW d \in Cmds, Executing(d)', IsRun(d)'
        PROVE  cache'[cmd'[d].profile] = cmd'[d].backend \/ cmd'[d].aborted
    <3>1. d # c /\ cmd'[d] = cmd[d] /\ Executing(d) /\ IsRun(d)
      BY <1>1, <1>3, <2>1 DEF Executing, Submitted, IsRun
    <3>2. cmd[d].profile \in Profiles
      BY <3>1, ExecutingHas
    <3>3. QED
      BY <1>4, <1>6, <3>1, <3>2 DEF BackendInv, RunsStopped
  <2>2. QED
    BY <2>1 DEF RunsStopped
<1>12. BuildsUnused' /\ ClosesCached' /\ OldIsPast'
  BY <1>1, <1>3 DEF BuildsUnused, ClosesCached, OldIsPast, Connecting
<1>13. HandsOutCached'
  <2>1. \A d \in Cmds : cmd'[d].pc = "ready" => d = c
    BY <1>3 DEF Connecting
  <2>2. cache'[cmd'[c].profile] = cmd'[c].backend
    BY <1>1, <1>2, <1>4 DEF Same, p
  <2>3. QED
    BY <2>1, <2>2 DEF HandsOutCached
<1>14. QED
  BY <1>8, <1>9, <1>10, <1>11, <1>12, <1>13 DEF BackendInv

LEMMA GrownStep ==
    ASSUME ShapeInv, [Next]_vars
    PROVE  Grown
<1>1. CASE Outside
  <2>1. CASE Surroundings
    BY <2>1, SurroundingsLeave DEF Surroundings, Grown
  <2>2. ASSUME NEW c \in Cmds, Slots(c) PROVE Grown
    BY <2>2, SlotMoves DEF Slots, Grown
  <2>3. ASSUME NEW p \in Profiles, Connects(p) PROVE Grown
    <3>1. PICK k \in Conns, s \in Sessions, created \in BOOLEAN : ConnectsTo(p, k, s, created)
      BY <2>3, ConnectsMakes
    <3>2. /\ conn[k] = None /\ UNCHANGED backend
          /\ conn' = [conn EXCEPT ![k] = [profile |-> p, session |-> s, created |-> created]]
      BY <3>1 DEF ConnectsTo
    <3>3. conn \in [Conns -> Connection \cup {None}]
      BY DEF ShapeInv, TypeOK
    <3>4. QED
      BY <3>2, <3>3 DEF Grown
  <2>4. ASSUME NEW p \in Profiles, ConnectFails(p) PROVE Grown
    BY <2>4, FailsMoves DEF Grown
  <2>5. CASE Cancels
    BY <2>5, CancelsShape
  <2>6. QED
    BY <1>1, <2>1, <2>2, <2>3, <2>4, <2>5 DEF Outside
<1>2. CASE BackendFor
  <2>1. ASSUME NEW c \in Cmds, NEW b \in Backends, Taken(c, b) PROVE Grown
    <3>1. backend[b] # None /\ backend' = [backend EXCEPT ![b].connected = TRUE]
      BY <2>1 DEF Taken
    <3>2. Marks(b)
      BY <3>1, MarksConnected
    <3>3. QED
      BY <2>1, <3>2 DEF Grown, Marks, Taken
  <2>2. QED
    BY <1>2, <2>1, BuildsShape, ClosesShape, StoresShape DEF BackendFor
<1>3. CASE Submits
  BY <1>3, StartsShape, GoesOnShape, SettlesShape DEF Submits
<1>4. QED
  BY <1>1, <1>2, <1>3, StepKinds

(* While one command connects at a time, a connection gets one backend and *)
(* a run whose backend was replaced has been told to stop.                 *)
THEOREM OneBackendEach ==
    ASSUME "overlap" \notin Mishaps
    PROVE  Spec => []OneBackendAtWork
<1>1. Init => BackendInv
  <2> SUFFICES ASSUME Init PROVE BackendInv
    OBVIOUS
  <2>1. \A c \in Cmds : cmd[c].pc = "idle" /\ ~Executing(c)
    BY InitIdle
  <2>2. \A b \in Backends : backend[b] = None
    BY DEF Init
  <2>3. QED
    BY <2>1, <2>2 DEF BackendInv, OneBackendPerConnection, RunsStopped, Alone, Reached,
       BuildsUnused, HandsOutCached, ClosesCached, OldIsPast, Connecting
<1>2. ASSUME ShapeInv, BackendInv, [Next]_vars PROVE BackendInv'
  <2>1. ShapeInv' /\ Grown
    BY <1>2, ShapeStep, GrownStep
  <2>2. CASE Outside
    BY <1>2, <2>1, <2>2, OutsideKeepsBackends, BackendsKeptStep
  <2>3. CASE Submits
    BY <1>2, <2>1, <2>3, SubmitsKeepsBackends, BackendsKeptStep
  <2>4. ASSUME NEW c \in Cmds,
               (\E b \in Backends : Taken(c, b)) \/ (\E old \in Backends : Closes(c, old))
        PROVE  BackendInv'
    BY <1>2, <2>1, <2>4, TakesKeepsBackends, BackendsKeptStep
  <2>5. ASSUME NEW c \in Cmds, NEW old \in Backends \cup {None}, NEW new \in Backends,
               Builds(c, old, new)
        PROVE  BackendInv'
    BY <1>2, <2>1, <2>5, BuildsStep
  <2>6. ASSUME NEW c \in Cmds, Stores(c) PROVE BackendInv'
    BY <1>2, <2>1, <2>6, StoresStep
  <2>7. QED
    BY <1>2, <2>2, <2>3, <2>4, <2>5, <2>6, StepKinds DEF BackendFor
<1>3. ShapeInv /\ BackendInv => OneBackendAtWork
  <2> SUFFICES ASSUME ShapeInv, BackendInv PROVE OneBackendAtWork
    OBVIOUS
  <2>1. \A c \in Cmds : Executing(c) => ProfileOf(cmd[c].backend) = cmd[c].profile
    BY ExecutingHas
  <2>2. QED
    BY <2>1 DEF BackendInv, RunsStopped, OneBackendAtWork, ReplacedIsStopped
<1>4. QED
  BY <1>1, <1>2, <1>3, ShapeHolds, PTL DEF Spec

-----------------------------------------------------------------------------
(* The startup snippet.  While a connection is let go only when its session *)
(* is gone, every connection is to a session created for it, its backend    *)
(* owes the snippet until a job has run it, and a command that holds a      *)
(* connection holds the one its profile has.                                *)
Held == {"got", "built", "ready"} \cup Submitted
Ran == {"stream", "syscc", "capture", "result"}

BoundIsUsed == \A p \in Profiles :
    binding[p] # None => session[binding[p]].state # "unused"
LeftIsGone == \A p \in Profiles :
    live[p] = None /\ binding[p] # None => session[binding[p]].state # "alive"
LiveIsBound == \A p \in Profiles :
    live[p] # None => binding[p] = conn[live[p]].session
AllCreated == \A k \in Conns : conn[k] # None => conn[k].created
HoldsLive(c) ==
    /\ cmd[c].pc # "closing"
    /\ cmd[c].pc \in Held => live[cmd[c].profile] = cmd[c].conn
Seeds(c) ==
    LET seeded == session[conn[cmd[c].conn].session].seeded IN
    Executing(c) =>
        /\ IsRun(c) /\ cmd[c].profile \in Startup /\ ~cmd[c].seeding => seeded
        /\ cmd[c].seeding /\ cmd[c].pc \in Ran => seeded
Due(b) ==
    backend[b] # None /\ ProfileOf(b) \in Startup /\ ~backend[b].pending
        => session[conn[backend[b].conn].session].seeded

SeedInv ==
    /\ BoundIsUsed /\ LeftIsGone /\ LiveIsBound /\ AllCreated /\ SnippetFirst
    /\ \A c \in Cmds : HoldsLive(c) /\ Seeds(c)
    /\ \A b \in Backends : Due(b)

(* What every step but the coming up of a connection leaves.               *)
KeepsSeeds(d) ==
    Executing(d)' =>
        /\ Executing(d) /\ Same(d) /\ (cmd'[d].seeding <=> cmd[d].seeding)
        /\ cmd'[d].pc \in Ran => cmd[d].pc \in Ran
SeedsKept ==
    /\ UNCHANGED conn
    /\ \A s \in Sessions :
          /\ session'[s].state \in {session[s].state, "gone"}
          /\ session[s].seeded => session'[s].seeded
          /\ session'[s].bare => session[s].bare
    /\ \A p \in Profiles :
          \/ live'[p] = live[p] /\ binding'[p] = binding[p]
          \/ live'[p] = None /\ binding'[p] = None
          \/ live'[p] = None /\ binding'[p] = binding[p] /\ session[binding[p]].state = "gone"
    /\ \A d \in Cmds : HoldsLive(d)' /\ (KeepsSeeds(d) \/ Seeds(d)')
    /\ \A b \in Backends : backend'[b] # None =>
          \/ backend[b] # None /\ (backend'[b].pending <=> backend[b].pending)
          \/ Due(b)'

LEMMA SeedsKeptStep ==
    ASSUME ShapeInv, ShapeInv', Grown, SeedInv, SeedsKept
    PROVE  SeedInv'
<1>1. BoundIsUsed' /\ LeftIsGone'
  <2>1. ASSUME NEW p \in Profiles, binding'[p] # None
        PROVE  /\ session'[binding'[p]].state # "unused"
               /\ live'[p] = None => session'[binding'[p]].state # "alive"
    <3>1. binding[p] = binding'[p] /\ binding[p] \in Sessions
      BY <2>1 DEF SeedsKept, ShapeInv, TypeOK
    <3>2. /\ session[binding[p]].state # "unused"
          /\ live[p] = None => session[binding[p]].state # "alive"
      BY <2>1, <3>1 DEF SeedInv, BoundIsUsed, LeftIsGone
    <3>3. session'[binding[p]].state \in {session[binding[p]].state, "gone"}
      BY <3>1 DEF SeedsKept
    <3>4. \/ live'[p] = live[p]
          \/ session[binding[p]].state = "gone"
      BY <2>1 DEF SeedsKept
    <3>5. QED
      BY <3>1, <3>2, <3>3, <3>4
  <2>2. QED
    BY <2>1 DEF BoundIsUsed, LeftIsGone
<1>2. LiveIsBound' /\ AllCreated'
  BY DEF SeedsKept, SeedInv, LiveIsBound, AllCreated
<1>3. SnippetFirst'
  BY DEF SeedsKept, SeedInv, SnippetFirst
<1>4. ASSUME NEW d \in Cmds PROVE Seeds(d)'
  <2>1. CASE KeepsSeeds(d) /\ Executing(d)'
    <3>1. Executing(d) /\ Same(d) /\ Seeds(d)
      BY <2>1 DEF KeepsSeeds, SeedInv
    <3>2. conn[cmd[d].conn].session \in Sessions
      BY <3>1, ExecutingHas DEF Connection
    <3>3. UNCHANGED conn /\ \A s \in Sessions : session[s].seeded => session'[s].seeded
      BY DEF SeedsKept
    <3>4. QED
      BY <2>1, <3>1, <3>2, <3>3 DEF KeepsSeeds, Seeds, Same, IsRun
  <2>2. CASE ~Executing(d)'
    BY <2>2 DEF Seeds
  <2>3. QED
    BY <2>1, <2>2 DEF SeedsKept
<1>5. ASSUME NEW b \in Backends PROVE Due(b)'
  <2>1. CASE backend[b] # None /\ (backend'[b].pending <=> backend[b].pending)
    <3>1. backend'[b].conn = backend[b].conn
      BY <2>1 DEF Grown
    <3>2. conn[backend[b].conn].session \in Sessions
      BY <2>1, MadeHas DEF Connection
    <3>3. UNCHANGED conn /\ \A s \in Sessions : session[s].seeded => session'[s].seeded
      BY DEF SeedsKept
    <3>4. Due(b)
      BY DEF SeedInv
    <3>5. QED
      BY <2>1, <3>1, <3>2, <3>3, <3>4 DEF Due, ProfileOf
  <2>2. CASE backend'[b] = None
    BY <2>2 DEF Due
  <2>3. QED
    BY <2>1, <2>2 DEF SeedsKept
<1>6. QED
  BY <1>1, <1>2, <1>3, <1>4, <1>5 DEF SeedInv, SeedsKept

LEMMA UnmovedKeepsSeeds ==
    ASSUME ShapeInv, SeedInv, NEW d \in Cmds, cmd'[d] = cmd[d] \/ Stopped(d),
           cmd[d].pc \in Held => live'[cmd[d].profile] = live[cmd[d].profile]
    PROVE  HoldsLive(d)' /\ KeepsSeeds(d)
<1>1. /\ cmd'[d].pc = cmd[d].pc /\ Same(d) /\ cmd'[d].seeding = cmd[d].seeding
      /\ Executing(d)' => Executing(d)
  BY StoppedStays DEF Same, Executing
<1>2. HoldsLive(d)
  BY DEF SeedInv
<1>3. QED
  BY <1>1, <1>2 DEF HoldsLive, KeepsSeeds, Same

LEMMA MarkedKeeps ==
    ASSUME NEW b \in Backends, Marks(b), backend'[b].pending = backend[b].pending
    PROVE  \A a \in Backends : backend'[a] # None =>
              backend[a] # None /\ (backend'[a].pending <=> backend[a].pending)
BY DEF Marks

LEMMA SurroundingsKeepSeeds ==
    ASSUME Mishaps \subseteq {"overlap", "switch"}, ShapeInv, SeedInv, Surroundings
    PROVE  SeedsKept
<1>1. UNCHANGED <<conn, backend, cmd>>
  BY SurroundingsLeave DEF Surroundings
<1>2. /\ live \in [Profiles -> Conns \cup {None}] /\ binding \in [Profiles -> Sessions \cup {None}]
      /\ session \in [Sessions -> Session] /\ active \in Profiles
  BY DEF ShapeInv, TypeOK
<1>3. \A s \in Sessions : /\ session'[s].state \in {session[s].state, "gone"}
                          /\ session[s].seeded => session'[s].seeded
                          /\ session'[s].bare => session[s].bare
  <2>1. \/ UNCHANGED session
        \/ \E s : session' = [session EXCEPT ![s].state = "gone"]
    BY DEF Surroundings, SignedOut, SwitchesProfile, Disconnects, SessionReaped, vars
  <2>2. ASSUME NEW s, session' = [session EXCEPT ![s].state = "gone"], NEW a \in Sessions
        PROVE  /\ session'[a].state \in {session[a].state, "gone"}
               /\ session[a].seeded => session'[a].seeded
               /\ session'[a].bare => session[a].bare
    <3>1. CASE a = s
      <4>1. session'[a] = [session[a] EXCEPT !.state = "gone"] /\ session[a] \in Session
        BY <1>2, <2>2, <3>1
      <4>2. QED
        BY <4>1 DEF Session
    <3>2. CASE a # s
      BY <1>2, <2>2, <3>2
    <3>3. QED
      BY <3>1, <3>2
  <2>3. QED
    BY <2>1, <2>2
<1>4. \/ UNCHANGED <<live, binding>>
      \/ /\ live' = [live EXCEPT ![active] = None]
         /\ binding' = [binding EXCEPT ![active] = None]
         /\ \A c \in Cmds : cmd[c].pc \in {"idle", "told"}
  BY DEF Surroundings, SignedOut, SwitchesProfile, Disconnects, SessionReaped, vars, manager
<1>5. ASSUME NEW d \in Cmds PROVE HoldsLive(d)' /\ KeepsSeeds(d)
  <2>1. cmd[d].pc \in Held => live'[cmd[d].profile] = live[cmd[d].profile]
    BY <1>4 DEF Held, Submitted
  <2>2. QED
    BY <1>1, <2>1, UnmovedKeepsSeeds
<1>6. QED
  BY <1>1, <1>2, <1>3, <1>4, <1>5 DEF SeedsKept

(* A step in which the connections and the sessions stay what they are.    *)
LEMMA QuietlyKeeps ==
    ASSUME UNCHANGED <<live, binding, session, conn>>,
           \A d \in Cmds : HoldsLive(d)' /\ (KeepsSeeds(d) \/ Seeds(d)'),
           \A b \in Backends : backend'[b] # None =>
              \/ backend[b] # None /\ (backend'[b].pending <=> backend[b].pending)
              \/ Due(b)'
    PROVE  SeedsKept
BY DEF SeedsKept

LEMMA CommandsKeepSeeds ==
    ASSUME ShapeInv, SeedInv,
           \/ \E c \in Cmds : Slots(c)
           \/ \E p \in Profiles : ConnectFails(p)
           \/ Cancels
    PROVE  SeedsKept
<1>1. IdleCmd.pc = "idle"
  BY DEF IdleCmd
<1>2. ASSUME NEW c \in Cmds, Slots(c) PROVE SeedsKept
  <2>1. /\ UNCHANGED <<active, live, binding, session, conn, backend>>
        /\ ~Executing(c)' /\ \A d \in Cmds : d # c => cmd'[d] = cmd[d]
    BY <1>2, SlotMoves DEF Slots, manager
  <2>2. \/ cmd'[c].profile = active /\ cmd'[c].pc = "connect"
        \/ cmd'[c].profile = active /\ cmd'[c].pc = "got" /\ cmd'[c].conn = live[active]
        \/ cmd'[c] = IdleCmd
        \/ cmd'[c].pc = "told"
    BY <1>2, SlotMoves DEF Slots
  <2>3. HoldsLive(c)' /\ KeepsSeeds(c)
    BY <1>1, <2>1, <2>2 DEF HoldsLive, Held, Submitted, KeepsSeeds
  <2>4. \A d \in Cmds : HoldsLive(d)' /\ KeepsSeeds(d)
    BY <2>1, <2>3, UnmovedKeepsSeeds
  <2>5. QED
    BY <2>1, <2>4, QuietlyKeeps
<1>3. ASSUME NEW p \in Profiles, ConnectFails(p) PROVE SeedsKept
  <2>1. /\ UNCHANGED <<live, binding, session, conn, backend>>
        /\ \A d \in Cmds : cmd'[d] = cmd[d] \/ cmd'[d] = IdleCmd
    BY <1>3, FailsMoves DEF manager
  <2>2. \A d \in Cmds : cmd'[d] = IdleCmd => HoldsLive(d)' /\ KeepsSeeds(d)
    BY <1>1 DEF HoldsLive, Held, Submitted, KeepsSeeds, Executing
  <2>3. \A d \in Cmds : HoldsLive(d)' /\ KeepsSeeds(d)
    BY <2>1, <2>2, UnmovedKeepsSeeds
  <2>4. QED
    BY <2>1, <2>3, QuietlyKeeps
<1>4. CASE Cancels
  <2>1. /\ UNCHANGED <<live, binding, session, conn>>
        /\ \A d \in Cmds : cmd'[d] = cmd[d] \/ Stopped(d)
    BY <1>4 DEF Cancels, manager
  <2>2. \A a \in Backends : backend'[a] # None =>
           backend[a] # None /\ (backend'[a].pending <=> backend[a].pending)
    BY <1>4, MarkedKeeps DEF Cancels
  <2>3. \A d \in Cmds : HoldsLive(d)' /\ KeepsSeeds(d)
    BY <2>1, UnmovedKeepsSeeds
  <2>4. QED
    BY <2>1, <2>2, <2>3, QuietlyKeeps
<1>5. QED
  BY <1>2, <1>3, <1>4

(* A command that holds the connection its profile has does not close.     *)
LEMMA BackendForKeepsSeeds ==
    ASSUME ShapeInv, ShapeInv', SeedInv, BackendFor
    PROVE  SeedsKept
<1>1. PICK c \in Cmds :
         \/ \E b \in Backends : Taken(c, b)
         \/ \E old \in Backends \cup {None}, new \in Backends : Builds(c, old, new)
         \/ \E old \in Backends : Closes(c, old)
         \/ Stores(c)
  BY BackendForIs
<1>2. /\ cmd[c].pc \in {"got", "closing", "built"} /\ Same(c)
      /\ \A d \in Cmds : d # c => cmd'[d] = cmd[d] \/ Stopped(d)
  BY <1>1, BackendForGoes
<1>3. cmd[c].pc \in {"got", "built"} /\ live[cmd[c].profile] = cmd[c].conn
  BY <1>2 DEF SeedInv, HoldsLive, Held
<1>4. UNCHANGED <<live, binding, session, conn>>
  BY <1>1 DEF Taken, Builds, Closes, Stores, manager
<1>5. \A d \in Cmds : d # c => HoldsLive(d)' /\ KeepsSeeds(d)
  BY <1>2, <1>4, UnmovedKeepsSeeds
<1>6. ASSUME cmd'[c].pc \in {"built", "ready"} PROVE HoldsLive(c)' /\ KeepsSeeds(c)
  BY <1>3, <1>4, <1>2, <1>6 DEF HoldsLive, KeepsSeeds, Same, Executing, Submitted
<1>7. cmd[c] \in Cmd
  BY DEF ShapeInv, TypeOK
<1>8. ASSUME NEW b \in Backends, Taken(c, b) PROVE SeedsKept
  <2>1. cmd'[c].pc = "ready"
    BY <1>7, <1>8 DEF Taken, Cmd
  <2>2. Marks(b) /\ backend'[b].pending = backend[b].pending
    <3>1. backend[b] # None /\ backend' = [backend EXCEPT ![b].connected = TRUE]
      BY <1>8 DEF Taken
    <3>2. QED
      BY <3>1, MarksConnected
  <2>3. QED
    BY <1>4, <1>5, <1>6, <2>1, <2>2, MarkedKeeps, QuietlyKeeps
<1>9. ASSUME Stores(c) PROVE SeedsKept
  <2>1. cmd'[c].pc = "ready"
    BY <1>7, <1>9 DEF Stores, Cmd
  <2>2. /\ Marks(cmd[c].backend) /\ cmd[c].backend \in Backends
        /\ backend'[cmd[c].backend].pending = backend[cmd[c].backend].pending
    BY <1>9, HeldHas DEF Stores
  <2>3. QED
    BY <1>4, <1>5, <1>6, <2>1, <2>2, MarkedKeeps, QuietlyKeeps
<1>10. ASSUME NEW old \in Backends, Closes(c, old) PROVE FALSE
  <2>1. PICK d \in Cmds : Executing(d) /\ cmd[d].backend = old
    BY <1>10 DEF Closes
  <2>2. /\ ProfileOf(old) = cmd[d].profile /\ backend[old].conn = cmd[d].conn
        /\ live[cmd[d].profile] = cmd[d].conn
    BY <2>1, ExecutingHas DEF SeedInv, HoldsLive, Held, Executing
  <2>3. ProfileOf(old) = cmd[c].profile /\ backend[old].conn # cmd[c].conn
    BY <1>2, <1>10, GotHas, RunWindowAssumption DEF Closes
  <2>4. QED
    BY <1>3, <2>2, <2>3
<1>11. ASSUME NEW old \in Backends \cup {None}, NEW new \in Backends, Builds(c, old, new)
       PROVE  SeedsKept
  <2>1. cmd'[c].pc = "built"
    BY <1>7, <1>11 DEF Builds, Cmd
  <2>2. ASSUME NEW a \in Backends, a # new, backend'[a] # None
        PROVE  backend[a] # None /\ (backend'[a].pending <=> backend[a].pending)
    <3>1. CASE backend'[a] = backend[a]
      BY <2>2, <3>1
    <3>2. CASE backend[a] # None /\ backend'[a] = [backend[a] EXCEPT !.connected = FALSE]
      <4>1. backend[a] \in Backend
        BY <3>2 DEF ShapeInv, TypeOK
      <4>2. QED
        BY <3>2, <4>1 DEF Backend
    <3>3. QED
      BY <1>11, <2>2, <3>1, <3>2 DEF Builds
  <2>3. Due(new)'
    <3> DEFINE k == cmd[c].conn
    <3>1. k \in Conns /\ conn[k] # None
      BY <1>2, GotHas
    <3>2. /\ NewBackend(k).conn = k
          /\ NewBackend(k).pending <=> conn[k].created /\ conn[k].profile \in Startup
      BY <3>1, NewBackendFits
    <3>3. conn[k].created
      BY <3>1 DEF SeedInv, AllCreated
    <3>4. backend'[new] = NewBackend(k)
      BY <1>11 DEF Builds
    <3> HIDE DEF k
    <3>5. QED
      BY <1>4, <3>2, <3>3, <3>4 DEF Due, ProfileOf
  <2>4. QED
    BY <1>4, <1>5, <1>6, <2>1, <2>2, <2>3, QuietlyKeeps
<1>12. QED
  BY <1>1, <1>8, <1>9, <1>10, <1>11

LEMMA StartsKeepSeeds ==
    ASSUME ShapeInv, SeedInv, NEW c \in Cmds, NEW pc \in Submitted, NEW seeding \in BOOLEAN,
           Starts(c, pc, seeding)
    PROVE  SeedsKept
<1>1. /\ Executing(c)' /\ Same(c) /\ cmd'[c].pc = pc /\ (cmd'[c].seeding <=> seeding)
      /\ \A d \in Cmds : d # c => cmd'[d] = cmd[d]
  BY StartsWork
<1>2. /\ cmd[c].pc = "ready" /\ UNCHANGED <<live, binding, session, conn, backend>>
      /\ pc \in {"startup", "prepare", "submit"}
      /\ seeding <=> /\ cmd[c].profile \in Startup
                     /\ \/ cmd[c].kind \in {"file", "reset"}
                        \/ cmd[c].kind = "selection" /\ backend[cmd[c].backend].pending
  BY DEF Starts
<1>3. HoldsLive(c)'
  BY <1>1, <1>2 DEF SeedInv, HoldsLive, Held, Same, Submitted
<1>4. Seeds(c)'
  <2>1. /\ cmd[c].backend \in Backends /\ backend[cmd[c].backend] # None
        /\ ProfileOf(cmd[c].backend) = cmd[c].profile
        /\ backend[cmd[c].backend].conn = cmd[c].conn
    BY <1>2, HeldHas
  <2>2. Due(cmd[c].backend)
    BY <2>1 DEF SeedInv
  <2>3. IsRun(c) /\ cmd[c].profile \in Startup /\ ~seeding =>
           session[conn[cmd[c].conn].session].seeded
    BY <1>2, <2>1, <2>2 DEF Due, IsRun
  <2>4. cmd'[c].pc \notin Ran
    BY <1>1, <1>2 DEF Ran
  <2>5. IsRun(c)' = IsRun(c)
    BY <1>1 DEF IsRun, Same
  <2>6. QED
    BY <1>1, <1>2, <2>3, <2>4, <2>5 DEF Seeds, Same
<1>5. \A d \in Cmds : d # c => HoldsLive(d)' /\ KeepsSeeds(d)
  BY <1>1, <1>2, UnmovedKeepsSeeds
<1>6. QED
  BY <1>2, <1>3, <1>4, <1>5, QuietlyKeeps

LEMMA AdvancesKeepSeeds ==
    ASSUME ShapeInv, ShapeInv', SeedInv, NEW c \in Cmds, NEW pc \in Submitted,
           Advances(c), GoesOn(c, pc)
    PROVE  SeedsKept
<1>0. PICK b \in Backends, s \in Sessions :
         b = cmd[c].backend /\ s = conn[cmd[c].conn].session
  BY ExecutingHas DEF GoesOn, SessionOf
<1>1. /\ cmd[c] \in Cmd /\ cmd \in [Cmds -> Cmd] /\ b \in Backends /\ backend[b] # None
      /\ backend[b] \in Backend /\ backend[b].conn = cmd[c].conn
      /\ ProfileOf(b) = cmd[c].profile /\ SessionOf(c) = s /\ s \in Sessions
      /\ Executing(c)
  BY <1>0, ExecutingHas DEF GoesOn, SessionOf
<1>2. /\ cmd'[c].pc = pc /\ Same(c) /\ cmd'[c].seeding = cmd[c].seeding
      /\ cmd'[c].backend = b
      /\ \A d \in Cmds : d # c => cmd'[d] = cmd[d]
      /\ UNCHANGED <<live, binding, conn>> /\ Marks(b)
  BY <1>0, <1>1 DEF GoesOn, Cmd, Same, manager
<1>3. HoldsLive(c)'
  BY <1>1, <1>2 DEF SeedInv, HoldsLive, Held, Same, Submitted, Executing
<1>4. \A d \in Cmds : d # c => HoldsLive(d)' /\ KeepsSeeds(d)
  BY <1>2, UnmovedKeepsSeeds
<1>5. Seeds(c) /\ IsRun(c)' = IsRun(c)
  BY <1>2 DEF SeedInv, IsRun, Same
<1>6. backend \in [Backends -> Backend \cup {None}] /\ session \in [Sessions -> Session]
  BY DEF ShapeInv, TypeOK
<1>7. ASSUME pc \in Ran => cmd[c].pc \in Ran PROVE KeepsSeeds(c)
  BY <1>1, <1>2, <1>7 DEF KeepsSeeds
<1>8. ASSUME UNCHANGED backend \/ backend' = [backend EXCEPT ![b].uploaded = TRUE]
      PROVE  \A a \in Backends : backend'[a] # None =>
                backend[a] # None /\ (backend'[a].pending <=> backend[a].pending)
  <2>1. CASE UNCHANGED backend
    BY <2>1
  <2>2. CASE backend' = [backend EXCEPT ![b].uploaded = TRUE]
    <3>1. backend'[b] = [backend[b] EXCEPT !.uploaded = TRUE]
      BY <1>1, <1>6, <2>2
    <3>2. backend'[b].pending = backend[b].pending
      BY <1>1, <3>1 DEF Backend
    <3>3. QED
      BY <1>1, <1>2, <3>2, MarkedKeeps
  <2>3. QED
    BY <1>8, <2>1, <2>2
<1>9. ASSUME SnippetUploaded(c) \/ Prepared(c) \/ JobEnded(c) PROVE SeedsKept
  <2>1. UNCHANGED backend \/ backend' = [backend EXCEPT ![b].uploaded = TRUE]
    BY <1>0, <1>9 DEF SnippetUploaded, Prepared, JobEnded
  <2>2. UNCHANGED session
    BY <1>9 DEF SnippetUploaded, Prepared, JobEnded
  <2>3. pc \in Ran => cmd[c].pc \in Ran
    <3>1. \/ \E at \in {"prepare", "submit"} :
                cmd' = [cmd EXCEPT ![c] = [cmd[c] EXCEPT !.pc = at]]
          \/ cmd[c].pc = "stream"
      <4>1. AfterStartup(c) \in {"prepare", "submit"}
        BY DEF AfterStartup
      <4>2. SnippetUploaded(c) => cmd' = [cmd EXCEPT ![c] = [cmd[c] EXCEPT !.pc = AfterStartup(c)]]
        BY DEF SnippetUploaded, Goes
      <4>3. Prepared(c) => cmd' = [cmd EXCEPT ![c] = [cmd[c] EXCEPT !.pc = "submit"]]
        BY DEF Prepared, Goes
      <4>4. JobEnded(c) => cmd[c].pc = "stream"
        BY DEF JobEnded
      <4>5. QED
        BY <1>9, <4>1, <4>2, <4>3, <4>4
    <3>2. QED
      BY <1>1, <1>2, <3>1 DEF Ran, Cmd
  <2>4. QED
    BY <1>2, <1>3, <1>4, <1>7, <1>8, <2>1, <2>2, <2>3, QuietlyKeeps
<1>10. ASSUME StatusRead(c) PROVE SeedsKept
  <2>1. cmd[c].pc = "syscc" /\ UNCHANGED session
    BY <1>10 DEF StatusRead
  <2>2. KeepsSeeds(c)
    BY <1>7, <2>1 DEF Ran
  <2>3. CASE cmd[c].seeding
    <3>1. backend' = [backend EXCEPT ![b].pending = FALSE]
      BY <1>0, <1>10, <2>3 DEF StatusRead
    <3>2. \A a \in Backends : a # b => backend'[a] = backend[a]
      BY <3>1, <1>6
    <3>3. Due(b)'
      <4>1. session[s].seeded
        BY <1>0, <1>1, <1>5, <2>1, <2>3 DEF Seeds, Ran
      <4>2. backend'[b].conn = cmd[c].conn
        BY <1>1, <1>2 DEF Marks
      <4>3. QED
        BY <1>0, <1>2, <2>1, <4>1, <4>2 DEF Due
    <3>4. QED
      BY <1>2, <1>3, <1>4, <2>1, <2>2, <3>2, <3>3, QuietlyKeeps
  <2>4. CASE ~cmd[c].seeding
    <3>1. UNCHANGED backend
      BY <1>10, <2>4 DEF StatusRead
    <3>2. QED
      BY <1>2, <1>3, <1>4, <1>8, <2>1, <2>2, <3>1, QuietlyKeeps
  <2>5. QED
    BY <2>3, <2>4
<1>11. ASSUME JobCreated(c) PROVE SeedsKept
  <2> DEFINE bare == /\ IsRun(c) /\ ~cmd[c].seeding /\ ~session[s].seeded
                     /\ ProfileOf(b) \in Startup
             seeded == session[s].seeded \/ cmd[c].seeding
             wild == session[s].bare \/ bare
  <2>1. session' = [session EXCEPT ![s].seeded = seeded, ![s].bare = wild] /\ UNCHANGED backend
    BY <1>0, <1>1, <1>11 DEF JobCreated
  <2>2. seeded \in BOOLEAN /\ wild \in BOOLEAN
    BY <1>1, <1>6 DEF Cmd, Session
  <2>3. ~bare
    BY <1>0, <1>1, <1>5 DEF Seeds
  <2>4. (session[s].seeded => seeded) /\ (wild => session[s].bare)
    BY <2>3
  <2>5. cmd[c].seeding => seeded
    OBVIOUS
  <2>6. ~cmd[c].seeding /\ IsRun(c) /\ cmd[c].profile \in Startup => seeded
    BY <1>0, <1>1, <1>5 DEF Seeds
  <2> HIDE DEF bare, seeded, wild
  <2>7. /\ session'[s].state = session[s].state
        /\ (session'[s].seeded <=> seeded) /\ (session'[s].bare <=> wild)
        /\ \A a \in Sessions : a # s => session'[a] = session[a]
    BY <1>1, <1>6, <2>1, <2>2 DEF Session
  <2>8. \A a \in Sessions : /\ session'[a].state \in {session[a].state, "gone"}
                            /\ session[a].seeded => session'[a].seeded
                            /\ session'[a].bare => session[a].bare
    BY <2>4, <2>7
  <2>9. Seeds(c)'
    <3>1. conn'[cmd'[c].conn].session = s
      BY <1>0, <1>2 DEF Same
    <3>2. QED
      BY <1>2, <1>5, <2>5, <2>6, <2>7, <3>1 DEF Seeds, Same
  <2>10. QED
    BY <1>2, <1>3, <1>4, <2>1, <2>8, <2>9 DEF SeedsKept
<1>12. QED
  BY <1>9, <1>10, <1>11 DEF Advances

(* A session found gone was the one its profile has, and nobody else of    *)
(* the profile holds its connection.                                       *)
LEMMA SettlesKeepSeeds ==
    ASSUME Mishaps \subseteq {"overlap", "switch"}, ShapeInv, SeedInv, ClaimFits,
           NEW c \in Cmds, NEW outcome \in Outcomes, Settles(c, outcome)
    PROVE  SeedsKept
<1> DEFINE p == cmd[c].profile
<1>1. /\ Executing(c) /\ ~Executing(c)' /\ cmd'[c].pc = "told"
      /\ \A d \in Cmds : d # c => cmd'[d] = cmd[d]
  BY SettlesWork
<1>2. /\ p \in Profiles /\ backend[cmd[c].backend].conn = cmd[c].conn
      /\ live[p] = cmd[c].conn /\ cmd[c].conn \in Conns
  BY <1>1, ExecutingHas DEF SeedInv, HoldsLive, Held, Executing
<1>3. /\ UNCHANGED <<binding, session, conn, backend>> /\ Quiet
      /\ \/ UNCHANGED live
         \/ /\ live' = [live EXCEPT ![p] = None]
            /\ session[SessionOf(c)].state = "gone"
  BY DEF Settles
<1>4. HoldsLive(c)' /\ KeepsSeeds(c)
  BY <1>1 DEF HoldsLive, Held, Submitted, KeepsSeeds
<1>5. CASE UNCHANGED live
  BY <1>1, <1>3, <1>4, <1>5, UnmovedKeepsSeeds, QuietlyKeeps
<1>6. CASE live' = [live EXCEPT ![p] = None] /\ session[SessionOf(c)].state = "gone"
  <2>1. binding[p] = SessionOf(c)
    BY <1>2, RunWindowAssumption DEF SeedInv, LiveIsBound, SessionOf
  <2>2. \A q \in Profiles : \/ live'[q] = live[q]
                            \/ live'[q] = None /\ session[binding[q]].state = "gone"
    BY <1>6, <2>1 DEF ShapeInv, TypeOK
  <2>3. ASSUME NEW d \in Cmds, d # c PROVE HoldsLive(d)' /\ KeepsSeeds(d)
    <3>1. cmd[d].pc \in Held => Executing(d)
      BY <1>3 DEF Held, Quiet, Microtasks, Executing
    <3>2. cmd[d].pc \in Held => cmd[d].profile # p /\ cmd[d].profile \in Profiles
      BY <1>1, <2>3, <3>1, ExecutingHas DEF ClaimFits
    <3>3. cmd[d].pc \in Held => live'[cmd[d].profile] = live[cmd[d].profile]
      BY <1>6, <3>2 DEF ShapeInv, TypeOK
    <3>4. QED
      BY <1>1, <2>3, <3>3, UnmovedKeepsSeeds
  <2>4. QED
    BY <1>3, <1>4, <2>2, <2>3 DEF SeedsKept
<1>7. QED
  BY <1>3, <1>5, <1>6

(* A connection comes up when the session its profile remembers is gone:   *)
(* it is to a session that nobody remembers, created for it.               *)
LEMMA ConnectsSeeds ==
    ASSUME ShapeInv, SeedInv, NEW p \in Profiles, Connects(p)
    PROVE  SeedInv'
<1>1. PICK k \in Conns, s \in Sessions, created \in BOOLEAN : ConnectsTo(p, k, s, created)
  BY ConnectsMakes
<1>2. /\ live \in [Profiles -> Conns \cup {None}] /\ binding \in [Profiles -> Sessions \cup {None}]
      /\ session \in [Sessions -> Session] /\ conn \in [Conns -> Connection \cup {None}]
      /\ k # None /\ s # None
  BY RunWindowAssumption DEF ShapeInv, TypeOK
<1>3. /\ conn[k] = None /\ live[p] = None /\ UNCHANGED backend
      /\ conn' = [conn EXCEPT ![k] = [profile |-> p, session |-> s, created |-> created]]
      /\ live' = [live EXCEPT ![p] = k] /\ binding' = [binding EXCEPT ![p] = s]
      /\ session' = [session EXCEPT ![s].state = "alive"]
  BY <1>1 DEF ConnectsTo
<1>4. created /\ session[s].state = "unused"
  <2>1. ~(binding[p] # None /\ session[binding[p]].state = "alive")
    BY <1>3 DEF SeedInv, LeftIsGone
  <2>2. QED
    BY <1>1, <2>1 DEF ConnectsTo
<1>5. /\ session'[s].state = "alive"
      /\ session'[s].seeded = session[s].seeded /\ session'[s].bare = session[s].bare
      /\ \A a \in Sessions : a # s => session'[a] = session[a]
  <2>1. session'[s] = [session[s] EXCEPT !.state = "alive"] /\ session[s] \in Session
    BY <1>2, <1>3
  <2>2. \A a \in Sessions : a # s => session'[a] = session[a]
    BY <1>2, <1>3
  <2>3. QED
    BY <2>1, <2>2 DEF Session
<1>6. /\ conn'[k].session = s /\ conn'[k].created /\ conn'[k].profile = p
      /\ \A j \in Conns : j # k => conn'[j] = conn[j]
  BY <1>2, <1>3, <1>4
<1>7. \A q \in Profiles : q # p => live'[q] = live[q] /\ binding'[q] = binding[q]
  BY <1>2, <1>3
<1>8. live'[p] = k /\ binding'[p] = s
  BY <1>2, <1>3
<1>9. BoundIsUsed' /\ LeftIsGone'
  <2>1. ASSUME NEW q \in Profiles, binding'[q] # None
        PROVE  /\ session'[binding'[q]].state # "unused"
               /\ live'[q] = None => session'[binding'[q]].state # "alive"
    <3>1. CASE q = p
      BY <1>2, <1>5, <1>8, <3>1
    <3>2. CASE q # p
      <4>1. /\ binding[q] \in Sessions /\ session[binding[q]].state # "unused"
            /\ live[q] = None => session[binding[q]].state # "alive"
        BY <1>2, <1>7, <2>1, <3>2 DEF SeedInv, BoundIsUsed, LeftIsGone
      <4>2. session'[binding[q]] = session[binding[q]]
        BY <1>4, <1>5, <4>1
      <4>3. QED
        BY <1>7, <3>2, <4>1, <4>2
    <3>3. QED
      BY <3>1, <3>2
  <2>2. QED
    BY <2>1 DEF BoundIsUsed, LeftIsGone
<1>10. LiveIsBound'
  <2>1. ASSUME NEW q \in Profiles, live'[q] # None
        PROVE  binding'[q] = conn'[live'[q]].session
    <3>1. CASE q = p
      BY <1>6, <1>8, <3>1
    <3>2. CASE q # p
      <4>1. /\ live[q] # None /\ live[q] \in Conns /\ conn[live[q]] # None
            /\ binding[q] = conn[live[q]].session
        BY <1>2, <1>7, <2>1, <3>2 DEF SeedInv, LiveIsBound, ShapeInv, Made
      <4>2. QED
        BY <1>3, <1>6, <1>7, <3>2, <4>1
    <3>3. QED
      BY <3>1, <3>2
  <2>2. QED
    BY <2>1 DEF LiveIsBound
<1>11. AllCreated'
  BY <1>6 DEF SeedInv, AllCreated
<1>12. SnippetFirst'
  BY <1>5 DEF SeedInv, SnippetFirst
<1>13. \A a \in Sessions : session'[a].seeded = session[a].seeded
  BY <1>5
<1>14. ASSUME NEW d \in Cmds PROVE HoldsLive(d)' /\ Seeds(d)'
  <2>1. cmd[d] \in Cmd /\ HoldsLive(d) /\ Seeds(d)
    BY DEF ShapeInv, TypeOK, SeedInv
  <2>2. CASE cmd'[d] = cmd[d]
    <3>1. cmd[d].pc \in Held => /\ cmd[d].conn \in Conns /\ conn[cmd[d].conn] # None
                                /\ cmd[d].profile \in Profiles
      BY GotHas DEF Held
    <3>2. cmd[d].pc \in Held => cmd[d].profile # p /\ cmd[d].conn # k
      BY <1>2, <1>3, <2>1, <3>1, RunWindowAssumption DEF HoldsLive
    <3>3. HoldsLive(d)'
      BY <1>7, <2>1, <2>2, <3>1, <3>2 DEF HoldsLive
    <3>4. Seeds(d)'
      <4>1. CASE Executing(d)
        <5>1. /\ conn'[cmd[d].conn] = conn[cmd[d].conn]
              /\ conn[cmd[d].conn].session \in Sessions
          BY <1>6, <3>1, <3>2, <4>1, ExecutingHas DEF Held, Executing, Connection
        <5>2. QED
          BY <1>13, <2>1, <2>2, <4>1, <5>1 DEF Seeds, IsRun
      <4>2. CASE ~Executing(d)
        BY <2>2, <4>2 DEF Seeds, Executing
      <4>3. QED
        BY <4>1, <4>2
    <3>5. QED
      BY <3>3, <3>4
  <2>3. CASE /\ cmd[d].profile = p
             /\ cmd'[d] = [cmd[d] EXCEPT !.pc = "got", !.conn = k]
    <3>1. cmd'[d].pc = "got" /\ cmd'[d].conn = k /\ cmd'[d].profile = p
      BY <2>1, <2>3 DEF Cmd
    <3>2. QED
      BY <1>8, <3>1 DEF HoldsLive, Seeds, Executing, Submitted
  <2>4. QED
    BY <1>1, <2>2, <2>3 DEF ConnectsTo
<1>15. ASSUME NEW b \in Backends PROVE Due(b)'
  <2>1. CASE backend[b] # None
    <3>1. /\ backend[b].conn \in Conns /\ conn[backend[b].conn] # None
          /\ conn[backend[b].conn].session \in Sessions /\ Due(b)
      BY <2>1, MadeHas DEF Connection, SeedInv
    <3>2. conn'[backend[b].conn] = conn[backend[b].conn]
      BY <1>3, <1>6, <3>1
    <3>3. QED
      BY <1>3, <1>13, <2>1, <3>1, <3>2 DEF Due, ProfileOf
  <2>2. CASE backend[b] = None
    BY <1>3, <2>2 DEF Due
  <2>3. QED
    BY <2>1, <2>2
<1>16. QED
  BY <1>9, <1>10, <1>11, <1>12, <1>14, <1>15 DEF SeedInv

LEMMA SeedsHold ==
    ASSUME Mishaps \subseteq {"overlap", "switch"}
    PROVE  Spec => [](ClaimFits /\ SeedInv)
<1> DEFINE Inv == ClaimFits /\ SeedInv
<1>1. Init => Inv
  <2> SUFFICES ASSUME Init PROVE Inv
    OBVIOUS
  <2>1. \A c \in Cmds : cmd[c].pc = "idle" /\ ~Executing(c)
    BY InitIdle
  <2>2. ClaimFits
    BY <2>1 DEF Init, ClaimFits
  <2>3. \A c \in Cmds : HoldsLive(c) /\ Seeds(c)
    BY <2>1 DEF HoldsLive, Held, Submitted, Seeds
  <2>4. /\ \A b \in Backends : backend[b] = None
        /\ \A k \in Conns : conn[k] = None
        /\ \A p \in Profiles : binding[p] = None /\ live[p] = None
        /\ \A s \in Sessions : ~session[s].bare
    BY DEF Init
  <2>5. QED
    BY <2>2, <2>3, <2>4 DEF SeedInv, BoundIsUsed, LeftIsGone, LiveIsBound, AllCreated,
       SnippetFirst, Due
<1>2. ASSUME ShapeInv, Inv, [Next]_vars PROVE Inv'
  <2>1. ShapeInv' /\ Grown /\ ClaimFits'
    BY <1>2, ShapeStep, GrownStep, ClaimStep
  <2>2. CASE \E p \in Profiles : Connects(p)
    BY <1>2, <2>1, <2>2, ConnectsSeeds
  <2>3. CASE Outside /\ ~\E p \in Profiles : Connects(p)
    BY <1>2, <2>1, <2>3, SurroundingsKeepSeeds, CommandsKeepSeeds, SeedsKeptStep DEF Outside
  <2>4. CASE BackendFor
    BY <1>2, <2>1, <2>4, BackendForKeepsSeeds, SeedsKeptStep
  <2>5. CASE Submits
    BY <1>2, <2>1, <2>5, StartsKeepSeeds, AdvancesKeepSeeds, SettlesKeepSeeds,
       SeedsKeptStep DEF Submits
  <2>6. QED
    BY <1>2, <2>2, <2>3, <2>4, <2>5, StepKinds
<1>3. QED
  BY <1>1, <1>2, ShapeHolds, PTL DEF Spec

(* While a connection is forgotten only because its session is gone - no   *)
(* sign-out, no disconnect under a command, no failure mistaken for a lost *)
(* session - no run reaches an interpreter that has not had its profile's  *)
(* snippet, however commands overlap and profiles are switched.            *)
THEOREM SnippetComesFirst ==
    ASSUME Mishaps \subseteq {"overlap", "switch"}
    PROVE  Spec => []SnippetFirst
<1>1. SeedInv => SnippetFirst
  BY DEF SeedInv
<1>2. QED
  BY <1>1, SeedsHold, PTL

(* Under the same surroundings a command that forgets a connection forgets *)
(* one whose session is gone: what it forgets, by profile, is its own.     *)
THEOREM ForgetsTheGone ==
    ASSUME Mishaps \subseteq {"overlap", "switch"}
    PROVE  Spec => ForgetsOnlyGone
<1> DEFINE Gone == \A c \in Cmds, p \in Profiles :
                      Executing(c) /\ cmd'[c].pc = "told" /\ live'[p] # live[p]
                         => session[conn[live[p]].session].state = "gone"
<1>1. ASSUME ShapeInv, SeedInv, [Next]_vars PROVE Gone
  <2> SUFFICES ASSUME NEW c \in Cmds, NEW p \in Profiles,
                      Executing(c), cmd'[c].pc = "told", live'[p] # live[p]
               PROVE  session[conn[live[p]].session].state = "gone"
    OBVIOUS
  <2>1. ~Executing(c)'
    BY DEF Executing, Submitted
  <2>2. PICK outcome \in Outcomes : Settles(c, outcome)
    <3>1. ~WorkKept
      BY <2>1 DEF WorkKept
    <3>2. ASSUME NEW d \in Cmds, NEW pc \in Submitted, NEW seeding \in BOOLEAN,
                 Starts(d, pc, seeding)
          PROVE  FALSE
      BY <1>1, <2>1, <3>2, StartsWork DEF Executing
    <3>3. ASSUME NEW d \in Cmds, NEW outcome \in Outcomes, Settles(d, outcome) PROVE d = c
      BY <1>1, <2>1, <3>3, SettlesWork DEF Executing
    <3>4. QED
      BY <1>1, <3>1, <3>2, <3>3, StepWork
  <2>3. p = cmd[c].profile /\ session[SessionOf(c)].state = "gone"
    BY <1>1, <2>2 DEF Settles, ShapeInv, TypeOK
  <2>4. live[p] = cmd[c].conn /\ backend[cmd[c].backend].conn = cmd[c].conn
    BY <1>1, <2>3, ExecutingHas DEF SeedInv, HoldsLive, Held, Executing
  <2>5. QED
    BY <2>3, <2>4 DEF SessionOf
<1>2. ShapeInv /\ SeedInv /\ [Next]_vars => [Gone]_vars
  BY <1>1
<1>3. QED
  BY <1>2, SeedsHold, ShapeHolds, PTL DEF Spec, ForgetsOnlyGone
=============================================================================
