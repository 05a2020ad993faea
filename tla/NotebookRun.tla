---------------------------- MODULE NotebookRun ----------------------------
(***************************************************************************)
(* Running notebook cells (src/notebook/notebookController.ts): calls of   *)
(* the execute handler, each with cells of one notebook, the interrupt     *)
(* handler, and what they share, one slot for the current run and one      *)
(* backend per connection of a profile.  The life of a backend is          *)
(* RunWindow's: here it is the run it has, if any.  Left out: which of two *)
(* texts a cell without output shows after a while.                        *)
(***************************************************************************)
EXTENDS Naturals

CONSTANTS
    Notebooks,
    CellNumbers,    \* the cells of each notebook, in their order
    NbProfiles,     \* profiles
    NbCalls,        \* slots for calls of executeHandler
    MaxConnections, \* bound on the reconnects of each profile
    MayMeet,        \* what may happen while something else is under way
    Absent          \* "undefined"

(* "switch": the active profile changes while a call is under way;         *)
(* "drain": a cell is started while another, whose run is over, still      *)
(* writes its output; "problems": a cell that raised has an entry in the   *)
(* Problems panel (without it none is kept, which only bounds the states). *)
ASSUME NotebookAssumption ==
    /\ CellNumbers \subseteq Nat
    /\ MaxConnections \in Nat
    /\ Absent \notin NbCalls \cup NbProfiles \cup Notebooks
    /\ MayMeet \subseteq {"switch", "drain", "problems"}

VARIABLES
    nbActive,       \* the active profile
    connections,    \* per profile, the number of the backend in the cache
    runs,           \* the run of each backend
    open,           \* the notebooks that are open
    calls,          \* the state of each call
    slot,           \* currentRun: the call whose run it names
    unended,        \* the cells VS Code shows as executing
    problems        \* the cells with an entry in the Problems panel

nbVars == <<nbActive, connections, runs, open, calls, slot, unended,
           problems>>

-----------------------------------------------------------------------------
Cells == Notebooks \X CellNumbers
NbBackends == NbProfiles \X (0 .. MaxConnections)

NbOutcomes == {"succeeded", "raised", "cancelled", "failed"}
Call == [pc : {"idle", "connecting", "streaming", "draining", "refused"},
         notebook : Notebooks \cup {Absent},
         cell : CellNumbers \cup {0},
         left : SUBSET CellNumbers,         \* the cells behind it
         backend : NbBackends \cup {Absent},
         told : Notebooks \cup {Absent},    \* history: who asked to cancel
         outcome : NbOutcomes \cup {Absent}]
IdleCall == [pc |-> "idle", notebook |-> Absent, cell |-> 0, left |-> {},
             backend |-> Absent, told |-> Absent,
             outcome |-> Absent]

CellOf(c) == <<calls[c].notebook, calls[c].cell>>
Running(c) == calls[c].pc = "streaming"
Reads(c) == calls[c].pc \in {"streaming", "draining"}
NextCell(cells) == CHOOSE k \in cells : \A j \in cells : k <= j
Current(p) == <<p, connections[p]>>

NbInit ==
    /\ nbActive \in NbProfiles
    /\ connections = [p \in NbProfiles |-> 0]
    /\ runs = [b \in NbBackends |-> Absent]
    /\ open = Notebooks
    /\ calls = [c \in NbCalls |-> IdleCall]
    /\ slot = Absent
    /\ unended = {}
    /\ problems = {}

-----------------------------------------------------------------------------
(* The execute handler                                                     *)

(* Fault: only the first cell of a call is held against a closed notebook. *)
MayStartBlindly(n) == TRUE

MayStart(n) == n \in open

(* The loop of executeHandler up to the first await of the next cell: it   *)
(* ends when none is left, or when the notebook has been closed.           *)
Proceeds(c, call, others) ==
    IF call.left = {} \/ ~MayStart(call.notebook)
    THEN /\ calls' = [calls EXCEPT ![c] = IdleCall]
         /\ unended' = others
    ELSE LET k == NextCell(call.left) IN
         /\ calls' = [calls EXCEPT ![c] = [IdleCall EXCEPT
                !.pc = "connecting", !.notebook = call.notebook,
                !.cell = k, !.left = call.left \ {k}]]
         /\ unended' = others \cup {<<call.notebook, k>>}

(* VS Code asks for cells of an open notebook that it is not executing.    *)
Execute(c) ==
    /\ calls[c].pc = "idle"
    /\ \E n \in open, cells \in SUBSET CellNumbers :
         /\ cells # {}
         /\ \A k \in cells : <<n, k>> \notin unended
         /\ \A d \in NbCalls : calls[d].notebook = n => calls[d].left \cap cells = {}
         /\ Proceeds(c, [notebook |-> n, left |-> cells], unended)
    /\ UNCHANGED <<nbActive, connections, runs, open, slot, problems>>

(* executeCell's finally: the cell is ended, then the next one begins.     *)
EndsCell(c) == Proceeds(c, calls[c], unended \ {CellOf(c)})

(* Fault: a rejected output call leaves the cell as it is.                 *)
ThrowsUnended(c) ==
    calls' = [calls EXCEPT ![c] = IdleCall] /\ UNCHANGED unended

(* An output call of VS Code rejects: the cell is ended, and the call,     *)
(* with the cells behind, is over.  The run goes on unread.                *)
Throws(c) ==
    /\ calls' = [calls EXCEPT ![c] = IdleCall]
    /\ unended' = unended \ {CellOf(c)}

NotConnected(c) ==
    /\ calls[c].pc = "connecting"
    /\ EndsCell(c)
    /\ UNCHANGED <<nbActive, connections, runs, open, slot, problems>>

(* Fault: the cell goes to a backend that has a run.                       *)
NbBusyNever(p) == FALSE

(* ProcPythonBackend.busy: the claim is the profile's.                     *)
NbBusy(p) == \E n \in 0 .. MaxConnections : runs[<<p, n>>] # Absent

(* runCell from the connection to the first await on the outputs.          *)
Drains(p) ==
    \E d \in NbCalls : calls[d].pc = "draining" /\ calls[d].backend[1] = p
Connected(c) ==
    /\ calls[c].pc = "connecting"
    /\ LET b == Current(nbActive) IN
       IF NbBusy(nbActive)
       THEN /\ calls' = [calls EXCEPT ![c].pc = "refused"]
            /\ UNCHANGED <<runs, slot, problems>>
       ELSE /\ Drains(nbActive) => "drain" \in MayMeet
            /\ runs' = [runs EXCEPT ![b] = c]
            /\ calls' = [calls EXCEPT ![c].pc = "streaming", ![c].backend = b]
            /\ slot' = c
            /\ problems' = problems \ {CellOf(c)}
    /\ UNCHANGED <<nbActive, connections, open, unended>>

(* The message has been shown in the cell.                                 *)
RefusedCell(c) ==
    /\ calls[c].pc = "refused"
    /\ EndsCell(c)
    /\ UNCHANGED <<nbActive, connections, runs, open, slot, problems>>

(* The backend's run is over, while its output may still wait to be read.  *)
RunEnds(b) ==
    /\ runs[b] # Absent
    /\ runs' = [runs EXCEPT ![b] = Absent]
    /\ LET c == runs[b] IN
       IF Running(c) /\ calls[c].backend = b
       THEN \E outcome \in IF calls[c].told # Absent THEN {"cancelled"} ELSE NbOutcomes :
              calls' = [calls EXCEPT ![c].pc = "draining", ![c].outcome = outcome]
       ELSE UNCHANGED calls
    /\ UNCHANGED <<nbActive, connections, open, slot, unended, problems>>

Publishes(c) ==
    IF "problems" \in MayMeet /\ calls[c].outcome = "raised"
    THEN problems \cup {CellOf(c)} ELSE problems

(* The rest of runCell, once the outputs are read and the run has settled. *)
SettlesCell(c) ==
    /\ calls[c].pc = "draining"
    /\ problems' = Publishes(c)
    /\ slot' = Absent
    /\ EndsCell(c)
    /\ UNCHANGED <<nbActive, connections, runs, open>>

OutputRejected(c) ==
    /\ Reads(c)
    /\ slot' = Absent
    /\ Throws(c)
    /\ UNCHANGED <<nbActive, connections, runs, open, problems>>

-----------------------------------------------------------------------------
(* Interrupting, and the surroundings                                      *)

(* Fault: whatever runs is cancelled, whoever asked.                       *)
HitsAny(n) == slot # Absent

Hits(n) == slot # Absent /\ calls[slot].notebook = n

Interrupt(n) ==
    /\ Hits(n) /\ Running(slot)
    /\ calls' = [calls EXCEPT ![slot].told = n]
    /\ UNCHANGED <<nbActive, connections, runs, open, slot, unended,
                   problems>>

(* handleNotebookClosed; the cell that runs goes on.                       *)
CloseNotebook(n) ==
    /\ n \in open
    /\ open' = open \ {n}
    /\ problems' = problems \ ({n} \X CellNumbers)
    /\ UNCHANGED <<nbActive, connections, runs, calls, slot, unended>>

(* Opened again, its cells have the same addresses as before.              *)
OpenNotebook(n) ==
    /\ n \notin open
    /\ \A k \in CellNumbers : <<n, k>> \notin unended
    /\ open' = open \cup {n}
    /\ UNCHANGED <<nbActive, connections, runs, calls, slot, unended,
                   problems>>

SwitchesActive ==
    /\ "switch" \in MayMeet \/ \A c \in NbCalls : calls[c].pc = "idle"
    /\ \E p \in NbProfiles \ {nbActive} : nbActive' = p
    /\ UNCHANGED <<connections, runs, open, calls, slot, unended, problems>>

(* A new connection has a backend of its own; the run of the former may    *)
(* settle as cancelled.                                                    *)
Reconnects(p) ==
    /\ connections[p] < MaxConnections
    /\ connections' = [connections EXCEPT ![p] = @ + 1]
    /\ UNCHANGED <<nbActive, runs, open, calls, slot, unended, problems>>

CallStep(c) ==
    \/ Execute(c) \/ NotConnected(c) \/ Connected(c) \/ RefusedCell(c)
    \/ SettlesCell(c) \/ OutputRejected(c)

NbNext ==
    \/ \E c \in NbCalls : CallStep(c)
    \/ \E b \in NbBackends : RunEnds(b)
    \/ \E n \in Notebooks : Interrupt(n) \/ CloseNotebook(n) \/ OpenNotebook(n)
    \/ \E p \in NbProfiles : Reconnects(p)
    \/ SwitchesActive

NbSpec == NbInit /\ [][NbNext]_nbVars
-----------------------------------------------------------------------------
(* Properties                                                              *)

(* Every variable has its type.                                            *)
NbTypeOK ==
    /\ nbActive \in NbProfiles
    /\ connections \in [NbProfiles -> 0 .. MaxConnections]
    /\ runs \in [NbBackends -> NbCalls \cup {Absent}]
    /\ open \subseteq Notebooks
    /\ calls \in [NbCalls -> Call]
    /\ slot \in NbCalls \cup {Absent}
    /\ unended \subseteq Cells
    /\ problems \subseteq Cells

(* The cells shown as executing are those a call is at: VS Code refuses an *)
(* execution of a cell whose last one was not ended, in a reopened         *)
(* notebook too, so each that was started is ended on every way out.       *)
StartedIsEnded ==
    unended = {CellOf(c) : c \in {d \in NbCalls : calls[d].pc # "idle"}}

(* No cell of a closed notebook is started: that call of VS Code throws.   *)
NothingStartsClosed ==
    [][\A cell \in unended' \ unended : cell[1] \in open]_nbVars

(* A run is cancelled for its own notebook only, although the slot that    *)
(* finds it is one for all of them.                                        *)
InterruptIsOwn ==
    \A c \in NbCalls : calls[c].told \in {Absent, calls[c].notebook}

(* A cell that runs on the backend can be interrupted: the slot names it.  *)
InterruptReaches ==
    \A c \in NbCalls : Running(c) => slot = c

(* A closed notebook has no entry in the Problems panel: opened again, its *)
(* cells have the same addresses, and the entry would stand against        *)
(* whichever cell is there now.                                            *)
ProblemsAreOfOpen ==
    \A cell \in problems : cell[1] \in open
=============================================================================
