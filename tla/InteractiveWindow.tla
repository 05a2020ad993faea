-------------------------- MODULE InteractiveWindow --------------------------
(***************************************************************************)
(* The interactive window (src/notebook/interactiveWindow.ts): commands    *)
(* that run a selection as a new cell of the one notebook they share,      *)
(* while the user closes it, edits it or chooses another kernel for it.    *)
(* `tracked', `creatingTracked', `pendingRun' and `selectedNotebooks' are  *)
(* the module's own variables; a command between two awaits is one step.   *)
(***************************************************************************)
EXTENDS Naturals, SequencesExt

CONSTANTS
    Selections,     \* commands that run a selection, each once
    MaxWindows,     \* bound on the notebooks opened
    TheUser,        \* who wrote a cell that no command wrote
    IwMayMeet       \* {"edits"}: the user adds cells while a command is at work

ASSUME InteractiveAssumption ==
    MaxWindows \in Nat /\ TheUser \notin Selections /\ IwMayMeet \subseteq {"edits"}

VARIABLES
    tracked,        \* the notebook the commands share, 0 for none
    creating,       \* creatingTracked: a notebook is being opened
    opened,         \* the notebooks opened so far
    closed,         \* those that are closed
    cells,          \* who wrote each cell of each notebook
    selected,       \* the notebooks the controller is selected for
    chain,          \* pendingRun: the commands that append, in turn
    commands,       \* the state of each command
    ran,            \* history: which cell each command had executed
    refused         \* history: the notebooks that took no edit

iwVars == <<tracked, creating, opened, closed, cells, selected, chain,
            commands, ran, refused>>

-----------------------------------------------------------------------------
IwWindows == 1 .. MaxWindows
Steps == {"idle", "creating", "revealing", "queued", "inserting", "waiting",
          "executing", "pausing", "done"}
CommandState == [pc : Steps, window : 0 .. MaxWindows, index : Nat, again : BOOLEAN]
IdleCommand == [pc |-> "idle", window |-> 0, index |-> 0, again |-> FALSE]

IwInit ==
    /\ tracked = 0 /\ creating = FALSE /\ opened = 0 /\ closed = {}
    /\ cells = [w \in IwWindows |-> <<>>]
    /\ selected = {} /\ chain = <<>> /\ ran = {} /\ refused = {}
    /\ commands = [s \in Selections |-> IdleCommand]

At(s, pc) == commands[s].pc = pc
IsOpen(w) == w \in (1 .. opened) \ closed

(* getOrCreateInteractiveWindow up to its await: the notebook at hand, or  *)
(* the one that is being opened, or a new one.                             *)
Obtains(s, command, track) ==
    IF track # 0 /\ IsOpen(track)
    THEN /\ commands' = [commands EXCEPT ![s] =
                [command EXCEPT !.pc = "revealing", !.window = track]]
         /\ UNCHANGED creating
    ELSE /\ commands' = [commands EXCEPT ![s] = [command EXCEPT !.pc = "creating"]]
         /\ creating' = TRUE

(* runSelectionInInteractiveWindow.                                        *)
RunSelection(s) ==
    /\ At(s, "idle")
    /\ Obtains(s, commands[s], tracked)
    /\ UNCHANGED <<tracked, opened, closed, cells, selected, chain, ran, refused>>

(* The notebook is there, for everyone who waits for it.                   *)
Created ==
    /\ creating /\ opened < MaxWindows
    /\ opened' = opened + 1
    /\ tracked' = opened'
    /\ creating' = FALSE
    /\ commands' = [s \in Selections |->
          IF At(s, "creating")
          THEN [commands[s] EXCEPT !.pc = "revealing", !.window = opened']
          ELSE commands[s]]
    /\ UNCHANGED <<closed, cells, selected, chain, ran, refused>>

(* The next one's turn comes as the first of the chain is over; who has    *)
(* not joined it leaves it as it is.                                       *)
NextTurn(gone) ==
    chain' = IF chain # <<>> /\ Head(chain) \in gone THEN Tail(chain) ELSE chain

(* A command is over.                                                      *)
Over(s) ==
    /\ commands' = [commands EXCEPT ![s].pc = "done"]
    /\ NextTurn({s})

NotCreated ==
    /\ creating
    /\ creating' = FALSE
    /\ commands' = [s \in Selections |->
          IF At(s, "creating") THEN [commands[s] EXCEPT !.pc = "done"] ELSE commands[s]]
    /\ NextTurn({s \in Selections : At(s, "creating")})
    /\ UNCHANGED <<tracked, opened, closed, cells, selected, ran, refused>>

(* Fault: a command does not wait for those before it.                     *)
MyTurnAlways(s) == TRUE

MyTurn(s) == Head(chain) = s

(* appendAndRunCell up to applyEdit: the cell is to be the last one.       *)
Insert(s) ==
    /\ At(s, "queued") /\ MyTurn(s)
    /\ commands' = [commands EXCEPT ![s].pc = "inserting",
                                    ![s].index = Len(cells[commands[s].window])]
    /\ UNCHANGED <<tracked, creating, opened, closed, cells, selected, chain,
                   ran, refused>>

(* The notebook is shown.  The command joins the chain, or goes on if it   *)
(* is in it.                                                               *)
Revealed(s) ==
    /\ At(s, "revealing")
    /\ LET c == commands[s] IN
       IF c.again
       THEN /\ commands' = [commands EXCEPT
                  ![s].pc = "inserting", ![s].index = Len(cells[c.window])]
            /\ UNCHANGED chain
       ELSE /\ commands' = [commands EXCEPT ![s].pc = "queued"]
            /\ chain' = Append(chain, s)
    /\ UNCHANGED <<tracked, creating, opened, closed, cells, selected, ran, refused>>

NotRevealed(s) ==
    /\ At(s, "revealing")
    /\ Over(s)
    /\ UNCHANGED <<tracked, creating, opened, closed, cells, selected, ran, refused>>

(* The edit is applied; a notebook the controller is known to be selected  *)
(* for need not be waited for.                                             *)
Inserted(s) ==
    LET c == commands[s] IN
    /\ At(s, "inserting") /\ IsOpen(c.window)
    /\ cells' = [cells EXCEPT ![c.window] = InsertAt(@, c.index + 1, s)]
    /\ commands' = [commands EXCEPT
          ![s].pc = IF c.window \in selected THEN "executing" ELSE "waiting"]
    /\ UNCHANGED <<tracked, creating, opened, closed, selected, chain, ran, refused>>

(* The edit is refused: the notebook is given up and another tried, once.  *)
NotInserted(s) ==
    LET c == commands[s]
        left == IF tracked = c.window THEN 0 ELSE tracked IN
    /\ At(s, "inserting")
    /\ refused' = refused \cup {c.window}
    /\ IF c.again
       THEN Over(s) /\ UNCHANGED <<tracked, creating>>
       ELSE /\ tracked' = left
            /\ Obtains(s, [c EXCEPT !.again = TRUE], left)
            /\ UNCHANGED chain
    /\ UNCHANGED <<opened, closed, cells, selected, ran>>

(* The controller is selected while the command listens, or the time is up.*)
Waited(s) ==
    /\ At(s, "waiting")
    /\ commands' = [commands EXCEPT ![s].pc = "executing"]
    /\ UNCHANGED <<tracked, creating, opened, closed, cells, selected, chain,
                   ran, refused>>

(* notebook.cell.execute of the cell at the index, if there is one.        *)
Executed(s) ==
    LET c == commands[s] IN
    /\ At(s, "executing") \/ At(s, "pausing")
    /\ IsOpen(c.window)
    /\ c.index < Len(cells[c.window])
    /\ ran' = ran \cup {<<s, cells[c.window][c.index + 1]>>}
    /\ Over(s)
    /\ UNCHANGED <<tracked, creating, opened, closed, cells, selected, refused>>

(* It rejects: half a second later it is tried once more.                  *)
NotExecuted(s) ==
    /\ \/ At(s, "executing") /\ commands' = [commands EXCEPT ![s].pc = "pausing"]
                             /\ UNCHANGED chain
       \/ At(s, "pausing") /\ Over(s)
    /\ UNCHANGED <<tracked, creating, opened, closed, cells, selected, ran, refused>>

-----------------------------------------------------------------------------
(* VS Code and the user                                                    *)

(* onDidChangeSelectedNotebooks.  A command that waits goes on at once.    *)
Selects(w) ==
    /\ IsOpen(w)
    /\ IF w \in selected
       THEN selected' = selected \ {w} /\ UNCHANGED commands
       ELSE /\ selected' = selected \cup {w}
            /\ commands' = [s \in Selections |->
                 IF At(s, "waiting") /\ commands[s].window = w
                 THEN [commands[s] EXCEPT !.pc = "executing"] ELSE commands[s]]
    /\ UNCHANGED <<tracked, creating, opened, closed, cells, chain, ran, refused>>

Closes(w) ==
    /\ IsOpen(w)
    /\ closed' = closed \cup {w}
    /\ selected' = selected \ {w}
    /\ UNCHANGED <<tracked, creating, opened, cells, chain, commands, ran, refused>>

(* The user adds a cell, anywhere.                                         *)
Edits(w) ==
    /\ IsOpen(w)
    /\ "edits" \in IwMayMeet \/ \A s \in Selections : commands[s].pc \in {"idle", "done"}
    /\ TheUser \notin {cells[w][k] : k \in 1 .. Len(cells[w])}
    /\ \E k \in 1 .. Len(cells[w]) + 1 :
          cells' = [cells EXCEPT ![w] = InsertAt(@, k, TheUser)]
    /\ UNCHANGED <<tracked, creating, opened, closed, selected, chain, commands,
                   ran, refused>>

SelectionStep(s) ==
    \/ RunSelection(s) \/ Revealed(s) \/ NotRevealed(s) \/ Insert(s)
    \/ Inserted(s) \/ NotInserted(s) \/ Waited(s) \/ Executed(s) \/ NotExecuted(s)

IwNext ==
    \/ \E s \in Selections : SelectionStep(s)
    \/ Created \/ NotCreated
    \/ \E w \in IwWindows : Selects(w) \/ Closes(w) \/ Edits(w)

IwSpec == IwInit /\ [][IwNext]_iwVars
-----------------------------------------------------------------------------
(* Properties                                                              *)

(* Every variable has its type; no two commands append at a time.          *)
IwTypeOK ==
    /\ tracked \in 0 .. MaxWindows /\ creating \in BOOLEAN
    /\ opened \in 0 .. MaxWindows /\ closed \subseteq 1 .. opened
    /\ cells \in [IwWindows -> Seq(Selections \cup {TheUser})]
    /\ selected \subseteq IwWindows /\ refused \subseteq IwWindows
    /\ chain \in Seq(Selections)
    /\ commands \in [Selections -> CommandState]
    /\ ran \subseteq Selections \X (Selections \cup {TheUser})

(* What a command has executed is the cell that holds its own selection,   *)
(* although it names the cell by an index it took before the cell was      *)
(* there, and other commands insert cells of their own.                    *)
RunsItsOwn == \A r \in ran : r[1] = r[2]

(* There is one interactive window: another that is still open took no     *)
(* edit.  Commands that come before it is there share the one being made.  *)
OneWindow ==
    \A w \in 1 .. opened : IsOpen(w) /\ w # tracked => w \in refused
=============================================================================
