----------------------------- MODULE ServerFiles -----------------------------
(***************************************************************************)
(* The commands of the SAS Server view (src/server: serverCommands.ts,     *)
(* serverDragAndDrop.ts, serverTree.ts over adapter.ts): creating,         *)
(* uploading, renaming or moving, deleting and listing files through the   *)
(* files of a compute session.  Another program works on the same files,   *)
(* answers get lost, the user cancels, and the session ends and is         *)
(* replaced while requests are under way.                                  *)
(* A path is a model value: a rename and a move both take an item to       *)
(* another path.  A tag numbers the versions of all files.  Left out: what *)
(* a folder holds, the root's attributes, invalid names.                   *)
(***************************************************************************)
EXTENDS Naturals, FiniteSets

CONSTANTS
    Paths,          \* the paths files may be at
    Commands,       \* slots for commands
    MaxTag,         \* bound on the versions made
    MaxSession,     \* bound on the sessions started
    SvMayMeet       \* what may happen besides: "lost answer", "reconnect"

ASSUME ServerFilesAssumption ==
    /\ MaxTag \in Nat \ {0} /\ MaxSession \in Nat \ {0}
    /\ SvMayMeet \subseteq {"lost answer", "reconnect"}

VARIABLES
    files,          \* the file at each path: its version and if it is empty
    lastTag,        \* the last version made
    sessions,       \* the sessions that are alive
    current,        \* the session the window holds, 0 if none
    newest,         \* the last session started
    svCommands,       \* the state of each command
    outcome         \* what the user was told last

svVars == <<files, lastTag, sessions, current, newest, svCommands, outcome>>

NoFile == [tag |-> 0, empty |-> FALSE]
NoCommand == [op |-> "none", at |-> "idle", path |-> "", to |-> "", session |-> 0,
              tag |-> 0, aborted |-> FALSE, landed |-> FALSE]
Operations == {"create", "upload", "move", "delete", "list"}
Phases == {"create", "write", "discard", "read", "change", "list", "ask"}
Tells == {"nothing", "done", "failed", "left-empty", "not available"}

FileAt(p) == files[p] # NoFile
Stores(p, isEmpty) ==
    /\ lastTag < MaxTag
    /\ lastTag' = lastTag + 1
    /\ files' = [files EXCEPT ![p] = [tag |-> lastTag + 1, empty |-> isEmpty]]

-----------------------------------------------------------------------------
(* Starting                                                                *)
First(op) ==
    IF op \in {"create", "upload"} THEN "create"
    ELSE IF op = "list" THEN "list" ELSE "read"

(* `require' takes the session the window holds; without one the command   *)
(* says so.  An item that is listed may be gone by now.                    *)
Gives(c) ==
    /\ svCommands[c] = NoCommand /\ current # 0
    /\ \E op \in Operations, p \in Paths, q \in Paths :
          /\ op # "move" => q = p
          /\ op = "move" => q # p
          /\ svCommands' = [svCommands EXCEPT ![c] =
                [NoCommand EXCEPT !.op = op, !.at = First(op), !.path = p, !.to = q,
                                  !.session = current]]
    /\ UNCHANGED <<files, lastTag, sessions, current, newest, outcome>>

Aborts(c) ==
    /\ svCommands[c] # NoCommand /\ ~svCommands[c].aborted
    /\ svCommands' = [svCommands EXCEPT ![c].aborted = TRUE]
    /\ UNCHANGED <<files, lastTag, sessions, current, newest, outcome>>

-----------------------------------------------------------------------------
(* How a command goes on, or ends and tells what.                          *)
Goes(c, phase, tag) ==
    /\ svCommands' = [svCommands EXCEPT ![c].at = phase, ![c].tag = tag]
    /\ UNCHANGED <<outcome, current>>
Ends(c, what) ==
    /\ svCommands' = [svCommands EXCEPT ![c] = NoCommand]
    /\ outcome' = what
    /\ UNCHANGED current

Alive(c) == svCommands[c].session \in sessions

(* Fault: the tag to remove with is asked for again.                       *)
TagOfNow(c) == files[svCommands[c].path].tag

(* What is removed or renamed is the version the last answer told of.      *)
TagSent(c) == svCommands[c].tag
Matches(c) == FileAt(svCommands[c].path) /\ files[svCommands[c].path].tag = TagSent(c)

(* Fault: a status of 200 is success.                                      *)
SaysDoneByStatus(refused) == TRUE

(* embeddedError: a refusal may come as the body of an answer that is 200. *)
SaysDone(refused) == ~refused

(* An aborted request is not told of, unless it had succeeded.             *)
EndsFailed(c, what) == Ends(c, IF svCommands[c].aborted THEN "nothing" ELSE what)

(* POST to the folder: 409 if the name is taken.                           *)
Creates(c) ==
    LET cmd == svCommands[c] IN
    /\ cmd.at = "create" /\ Alive(c)
    /\ IF FileAt(cmd.path)
       THEN EndsFailed(c, "failed") /\ UNCHANGED <<files, lastTag>>
       ELSE /\ Stores(cmd.path, TRUE)
            /\ \/ /\ cmd.op = "create"
                  /\ Ends(c, "done")
               \/ /\ cmd.op = "upload"
                  /\ Goes(c, "write", lastTag + 1)
               \/ /\ "lost answer" \in SvMayMeet
                  /\ EndsFailed(c, "failed")
    /\ UNCHANGED <<sessions, newest>>

(* writeBytes, with the tag of the create; without success the file is     *)
(* removed again.                                                          *)
Writes(c) ==
    LET cmd == svCommands[c] IN
    /\ cmd.at = "write" /\ Alive(c)
    /\ \/ /\ FileAt(cmd.path) /\ files[cmd.path].tag = cmd.tag
          /\ Stores(cmd.path, FALSE)
          /\ \/ Ends(c, "done")
             \/ /\ "lost answer" \in SvMayMeet
                /\ svCommands' = [svCommands EXCEPT ![c].at = "discard", ![c].landed = TRUE]
                /\ UNCHANGED <<outcome, current>>
       \/ /\ Goes(c, "discard", cmd.tag)      \* 412, or it failed
          /\ UNCHANGED <<files, lastTag>>
    /\ UNCHANGED <<sessions, newest>>

(* discard, which a cancelled command sends all the same.                  *)
Discards(c) ==
    LET cmd == svCommands[c] IN
    /\ cmd.at = "discard" /\ Alive(c)
    /\ \/ /\ Matches(c)
          /\ files' = [files EXCEPT ![cmd.path] = NoFile]
          /\ EndsFailed(c, "failed")
       \/ EndsFailed(c, "left-empty") /\ UNCHANGED files
    /\ UNCHANGED <<lastTag, sessions, newest>>

(* current: the item's tag as it is now; a 404 has the session asked for.  *)
ReadsItem(c) ==
    /\ svCommands[c].at \in {"read", "list"} /\ Alive(c)
    /\ IF svCommands[c].at = "list" THEN Ends(c, "done")
       ELSE IF FileAt(svCommands[c].path) THEN Goes(c, "change", files[svCommands[c].path].tag)
       ELSE Goes(c, "ask", 0)
    /\ UNCHANGED <<files, lastTag, sessions, newest>>

(* The DELETE, or the PUT of the new path, with that tag.                  *)
ChangesItem(c) ==
    LET cmd == svCommands[c]
        refused == ~Matches(c) \/ (cmd.op = "move" /\ FileAt(cmd.to)) IN
    /\ cmd.at = "change" /\ Alive(c)
    /\ files' = IF refused THEN files
                ELSE [files EXCEPT ![cmd.path] = NoFile,
                        ![cmd.to] = IF cmd.op = "move" THEN files[cmd.path] ELSE NoFile]
    /\ \/ /\ cmd.op = "move" /\ SaysDone(refused)
          /\ Ends(c, "done")
       \/ /\ cmd.op = "delete" /\ ~refused
          /\ Ends(c, "done")
       \/ /\ refused \/ "lost answer" \in SvMayMeet
          /\ EndsFailed(c, "failed")
    /\ UNCHANGED <<lastTag, sessions, newest>>

(* A request fails before it is sent, or is aborted.                       *)
Fails(c) ==
    LET cmd == svCommands[c] IN
    /\ cmd.at \in Phases \ {"write", "discard"}
    /\ EndsFailed(c, "failed")
    /\ UNCHANGED <<files, lastTag, sessions, newest>>

(* A session that is gone answers 404 to all; a discard does not ask why.  *)
NotFound(c) ==
    /\ svCommands[c].at \in Phases \ {"ask"} /\ ~Alive(c)
    /\ IF svCommands[c].at = "discard" THEN EndsFailed(c, "left-empty")
       ELSE Goes(c, "ask", svCommands[c].tag)
    /\ UNCHANGED <<files, lastTag, sessions, newest>>

(* Fault: any 404 is taken for the end of the session.                     *)
IsGoneByStatus(c) == TRUE

(* classifyNotFound: readSessionState tells whether it is gone.            *)
IsGone(c) == ~Alive(c)

(* forgetProfile drops whatever session the profile holds; an upload does  *)
(* not call it.                                                            *)
Asks(c) ==
    LET cmd == svCommands[c] IN
    /\ cmd.at = "ask"
    /\ IF cmd.op = "upload" /\ cmd.tag # 0 THEN Goes(c, "discard", cmd.tag)
       ELSE IF ~IsGone(c) THEN EndsFailed(c, "not available")
       ELSE IF cmd.op = "upload" THEN EndsFailed(c, "failed")
       ELSE /\ svCommands' = [svCommands EXCEPT ![c] = NoCommand]
            /\ outcome' = IF cmd.aborted THEN "nothing" ELSE "failed"
            /\ current' = 0
    /\ UNCHANGED <<files, lastTag, sessions, newest>>

-----------------------------------------------------------------------------
(* Sessions, and another program                                           *)
SessionEnds ==
    /\ \E s \in sessions : sessions' = sessions \ {s}
    /\ UNCHANGED <<files, lastTag, current, newest, svCommands, outcome>>

Connects ==
    /\ current = 0 /\ newest < MaxSession /\ "reconnect" \in SvMayMeet
    /\ newest' = newest + 1 /\ current' = newest + 1
    /\ sessions' = sessions \cup {newest + 1}
    /\ UNCHANGED <<files, lastTag, svCommands, outcome>>

AnotherWrites ==
    /\ \E p \in Paths, isEmpty \in BOOLEAN : Stores(p, isEmpty)
    /\ UNCHANGED <<sessions, current, newest, svCommands, outcome>>

AnotherRemoves ==
    /\ \E p \in Paths : FileAt(p) /\ files' = [files EXCEPT ![p] = NoFile]
    /\ UNCHANGED <<lastTag, sessions, current, newest, svCommands, outcome>>

SvInit ==
    /\ files \in [Paths -> {NoFile, [tag |-> 1, empty |-> FALSE]}]
    /\ lastTag = 1
    /\ sessions = {1} /\ current = 1 /\ newest = 1
    /\ svCommands = [c \in Commands |-> NoCommand]
    /\ outcome = "nothing"

SvNext ==
    \/ \E c \in Commands :
          \/ Gives(c) \/ Aborts(c) \/ Creates(c) \/ Writes(c) \/ Discards(c)
          \/ ReadsItem(c) \/ ChangesItem(c) \/ Fails(c) \/ NotFound(c) \/ Asks(c)
    \/ SessionEnds \/ Connects \/ AnotherWrites \/ AnotherRemoves

SvSpec == SvInit /\ [][SvNext]_svVars
-----------------------------------------------------------------------------
(* Properties                                                              *)

(* Every variable has its type.                                            *)
SvTypeOK ==
    /\ files \in [Paths -> [tag : 0 .. MaxTag, empty : BOOLEAN]]
    /\ lastTag \in 0 .. MaxTag
    /\ sessions \subseteq 1 .. MaxSession
    /\ {current, newest} \subseteq 0 .. MaxSession
    /\ \A c \in Commands :
          svCommands[c] = NoCommand
          \/ svCommands[c] \in [op : Operations, at : Phases, path : Paths, to : Paths,
                              session : 1 .. MaxSession, tag : 0 .. MaxTag, aborted : BOOLEAN,
                              landed : BOOLEAN]
    /\ outcome \in Tells

Took(c) == svCommands[c] # NoCommand /\ svCommands'[c] = NoCommand

(* A command removes or moves the version it was told of, and no other     *)
(* one: an upload takes back only the file it made and nobody wrote to.    *)
RemovesWhatItSaw ==
    [][\A c \in Commands, p \in Paths :
          Took(c) /\ svCommands[c].path = p /\ FileAt(p) /\ files'[p] = NoFile
          => files[p].tag = svCommands[c].tag]_svVars

(* A command that is told to be done has done it: the file is where it was *)
(* to be, or is no longer where it was.                                    *)
ToldIsDone ==
    [][\A c \in Commands :
          Took(c) /\ outcome' = "done" =>
            CASE svCommands[c].op \in {"create", "upload"} ->
                    files'[svCommands[c].path] = [tag |-> lastTag', empty |-> svCommands[c].op = "create"]
              [] svCommands[c].op \in {"move", "delete"} ->
                    /\ files'[svCommands[c].path] = NoFile
                    /\ svCommands[c].op = "move" => files'[svCommands[c].to] = files[svCommands[c].path]
              [] OTHER -> TRUE]_svVars

(* The window forgets the session it holds after a command learned that    *)
(* the one it ran in is gone, never because a file is.                     *)
ForgetsAfterGone ==
    [][current # 0 /\ current' = 0 =>
          \E c \in Commands : Took(c) /\ svCommands[c].session \notin sessions]_svVars

(* "for when a caller has independently learned the session is actually    *)
(* gone": the session the window forgets is one that is.                   *)
ForgetsLostSession ==
    [][current # 0 /\ current' = 0 => current \notin sessions]_svVars

(* An upload whose file is said to have been left empty has not had its    *)
(* bytes written.                                                          *)
LeftEmptyIsEmpty ==
    [][\A c \in Commands :
          Took(c) /\ outcome' = "left-empty" => ~svCommands[c].landed]_svVars
=============================================================================
