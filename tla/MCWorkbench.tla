---------------------------- MODULE MCWorkbench ----------------------------
(***************************************************************************)
(* What the user has open, for TLC: notebooks, the interactive window, the *)
(* Results panel, the stubs for the editor, profiles, and files of three   *)
(* kinds.  The modules share no variable, so a behaviour is a behaviour of *)
(* one of them, `part', while the others stay at one initial state: what   *)
(* they do side by side adds nothing to what any of them can do.           *)
(***************************************************************************)
EXTENDS NotebookRun, InteractiveWindow, ResultPanel, EnvironmentStubs, ProfileStore,
        ContentCommands, EditorFiles, ServerFiles, Transfers

CONSTANTS tRoot, tSub, tFile, tDeep, tOther     \* the nodes of the tree that is downloaded

\* tSub is in tRoot and tDeep in tSub, whatever else they hold; tOther is not in tSub.
MCNodes == {tRoot, tSub, tFile, tDeep, tOther}
MCShapes == {s \in [{tRoot, tSub} -> SUBSET MCNodes] :
               tSub \in s[tRoot] /\ tDeep \in s[tSub] /\ tOther \notin s[tSub]}
MCNamings == {n \in [MCNodes -> {"a", "A", "..", "b"}] :
                /\ n[tRoot] = "b" /\ n[tSub] \in {"A", "b"} /\ n[tFile] # "b"
                /\ n[tDeep] = "a" /\ n[tOther] = "a"}

VARIABLE part
Parts == {"notebook", "window", "panel", "stubs", "profiles", "content", "editor", "server",
          "transfer"}
workbenchVars ==
  <<nbVars, iwVars, rpVars, enVars, psVars, contentVars, efVars, svVars, trVars, part>>

\* A part that does not run begins in one state only.
Pinned ==
  /\ part # "notebook" => nbActive = CHOOSE p \in NbProfiles : TRUE
  /\ part # "stubs" => stubPath = "unset" /\ remote = [p \in EnProfiles |-> {}]
  /\ part # "profiles" => settings = [n \in Names |-> None]
  /\ part # "editor" => kind = "content"
  /\ part # "server" => files = [p \in Paths |-> [tag |-> 1, empty |-> FALSE]]
  /\ part # "transfer" => /\ keyed = TRUE /\ members = CHOOSE s \in Shapes : TRUE
                          /\ name = CHOOSE n \in Namings : TRUE

WorkbenchInit ==
  /\ part \in Parts /\ Pinned
  /\ NbInit /\ IwInit /\ RpInit /\ EnInit /\ PsInit /\ ContentInit /\ EfInit /\ SvInit /\ TrInit

NotebookSteps ==
  /\ part = "notebook" /\ NbNext
  /\ UNCHANGED <<iwVars, rpVars, enVars, psVars, contentVars, efVars, svVars, trVars, part>>
WindowSteps ==
  /\ part = "window" /\ IwNext
  /\ UNCHANGED <<nbVars, rpVars, enVars, psVars, contentVars, efVars, svVars, trVars, part>>
PanelSteps ==
  /\ part = "panel" /\ RpNext
  /\ UNCHANGED <<nbVars, iwVars, enVars, psVars, contentVars, efVars, svVars, trVars, part>>
StubSteps ==
  /\ part = "stubs" /\ EnNext
  /\ UNCHANGED <<nbVars, iwVars, rpVars, psVars, contentVars, efVars, svVars, trVars, part>>
ProfileSteps ==
  /\ part = "profiles" /\ PsNext
  /\ UNCHANGED <<nbVars, iwVars, rpVars, enVars, contentVars, efVars, svVars, trVars, part>>
ContentSteps ==
  /\ part = "content" /\ ContentNext
  /\ UNCHANGED <<nbVars, iwVars, rpVars, enVars, psVars, efVars, svVars, trVars, part>>
EditorSteps ==
  /\ part = "editor" /\ EfNext
  /\ UNCHANGED <<nbVars, iwVars, rpVars, enVars, psVars, contentVars, svVars, trVars, part>>
ServerSteps ==
  /\ part = "server" /\ SvNext
  /\ UNCHANGED <<nbVars, iwVars, rpVars, enVars, psVars, contentVars, efVars, trVars, part>>
TransferSteps ==
  /\ part = "transfer" /\ TrNext
  /\ UNCHANGED <<nbVars, iwVars, rpVars, enVars, psVars, contentVars, efVars, svVars, part>>

WorkbenchNext ==
  \/ NotebookSteps \/ WindowSteps \/ PanelSteps \/ StubSteps \/ ProfileSteps
  \/ ContentSteps \/ EditorSteps \/ ServerSteps \/ TransferSteps
WorkbenchSpec == WorkbenchInit /\ [][WorkbenchNext]_workbenchVars

\* Every variable of the part that runs has its type.
WorkbenchTypeOK ==
  CASE part = "notebook" -> NbTypeOK
    [] part = "window" -> IwTypeOK
    [] part = "panel" -> RpTypeOK
    [] part = "stubs" -> EnTypeOK
    [] part = "profiles" -> PsTypeOK
    [] part = "content" -> ContentTypeOK
    [] part = "editor" -> EfTypeOK
    [] part = "server" -> SvTypeOK
    [] part = "transfer" -> TrTypeOK

\* A cell that was started is ended, and interrupted for its own notebook; a selection
\* sent to the interactive window is what runs there.
CellsAreOwn == StartedIsEnded /\ InterruptReaches /\ InterruptIsOwn /\ RunsItsOwn /\ OneWindow

\* The Results panel shows the run there is, and the stubs are of what the session has.
ShownIsOfTheRun ==
  ShowsTheRun /\ ClickGoesHome /\ RichBringsPanel /\ SyncedIsWhole /\ NoticeIsGiven

\* No file is left in no folder, copied twice, kept under another's tag, or left out of a
\* download in silence.
FilesAreKept ==
  /\ NothingUnlinked /\ CopiedOnce /\ ClipboardIsLatest
  /\ TagIsOfShown
  /\ OneFilePerPath /\ WalkEnds /\ AllAccounted

\* No step changes what belongs to another: a closed notebook, another profile, the
\* user's own stubs, what somebody wrote since, a session that is still there.
StepsKeepToTheirOwn ==
  /\ NothingStartsClosed /\ OthersSurvive /\ RenameIsFollowed /\ TheirsIsLeft
  /\ NoLostUpdate /\ RemovesWhatItSaw /\ ToldIsDone /\ ForgetsAfterGone
=============================================================================
