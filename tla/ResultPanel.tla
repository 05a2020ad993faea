------------------------------ MODULE ResultPanel ------------------------------
(***************************************************************************)
(* The result panel (src/run/resultPanel.ts), the document it shows        *)
(* (src/webview/entry.ts, src/run/resultPanelDom.ts) and the two queues of *)
(* messages between them.  VS Code throws the document away whenever the   *)
(* panel is hidden and loads a new one when it is shown; each new one says *)
(* "ready" and is sent the whole run again.                                *)
(***************************************************************************)
EXTENDS Naturals, Sequences, SequencesExt

CONSTANTS
  MaxRuns,      \* runs started
  MaxOutputs,   \* outputs of a run
  MaxLoads,     \* documents loaded
  MaxClicks,    \* frames clicked
  RpMayMeet     \* "overlap": a run begins while another one still writes

ASSUME RpAssumption ==
  /\ {MaxRuns, MaxOutputs, MaxLoads, MaxClicks} \subseteq Nat /\ RpMayMeet \subseteq {"overlap"}

Runs == 1 .. MaxRuns
Kinds == {"text", "rich", "traceback", "outcome"}

\* An item names the run that wrote it and how many it had written; a
\* traceback bears the token of the run that was current.
RenderItem == [kind : Kinds, run : Runs, nth : 1 .. MaxOutputs + 1, token : Runs]
Reset == [kind |-> "reset"]
Ready == [kind |-> "ready"]

VARIABLES
  written,   \* run -> how many items it wrote; `over` when it has ended
  over,
  currentRunToken, currentFrames,     \* frames: the run whose traceback is kept, or 0
  panel, ready, revealedThisRun,
  backlog,             \* what was emitted since the last reset, with it
  toDoc, toHost,       \* messages on their way
  doc, shown,          \* "none", "loading" or "live", and what it shows
  loads, clicks,
  wantsPanel           \* a rich output came since the panel was last closed
rpVars == <<written, over, currentRunToken, currentFrames, panel, ready, revealedThisRun,
          backlog, toDoc, toHost, doc, shown, loads, clicks, wantsPanel>>
program == <<written, over>>
page == <<doc, shown, loads, clicks>>
frames == <<currentRunToken, currentFrames>>

Live == {r \in 1 .. currentRunToken : ~over[r]}

RpInit ==
  /\ written = [r \in Runs |-> 0] /\ over = [r \in Runs |-> FALSE]
  /\ currentRunToken = 0 /\ currentFrames = 0
  /\ panel = FALSE /\ ready = FALSE /\ revealedThisRun = FALSE /\ backlog = <<>>
  /\ toDoc = <<>> /\ toHost = <<>> /\ doc = "none" /\ shown = <<>>
  /\ loads = 0 /\ clicks = 0 /\ wantsPanel = FALSE

-----------------------------------------------------------------------------
(* The extension's side. *)

\* Fault: a reset is sent, but nothing is kept to begin a replay with.
KeepsNoReset(log, m) == IF m = Reset THEN <<>> ELSE Append(log, m)
Keeps(log, m) == IF m = Reset THEN <<m>> ELSE Append(log, m)

emit(m) ==
  /\ backlog' = Keeps(backlog, m)
  /\ toDoc' = IF panel /\ ready THEN Append(toDoc, m) ELSE toDoc

startRun ==
  /\ currentRunToken < MaxRuns /\ (Live = {} \/ "overlap" \in RpMayMeet)
  /\ currentRunToken' = currentRunToken + 1 /\ currentFrames' = 0
  /\ revealedThisRun' = FALSE /\ wantsPanel' = FALSE
  /\ emit(Reset)
  /\ UNCHANGED <<program, panel, ready, toHost, page>>

Item(r, kind) == [kind |-> kind, run |-> r, nth |-> written[r] + 1, token |-> currentRunToken]

\* The first output of a run that is more than text opens the panel, or
\* brings it to the front.
writeOutput(r, kind) ==
  /\ r \in Live /\ written[r] < MaxOutputs /\ kind \in Kinds \ {"outcome"}
  /\ kind = "traceback" => currentFrames # r
  /\ written' = [written EXCEPT ![r] = @ + 1]
  /\ currentFrames' = IF kind = "traceback" THEN r ELSE currentFrames
  /\ wantsPanel' = (wantsPanel \/ kind # "text")
  /\ emit(Item(r, kind))
  /\ IF revealedThisRun \/ kind = "text" THEN UNCHANGED <<panel, ready, revealedThisRun, doc>>
     ELSE /\ revealedThisRun' = TRUE /\ panel' = TRUE /\ UNCHANGED ready
          /\ doc' = IF doc = "none" THEN "loading" ELSE doc
  /\ UNCHANGED <<over, currentRunToken, toHost, shown, loads, clicks>>

\* writeOutcome, or writeFailure where the run had none.
writeOutcome(r) ==
  /\ r \in Live
  /\ over' = [over EXCEPT ![r] = TRUE] /\ written' = [written EXCEPT ![r] = @ + 1]
  /\ emit(Item(r, "outcome"))
  /\ UNCHANGED <<frames, panel, ready, revealedThisRun, toHost, page, wantsPanel>>

\* Fault: a second document's "ready" is taken for one already answered.
ReplaysOnce == IF ready THEN <<>> ELSE backlog
Replays == backlog

hearsReady ==
  /\ toHost # <<>> /\ Head(toHost) = Ready /\ toHost' = Tail(toHost)
  /\ ready' = TRUE /\ toDoc' = toDoc \o Replays
  /\ UNCHANGED <<program, frames, panel, revealedThisRun, backlog, page, wantsPanel>>

\* Fault: a frame is looked up whichever run it was clicked in.
RevealsAny(click) == currentFrames # 0
\* Whether a click on a frame opens an editor, at the line the frames and the
\* origin of the current run give.
Reveals(click) == click.token = currentRunToken /\ currentFrames # 0

revealFrame ==
  /\ toHost # <<>> /\ Head(toHost) # Ready /\ toHost' = Tail(toHost)
  /\ UNCHANGED <<program, frames, panel, ready, revealedThisRun, backlog, toDoc, page, wantsPanel>>

\* Fault: a run has one reveal, and a closed panel does not give it back.
AfterClose == revealedThisRun
StillRevealed == FALSE

\* Fault: the next panel is taken for one whose document is there.
ReadyAsBefore == ready
ReadyAfterClose == FALSE

\* The user closes the panel: onDidDispose.
ClosesPanel ==
  /\ panel /\ panel' = FALSE /\ ready' = ReadyAfterClose /\ revealedThisRun' = StillRevealed
  /\ doc' = "none" /\ shown' = <<>> /\ toDoc' = <<>> /\ toHost' = <<>> /\ wantsPanel' = FALSE
  /\ UNCHANGED <<program, frames, backlog, loads, clicks>>

-----------------------------------------------------------------------------
(* The document's side, and VS Code's. *)

Hides ==
  /\ doc # "none" /\ doc' = "none" /\ shown' = <<>>
  /\ UNCHANGED <<program, frames, panel, ready, revealedThisRun, backlog, toDoc, toHost,
                 loads, clicks, wantsPanel>>

Shows ==
  /\ panel /\ doc = "none" /\ doc' = "loading"
  /\ UNCHANGED <<program, frames, panel, ready, revealedThisRun, backlog, toDoc, toHost,
                 shown, loads, clicks, wantsPanel>>

\* The document listens, then says so.
Loads ==
  /\ doc = "loading" /\ loads < MaxLoads /\ loads' = loads + 1
  /\ doc' = "live" /\ toHost' = Append(toHost, Ready)
  /\ UNCHANGED <<program, frames, panel, ready, revealedThisRun, backlog, toDoc, shown,
                 clicks, wantsPanel>>

applyMessage(m) == IF m = Reset THEN <<>> ELSE Append(shown, m)

\* A message for a document that does not listen may be lost, or wait for the next.
Delivers ==
  /\ toDoc # <<>> /\ toDoc' = Tail(toDoc)
  /\ shown' = IF doc = "live" THEN applyMessage(Head(toDoc)) ELSE shown
  /\ UNCHANGED <<program, frames, panel, ready, revealedThisRun, backlog, toHost,
                 doc, loads, clicks, wantsPanel>>

onFrameActivate(k) ==
  /\ doc = "live" /\ clicks < MaxClicks /\ clicks' = clicks + 1
  /\ k \in DOMAIN shown /\ shown[k].kind = "traceback" /\ toHost' = Append(toHost, shown[k])
  /\ UNCHANGED <<program, frames, panel, ready, revealedThisRun, backlog, toDoc, doc, shown,
                 loads, wantsPanel>>

RpNext ==
  \/ startRun \/ hearsReady \/ revealFrame \/ ClosesPanel \/ Hides \/ Shows \/ Loads \/ Delivers
  \/ \E r \in Runs, kind \in Kinds : writeOutput(r, kind)
  \/ \E r \in Runs : writeOutcome(r)
  \/ \E k \in DOMAIN shown : onFrameActivate(k)

RpSpec == RpInit /\ [][RpNext]_rpVars

-----------------------------------------------------------------------------
\* The shape of the state.
RpTypeOK ==
  /\ currentRunToken \in 0 .. MaxRuns /\ currentFrames \in 0 .. MaxRuns
  /\ backlog \in Seq(RenderItem \cup {Reset}) /\ shown \in Seq(RenderItem)
  /\ toDoc \in Seq(RenderItem \cup {Reset}) /\ toHost \in Seq(RenderItem \cup {Ready})
  /\ doc \in {"none", "loading", "live"} /\ (~panel => doc = "none" /\ ~ready)

\* resultPanel.ts, open and emit: once nothing is on its way, a document that
\* was answered shows every item of the run, once and in order, however often
\* the panel was hidden, and whatever was sent to a document before this one.
ShowsTheRun ==
  panel /\ doc = "live" /\ ready /\ toDoc = <<>> /\ Ready \notin ToSet(toHost)
    => backlog # <<>> /\ shown = Tail(backlog)

\* resultPanel.ts, revealFrame: a click opens an editor only at a line of the
\* program whose traceback was clicked.
ClickGoesHome ==
  \A c \in ToSet(toHost) : c # Ready /\ Reveals(c)
    => c.run = currentFrames /\ c.run = currentRunToken

\* resultPanel.ts, revealedThisRun: what a run shows beside its text brings a
\* panel, also after the user closed the one there was.
RichBringsPanel == wantsPanel => panel
=============================================================================
