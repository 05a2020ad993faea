---------------------------- MODULE MCSessionData ----------------------------
(***************************************************************************)
(* What the extension keeps in a SAS session and in CAS, for TLC: views of *)
(* a table, its export, the CAS explorer, filerefs, and the files of rich  *)
(* output.  The modules share no variable, so a behaviour is a behaviour   *)
(* of one of them, `part', while the others stay at one initial state:     *)
(* what they do side by side adds nothing to what any of them can do.      *)
(***************************************************************************)
EXTENDS DataViewer, CsvExport, CasExplorer, Filerefs, RichCapture

\* No rows, a page and a half, and two pages.
MCTables == {<<>>, <<1, 2, 3>>, <<1, 2, 3, 4>>}

VARIABLE part
sessionDataVars == <<dvVars, cxVars, caVars, frVars, rcVars, part>>

\* A part that does not run begins in one state only.
Pinned ==
  /\ part # "export" => tables = << <<>> >>
  /\ part # "cas" => endpoint = (CHOOSE d \in Deployments : TRUE) /\ signedIn = {}

SessionDataInit ==
  /\ part \in {"viewer", "export", "cas", "filerefs", "rich"} /\ Pinned
  /\ DvInit /\ CxInit /\ CaInit /\ FrInit /\ RcInit

ViewerSteps == part = "viewer" /\ DvNext /\ UNCHANGED <<cxVars, caVars, frVars, rcVars, part>>
ExportSteps == part = "export" /\ CxNext /\ UNCHANGED <<dvVars, caVars, frVars, rcVars, part>>
CasSteps == part = "cas" /\ CaNext /\ UNCHANGED <<dvVars, cxVars, frVars, rcVars, part>>
FilerefSteps == part = "filerefs" /\ FrNext /\ UNCHANGED <<dvVars, cxVars, caVars, rcVars, part>>
RichSteps == part = "rich" /\ RcNext /\ UNCHANGED <<dvVars, cxVars, caVars, frVars, part>>

SessionDataNext == ViewerSteps \/ ExportSteps \/ CasSteps \/ FilerefSteps \/ RichSteps
SessionDataSpec == SessionDataInit /\ [][SessionDataNext]_sessionDataVars

\* Every variable has its type.
SessionDataTypeOK == DvTypeOK /\ CxTypeOK /\ CaTypeOK /\ FrTypeOK /\ RcTypeOK

\* Rows are of the choice made last, and a view whose making was answered is not
\* forgotten; a file that was exported holds the table.
TablesAreWhole == RowsFitTheChoice /\ NoViewForgotten /\ CsvIsWhole
=============================================================================
