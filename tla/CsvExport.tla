------------------------------ MODULE CsvExport ------------------------------
(***************************************************************************)
(* Exporting a table of a SAS or CAS library to a CSV file                 *)
(* (src/data/csvExportCommand.ts, csvExportModel.ts, libraryCsvSource.ts,  *)
(* src/cas/casCsvSource.ts): exports run side by side, each one pages      *)
(* through a table that others may change and writes a file next to the    *)
(* one asked for, which takes that one's place at the end.                 *)
(***************************************************************************)
EXTENDS Integers, Sequences, SequencesExt, FiniteSets

CONSTANTS
  Exports,        \* exports the user starts, all of one table to one file
  Tables,         \* the contents the table may have: sequences of rows
  PageSize,       \* CSV_EXPORT_PAGE_SIZE, or pageRowsFor
  MaxEdits,       \* changes made to the table
  CxMayMeet       \* "late cancel": the user cancels when every page is read

ASSUME CxAssumption ==
  /\ Tables # {} /\ \A t \in Tables : t \in Seq(Nat)
  /\ PageSize \in Nat \ {0} /\ MaxEdits \in Nat /\ CxMayMeet \subseteq {"late cancel"}

VARIABLES
  tables,         \* what the table has been, the last of them what it is
  destination,    \* the file asked for
  temp,           \* the files besides
  step,           \* export -> how far it is
  opened,         \* export -> the number of the table it has opened
  rowCount,       \* export -> the rows it is said to have, 0 if none or unknown
  start,          \* export -> the rows read through
  rowsDone,       \* export -> the rows its notification shows
  streamError, aborted,
  outcome,        \* export -> how it ended, as far as the user is told
  kept            \* the exports whose file besides could not be removed
cxVars == <<tables, destination, temp, step, opened, rowCount, start, rowsDone, streamError,
            aborted, outcome, kept>>
pages == <<tables, opened, rowCount>>

\* A file: the export that wrote it, its rows, and whether a write was lost.
NoFile == [by |-> {}, rows |-> <<>>, bad |-> FALSE]
NewFile(e) == [by |-> {e}, rows |-> <<>>, bad |-> FALSE]
Asks == {"opening", "sampling", "reading"}      \* awaiting an answer of SAS
Works == Asks \cup {"confirming", "writing", "ending", "renaming"}
Goes(e, s) == step' = [step EXCEPT ![e] = s]
Lesser(i, j) == IF i < j THEN i ELSE j

CxInit ==
  /\ \E t \in Tables : tables = <<t>>
  /\ destination = NoFile /\ temp = [e \in Exports |-> NoFile]
  /\ step = [e \in Exports |-> "idle"] /\ opened = [e \in Exports |-> 0]
  /\ rowCount = [e \in Exports |-> 0] /\ start = [e \in Exports |-> 0]
  /\ rowsDone = [e \in Exports |-> 0] /\ outcome = [e \in Exports |-> "none"]
  /\ streamError = [e \in Exports |-> FALSE] /\ aborted = [e \in Exports |-> FALSE]
  /\ kept = {}

-----------------------------------------------------------------------------
\* Fault: the name of the file besides has no randomUUID.
TempShared(e) == CHOOSE x \in Exports : TRUE
TempPath(e) == e

\* The user picks the file in the save dialog.
Starts(e) ==
  /\ step[e] = "idle" /\ Goes(e, "opening")
  /\ UNCHANGED <<pages, destination, temp, start, rowsDone, streamError, aborted, outcome, kept>>

Cancels(e) ==
  /\ step[e] \in Works \ {"confirming"} /\ ~aborted[e]
  /\ step[e] \in {"ending", "renaming"} => "late cancel" \in CxMayMeet
  /\ aborted' = [aborted EXCEPT ![e] = TRUE]
  /\ UNCHANGED <<pages, destination, temp, step, start, rowsDone, streamError, outcome, kept>>

\* A failure is said, unless the user has cancelled; the `finally` comes next.
Fails(e) ==
  /\ outcome' = [outcome EXCEPT ![e] = IF aborted[e] THEN "cancelled" ELSE "failed"]
  /\ Goes(e, "cleaning")

\* Any request may fail, and one of a cancelled export does.
IsRefused(e) ==
  /\ step[e] \in Asks /\ Fails(e)
  /\ UNCHANGED <<pages, destination, temp, start, rowsDone, streamError, aborted, kept>>

Creates(e) ==
  /\ temp' = [temp EXCEPT ![TempPath(e)] = NewFile(e)]
  /\ Goes(e, "reading")

\* The estimate is known: ensureDiskSpace fails, or the file is created.
TakesSpace(e) ==
  \/ Fails(e) /\ UNCHANGED temp
  \/ Creates(e) /\ UNCHANGED outcome

\* The row count a source's open answers with.
SaysRows == {0, Len(Last(tables))}

\* The source's open; without a row count there is nothing to estimate.
IsOpened(e) ==
  /\ step[e] = "opening" /\ ~aborted[e]
  /\ opened' = [opened EXCEPT ![e] = Len(tables)]
  /\ \E n \in SaysRows :
       /\ rowCount' = [rowCount EXCEPT ![e] = n]
       /\ IF n = 0 THEN Creates(e) ELSE Goes(e, "sampling") /\ UNCHANGED temp
  /\ UNCHANGED <<tables, destination, start, rowsDone, streamError, aborted, outcome, kept>>

\* The sample is in: a large export is asked about, another one goes on.
IsSampled(e) ==
  /\ step[e] = "sampling" /\ ~aborted[e]
  /\ \/ Goes(e, "confirming") /\ UNCHANGED <<temp, outcome>>
     \/ TakesSpace(e)
  /\ UNCHANGED <<pages, destination, start, rowsDone, streamError, aborted, kept>>

IsConfirmed(e) ==
  /\ step[e] = "confirming"
  /\ \/ /\ outcome' = [outcome EXCEPT ![e] = "declined"]
        /\ Goes(e, "cleaning") /\ UNCHANGED temp
     \/ TakesSpace(e)
  /\ UNCHANGED <<pages, destination, start, rowsDone, streamError, aborted, kept>>

PageFrom(e) == SubSeq(Last(tables), start[e] + 1, Lesser(start[e] + PageSize, Len(Last(tables))))

\* streamCsvPages: a page with no rows, and no header either, is the end.
IsPastEnd(e) == PageFrom(e) = <<>> /\ start[e] > 0

\* The next page comes and is written.
ReadsPage(e) ==
  /\ step[e] = "reading" /\ ~aborted[e]
  /\ IF IsPastEnd(e)
     THEN Goes(e, "ending") /\ UNCHANGED temp
     ELSE /\ Goes(e, "writing")
          /\ temp' = [temp EXCEPT ![TempPath(e)].rows = @ \o PageFrom(e)]
  /\ UNCHANGED <<pages, destination, start, rowsDone, streamError, aborted, outcome, kept>>

\* The disk fails, which the stream says with an event.
StreamFails(e) ==
  /\ step[e] \in {"writing", "ending"} /\ ~streamError[e]
  /\ streamError' = [streamError EXCEPT ![e] = TRUE]
  /\ temp' = [temp EXCEPT ![TempPath(e)].bad = TRUE]
  /\ UNCHANGED <<pages, destination, step, start, rowsDone, aborted, outcome, kept>>

\* Fault: the rows shown are not held to the count.
RowsAsRead(previous, read, count) == read
\* exportProgressStep: rows of a table that has outgrown its count are shown once read.
RowsShown(previous, read, count) == IF previous >= count THEN previous ELSE Lesser(read, count)

\* writeChunk's callback.
Writes(e) ==
  /\ step[e] = "writing"
  /\ IF streamError[e] THEN Fails(e) /\ UNCHANGED <<start, rowsDone>>
     ELSE /\ Goes(e, "reading")
          /\ start' = [start EXCEPT ![e] = @ + PageSize]
          /\ rowsDone' = [rowsDone EXCEPT ![e] =
                IF rowCount[e] = 0 THEN 0
                ELSE RowsShown(start[e], start[e] + PageSize, rowCount[e])]
          /\ UNCHANGED outcome
  /\ UNCHANGED <<pages, destination, temp, streamError, aborted, kept>>

\* Fault: the error is asked about before the last rows are out, never after.
AfterEach(e) == FALSE
AfterFlush(e) == streamError[e]

EndsFile(e) ==
  /\ step[e] = "ending"
  /\ IF AfterFlush(e) THEN Fails(e) ELSE Goes(e, "renaming") /\ UNCHANGED outcome
  /\ UNCHANGED <<pages, destination, temp, start, rowsDone, streamError, aborted, kept>>

Renames(e) ==
  /\ step[e] = "renaming"
  /\ \/ /\ destination' = temp[TempPath(e)]
        /\ temp' = [temp EXCEPT ![TempPath(e)] = NoFile]
        /\ outcome' = [outcome EXCEPT ![e] = "succeeded"]
        /\ Goes(e, "over")
     \/ Fails(e) /\ UNCHANGED <<destination, temp>>
  /\ UNCHANGED <<pages, start, rowsDone, streamError, aborted, kept>>

\* Fault: only a file that was ended is removed.
RemovesIfEnded(e) == step[e] = "renaming"
\* Whatever has been created goes, whether its stream was ended or not.
Removes(e) == TRUE

\* The `finally`; that the file cannot be removed is only logged.
Cleans(e) ==
  /\ step[e] = "cleaning" /\ Goes(e, "over")
  /\ IF Removes(e)
     THEN \/ temp' = [temp EXCEPT ![TempPath(e)] = NoFile] /\ UNCHANGED kept
          \/ /\ temp[TempPath(e)] # NoFile
             /\ kept' = kept \cup {e} /\ UNCHANGED temp
     ELSE UNCHANGED <<temp, kept>>
  /\ UNCHANGED <<pages, destination, start, rowsDone, streamError, aborted, outcome>>

\* Somebody changes the table.
Changes ==
  /\ Len(tables) <= MaxEdits
  /\ \E t \in Tables : tables' = Append(tables, t)
  /\ UNCHANGED <<destination, temp, step, opened, rowCount, start, rowsDone, streamError,
                 aborted, outcome, kept>>

Export(e) ==
  \/ Starts(e) \/ Cancels(e) \/ IsRefused(e) \/ IsOpened(e) \/ IsSampled(e) \/ IsConfirmed(e)
  \/ ReadsPage(e) \/ StreamFails(e) \/ Writes(e) \/ EndsFile(e) \/ Renames(e) \/ Cleans(e)

CxNext == Changes \/ \E e \in Exports : Export(e)
cxSpec == CxInit /\ [][CxNext]_cxVars

-----------------------------------------------------------------------------
(* What is being checked. *)

\* Every variable has its type.
CxTypeOK ==
  /\ destination \in [by : SUBSET Exports, rows : Seq(Nat), bad : BOOLEAN]
  /\ temp \in [Exports -> [by : SUBSET Exports, rows : Seq(Nat), bad : BOOLEAN]]
  /\ step \in [Exports -> Works \cup {"idle", "cleaning", "over"}]
  /\ opened \in [Exports -> 0 .. Len(tables)] /\ kept \subseteq Exports
  /\ {rowCount, start, rowsDone} \subseteq [Exports -> Nat]
  /\ {streamError, aborted} \subseteq [Exports -> BOOLEAN]
  /\ outcome \in [Exports -> {"none", "declined", "cancelled", "failed", "succeeded"}]

\* The file asked for is what one export wrote, with no write lost, and it is the whole
\* table, every row once, if the table has not changed since that export opened it.
DestinationIsWhole ==
  \A e \in destination.by :
    /\ ~destination.bad /\ outcome[e] = "succeeded"
    /\ opened[e] = Len(tables) => destination.rows = Last(tables)

\* An export the user cancelled, or that failed, has not replaced the file asked for.
CancelledLeavesIt == \A e \in destination.by : ~aborted[e]

\* An export that is over has left no file besides, unless it could not be removed.
NoLitter == \A e \in Exports : step[e] = "over" => temp[e] = NoFile \/ e \in kept

\* As long as the table keeps the rows it had when it was opened, the notification shows no
\* more of them than are in the file, and goes past their number only if there have been more.
KeepsRows(e) == \A i \in opened[e] .. Len(tables) : Len(tables[i]) >= rowCount[e]
Outgrown(e) == \E i \in opened[e] .. Len(tables) : Len(tables[i]) > rowCount[e]
Exporting(e) == step[e] \in {"reading", "writing", "ending", "renaming"}
ShowsRowsWritten ==
  \A e \in Exports : Exporting(e) /\ KeepsRows(e) =>
    /\ Lesser(rowsDone[e], rowCount[e]) <= Len(temp[e].rows)
    /\ rowsDone[e] > rowCount[e] => Outgrown(e)

\* "rowsDone is then a lower bound": past their number too, no more than are in the file.
OutgrownIsLowerBound ==
  \A e \in Exports : Exporting(e) /\ KeepsRows(e) => rowsDone[e] <= Len(temp[e].rows)

CsvIsWhole == DestinationIsWhole /\ NoLitter /\ ShowsRowsWritten /\ CancelledLeavesIt
=============================================================================
