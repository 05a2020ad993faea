---------------------------- MODULE FilesProofs -----------------------------
(* What is kept of files: the bytes of editors and servers, the items of   *)
(* the content tree, and what is downloaded.  Theorems of EditorFiles,     *)
(* ServerFiles, ContentCommands and Transfers, for any number of windows,  *)
(* commands and files, stated of the workbench they are parts of.          *)
EXTENDS MCWorkbench, FiniteSetTheorems, SequenceTheorems, WellFoundedInduction, TLAPS

(* A step of the workbench is a step of one part: the others stay.         *)
LEMMA PartsStep ==
    [WorkbenchNext]_workbenchVars =>
        /\ [NbNext]_nbVars /\ [IwNext]_iwVars /\ [RpNext]_rpVars /\ [EnNext]_enVars
        /\ [PsNext]_psVars /\ [ContentNext]_contentVars /\ [EfNext]_efVars
        /\ [SvNext]_svVars /\ [TrNext]_trVars /\ UNCHANGED part
BY DEF WorkbenchNext, workbenchVars, NotebookSteps, WindowSteps, PanelSteps, StubSteps,
   ProfileSteps, ContentSteps, EditorSteps, ServerSteps, TransferSteps

-----------------------------------------------------------------------------
(* Editors.  The tag a window keeps is that of the bytes it shows, or      *)
(* none: a server's may be that of properties older than the content.      *)
Shown == [open : BOOLEAN, base : 0 .. MaxVersion, stamp : 0 .. MaxVersion, modified : BOOLEAN]
Reading == [at : {"idle", "properties", "content", "served"}, stamp : 0 .. MaxVersion,
            props : Tags, version : 0 .. MaxVersion, tag : Tags]
Saving == [at : {"idle", "checked", "sent", "landed", "saved"},
           tag : Tags, version : 0 .. MaxVersion]

Behind(tag, version) ==
    \/ tag \in {NoTag, version}
    \/ kind = "server" /\ "untagged" \in EfMayMeet /\ tag < version

ReadFits(read, other) ==
    /\ other = NoRead
    /\ read.version <= disk.version
    /\ read.at = "properties" => kind = "server"
    /\ read.props # NoTag => kind = "server" /\ read.props <= disk.version
    /\ read.at = "served" => Behind(read.tag, read.version)

SaveFits(save, editor, tag) ==
    /\ editor.base <= disk.version /\ save.version <= disk.version
    /\ Behind(tag, editor.base)
    /\ save.at = "sent" => save.tag # NoTag /\ Behind(save.tag, editor.base)

WindowFits(w) ==
    /\ ReadFits(reads[w]["editor"], reads[w]["other"])
    /\ SaveFits(saves[w], editors[w], tags[w])
    /\ reads[w]["editor"] # NoRead => ~editors[w].modified /\ saves[w] = NoSave

EfInv == \A w \in EditorWindows : WindowFits(w)

LEMMA EfBound == MaxVersion \in Nat /\ NoTag \notin Nat
BY EditorFilesAssumption, Zenon

LEMMA EfNulls ==
    /\ NoRead \in Reading /\ NoRead.at = "idle" /\ NoRead.version = 0 /\ NoRead.props = NoTag
    /\ NoSave \in Saving /\ NoSave.at = "idle" /\ NoSave.version = 0
    /\ Closed \in Shown /\ Closed.base = 0 /\ Closed.modified = FALSE
    /\ 0 \in 0 .. MaxVersion /\ NoTag \in Tags /\ 0 .. MaxVersion \subseteq Tags
<1> MaxVersion \in Nat
  BY EditorFilesAssumption, Zenon
<1>1. 0 \in 0 .. MaxVersion /\ NoTag \in Tags /\ 0 .. MaxVersion \subseteq Tags
  BY DEF Tags
<1>2. NoRead \in Reading /\ NoSave \in Saving /\ Closed \in Shown
  BY <1>1 DEF NoRead, NoSave, Closed, Reading, Saving, Shown
<1>3. QED
  BY <1>1, <1>2 DEF NoRead, NoSave, Closed

LEMMA EfTypes ==
    EfTypeOK <=>
        /\ kind \in {"content", "server"}
        /\ disk \in [version : 0 .. MaxVersion, stamp : 0 .. MaxVersion, by : Anyone]
        /\ tags \in [EditorWindows -> Tags]
        /\ editors \in [EditorWindows -> Shown]
        /\ reads \in [EditorWindows -> [Readers -> Reading]]
        /\ saves \in [EditorWindows -> Saving]
BY DEF EfTypeOK, Shown, Reading, Saving

LEMMA EfBegins == EfInit => EfTypeOK /\ EfInv
<1> SUFFICES ASSUME EfInit PROVE EfTypeOK /\ EfInv
  OBVIOUS
<1>1. EfTypeOK
  BY EfNulls, EfTypes, Zenon DEF EfInit, Anyone
<1>2. ASSUME NEW w \in EditorWindows
      PROVE  WindowFits(w)
  <2>1. /\ reads[w]["editor"] = NoRead /\ reads[w]["other"] = NoRead /\ saves[w] = NoSave
        /\ editors[w] = Closed /\ tags[w] = NoTag /\ disk.version = 0
    BY Zenon DEF EfInit, Readers
  <2>2. QED
    BY <2>1, EfNulls DEF WindowFits, ReadFits, SaveFits, Behind
<1>3. QED
  BY <1>1, <1>2 DEF EfInv

(* A new version is within the bound.                                      *)
LEMMA WrittenIs ==
    ASSUME EfTypeOK, NEW who \in Anyone, Written(who)
    PROVE  /\ disk' \in [version : 0 .. MaxVersion, stamp : 0 .. MaxVersion, by : Anyone]
           /\ disk'.version = disk.version + 1 /\ disk'.by = who
           /\ disk.version + 1 \in 0 .. MaxVersion
<1>1. /\ disk.version \in 0 .. MaxVersion /\ disk.stamp \in 0 .. MaxVersion
      /\ disk.version < MaxVersion
  BY EfTypes, Zenon DEF Written
<1> MaxVersion \in Nat
  BY EditorFilesAssumption, Zenon
<1>2. disk.version + 1 \in 0 .. MaxVersion
  BY <1>1
<1>3. PICK s \in {disk.stamp, disk.version + 1} :
        disk' = [version |-> disk.version + 1, stamp |-> s, by |-> who]
  BY Zenon DEF Written
<1>4. QED
  BY <1>1, <1>2, <1>3

LEMMA TaggedIs == ASSUME NEW t \in 0 .. MaxVersion PROVE Tagged(t) \subseteq Tags
BY EfNulls DEF Tagged, Tags

LEMMA EfReadTypes ==
    ASSUME EfTypeOK, NEW w \in EditorWindows, NEW r \in Readers,
           \/ Opens(w, r) \/ Properties(w, r) \/ Serves(w, r) \/ ReadAnswered(w, r)
           \/ ReadFails(w, r)
    PROVE  EfTypeOK'
<1>1. /\ reads[w][r] \in Reading /\ disk.version \in 0 .. MaxVersion
      /\ disk.stamp \in 0 .. MaxVersion
  BY EfTypes
<1>2. CASE Opens(w, r)
  <2>1. PICK at \in {"properties", "content"} :
          reads' = [reads EXCEPT ![w][r] = [NoRead EXCEPT !.at = at, !.stamp = disk.stamp]]
    BY <1>2, Zenon DEF Opens, SetsRead
  <2>2. [NoRead EXCEPT !.at = at, !.stamp = disk.stamp] \in Reading
    BY <1>1, EfNulls DEF Reading
  <2>3. QED
    BY <1>2, <2>1, <2>2, EfTypes, Zenon DEF Opens, EfTypeOK, Reading
<1>3. CASE Properties(w, r)
  <2>1. PICK t \in Tags :
          reads' = [reads EXCEPT ![w][r] = [reads[w][r] EXCEPT !.at = "content", !.props = t]]
    BY <1>1, <1>3, TaggedIs, Zenon DEF Properties, SetsRead
  <2>2. [reads[w][r] EXCEPT !.at = "content", !.props = t] \in Reading
    BY <1>1 DEF Reading
  <2>3. QED
    BY <1>3, <2>1, <2>2, EfTypes, Zenon DEF Properties, EfTypeOK, Reading
<1>4. CASE Serves(w, r)
  <2>1. PICK t \in Tags :
          reads' = [reads EXCEPT ![w][r] = [reads[w][r] EXCEPT !.at = "served",
                      !.version = disk.version, !.tag = t]]
    <3>1. reads[w][r].props \in Tags
      BY <1>1 DEF Reading
    <3>2. QED
      BY <1>1, <1>4, <3>1, TaggedIs, Zenon DEF Serves, SetsRead
  <2>2. [reads[w][r] EXCEPT !.at = "served", !.version = disk.version, !.tag = t] \in Reading
    BY <1>1 DEF Reading
  <2>3. QED
    BY <1>4, <2>1, <2>2, EfTypes, Zenon DEF Serves, EfTypeOK, Reading
<1>5. CASE ReadAnswered(w, r)
  <2> DEFINE read == reads[w][r]
             shows == [open |-> TRUE, base |-> read.version, stamp |-> read.stamp,
                       modified |-> FALSE]
  <2>1. read.tag \in Tags /\ shows \in Shown
    BY <1>1 DEF Reading, Shown
  <2>2. /\ tags' = [tags EXCEPT ![w] = read.tag]
        /\ editors' \in {[editors EXCEPT ![w] = shows], editors}
        /\ reads' = [reads EXCEPT ![w][r] = NoRead]
        /\ UNCHANGED <<kind, disk, saves>>
    BY <1>5 DEF ReadAnswered, SetsRead
  <2>3. tags' \in [EditorWindows -> Tags] /\ editors' \in [EditorWindows -> Shown]
    <3> HIDE DEF shows
    <3> QED BY <2>1, <2>2, EfTypes
  <2>4. reads' \in [EditorWindows -> [Readers -> Reading]]
    BY <2>2, EfNulls, EfTypes
  <2>5. QED
    BY <2>2, <2>3, <2>4, EfTypes DEF EfTypeOK, Reading, Shown
<1>6. CASE ReadFails(w, r)
  <2>1. reads' \in [EditorWindows -> [Readers -> Reading]]
    BY <1>6, EfNulls, EfTypes DEF ReadFails, SetsRead
  <2>2. QED
    BY <1>6, <2>1, EfTypes DEF ReadFails, EfTypeOK, Reading
<1>7. QED
  BY <1>2, <1>3, <1>4, <1>5, <1>6

LEMMA EfSaveTypes ==
    ASSUME EfTypeOK, NEW w \in EditorWindows,
           \/ Types(w) \/ BeginSave(w) \/ Sends(w) \/ Lands(w)
           \/ SaveAnswered(w) \/ SaveFails(w) \/ Stamps(w)
    PROVE  EfTypeOK'
<1>1. /\ saves[w] \in Saving /\ editors[w] \in Shown /\ tags[w] \in Tags
      /\ disk.version \in 0 .. MaxVersion /\ disk.stamp \in 0 .. MaxVersion
  BY EfTypes
<1>3. CASE Types(w)
  <2>1. [editors[w] EXCEPT !.modified = TRUE] \in Shown
    BY <1>1 DEF Shown
  <2>2. editors' \in [EditorWindows -> Shown]
    BY <1>3, <2>1, EfTypes DEF Types
  <2>3. QED
    BY <1>3, <2>2, EfTypes DEF Types, EfTypeOK, Shown
<1>4. CASE BeginSave(w)
  <2>1. [NoSave EXCEPT !.at = "checked"] \in Saving
    BY EfNulls DEF Saving
  <2>2. saves' \in [EditorWindows -> Saving]
    BY <1>4, <2>1, EfTypes DEF BeginSave, Saves
  <2>3. QED
    BY <1>4, <2>2, EfTypes DEF BeginSave, EfTypeOK, Saving
<1>5. CASE Sends(w)
  <2>1. [saves[w] EXCEPT !.at = "sent", !.tag = tags[w]] \in Saving
    BY <1>1 DEF Saving
  <2>2. saves' \in [EditorWindows -> Saving]
    BY <1>5, <2>1, EfNulls, EfTypes DEF Sends, SendsTag, Saves
  <2>3. QED
    BY <1>5, <2>2, EfTypes DEF Sends, EfTypeOK, Saving
<1>6. CASE Lands(w)
  <2>1. w \in Anyone /\ Written(w)
    BY <1>6, Zenon DEF Anyone, Lands
  <2>2. /\ disk' \in [version : 0 .. MaxVersion, stamp : 0 .. MaxVersion, by : Anyone]
        /\ disk.version + 1 \in 0 .. MaxVersion
    BY <2>1, WrittenIs
  <2>3. [saves[w] EXCEPT !.at = "landed", !.version = disk.version + 1] \in Saving
    BY <1>1, <2>2 DEF Saving
  <2>4. saves' \in [EditorWindows -> Saving]
    BY <1>6, <2>3, EfTypes DEF Lands, Saves
  <2>5. QED
    BY <1>6, <2>2, <2>4, EfTypes DEF Lands, EfTypeOK, Saving
<1>7. CASE SaveAnswered(w)
  <2>1. saves[w].version \in 0 .. MaxVersion
    BY <1>1 DEF Saving
  <2>2. tags' \in [EditorWindows -> Tags]
    BY <1>7, <2>1, TaggedIs, EfTypes DEF SaveAnswered, NextTag
  <2>3. [editors[w] EXCEPT !.base = saves[w].version, !.modified = FALSE] \in Shown
    BY <1>1, <2>1 DEF Shown
  <2>4. editors' \in [EditorWindows -> Shown]
    <3>1. editors' = [editors EXCEPT ![w] =
                        [editors[w] EXCEPT !.base = saves[w].version, !.modified = FALSE]]
      BY <1>7, EfTypes DEF SaveAnswered
    <3>2. QED
      BY <2>3, <3>1, EfTypes
  <2>5. [saves[w] EXCEPT !.at = "saved"] \in Saving
    BY <1>1 DEF Saving
  <2>6. saves' \in [EditorWindows -> Saving]
    BY <1>7, <2>5, EfTypes DEF SaveAnswered, Saves
  <2>7. QED
    BY <1>7, <2>2, <2>4, <2>6, EfTypes DEF SaveAnswered, EfTypeOK, Shown, Saving
<1>8. CASE SaveFails(w)
  <2>1. saves' \in [EditorWindows -> Saving]
    BY <1>8, EfNulls, EfTypes DEF SaveFails, Saves
  <2>2. QED
    BY <1>8, <2>1, EfTypes DEF SaveFails, EfTypeOK, Saving
<1>9. CASE Stamps(w)
  <2>1. [editors[w] EXCEPT !.stamp = disk.stamp] \in Shown
    BY <1>1 DEF Shown
  <2>2. editors' \in [EditorWindows -> Shown] /\ saves' \in [EditorWindows -> Saving]
    BY <1>9, <2>1, EfNulls, EfTypes DEF Stamps, Saves
  <2>3. QED
    BY <1>9, <2>2, EfTypes DEF Stamps, EfTypeOK, Shown, Saving
<1>10. QED
  BY <1>3, <1>4, <1>5, <1>6, <1>7, <1>8, <1>9

LEMMA EfTyped == EfTypeOK /\ [EfNext]_efVars => EfTypeOK'
<1> SUFFICES ASSUME EfTypeOK, [EfNext]_efVars PROVE EfTypeOK'
  OBVIOUS
<1>1. CASE UNCHANGED efVars
  BY <1>1 DEF efVars, EfTypeOK
<1>2. CASE Changes
  <2>1. disk' \in [version : 0 .. MaxVersion, stamp : 0 .. MaxVersion, by : Anyone]
    BY <1>2, WrittenIs, Zenon DEF Changes, Anyone
  <2>2. QED
    BY <1>2, <2>1, Zenon DEF Changes, EfTypeOK
<1>3. QED
  BY <1>1, <1>2, EfReadTypes, EfSaveTypes DEF EfNext

(* What a step leaves of a window stays fit: versions only grow.           *)
LEMMA WindowStays ==
    ASSUME EfTypeOK, NEW w \in EditorWindows, WindowFits(w), UNCHANGED kind,
           reads'[w] = reads[w], saves'[w] = saves[w], editors'[w] = editors[w],
           tags'[w] = tags[w], disk'.version \in Nat, disk.version <= disk'.version
    PROVE  WindowFits(w)'
<1>1. /\ reads[w]["editor"] \in Reading /\ editors[w] \in Shown /\ saves[w] \in Saving
      /\ disk.version \in Nat
  BY EfTypes DEF Readers
<1>2. /\ reads[w]["editor"].version \in Nat /\ reads[w]["editor"].props \in Nat \cup {NoTag}
      /\ editors[w].base \in Nat /\ saves[w].version \in Nat
  BY <1>1 DEF Reading, Shown, Saving, Tags
<1>3. ReadFits(reads[w]["editor"], reads[w]["other"])'
  BY <1>1, <1>2 DEF WindowFits, ReadFits, Behind
<1>4. SaveFits(saves[w], editors[w], tags[w])'
  BY <1>1, <1>2 DEF WindowFits, SaveFits, Behind
<1>5. QED
  BY <1>3, <1>4 DEF WindowFits

LEMMA DiskIs == EfTypeOK => disk.version \in Nat
<1> SUFFICES ASSUME EfTypeOK PROVE disk.version \in Nat
  OBVIOUS
<1>1. disk.version \in 0 .. MaxVersion
  BY EfTypes
<1>2. QED
  BY <1>1, EfBound

LEMMA EditorReads == "editor" \in Readers /\ "other" \in Readers
BY DEF Readers

LEMMA ReadingIs ==
    ASSUME EfTypeOK, NEW w \in EditorWindows
    PROVE  /\ reads[w]["editor"] \in Reading
           /\ reads[w]["editor"].version \in Nat
           /\ reads[w]["editor"].props \in Nat \cup {NoTag}
           /\ reads[w]["editor"].tag \in Nat \cup {NoTag}
           /\ disk.version \in Nat
<1>1. reads[w]["editor"] \in Reading /\ disk.version \in 0 .. MaxVersion
  BY EfTypes, EditorReads
<1>2. /\ reads[w]["editor"].version \in 0 .. MaxVersion
      /\ reads[w]["editor"].props \in 0 .. MaxVersion \cup {NoTag}
      /\ reads[w]["editor"].tag \in 0 .. MaxVersion \cup {NoTag}
  BY <1>1 DEF Reading, Tags
<1>3. QED
  BY <1>1, <1>2, EfBound

(* Only what is set for one window's editor is read anew.                  *)
LEMMA ReadIsSet ==
    ASSUME EfTypeOK, NEW w \in EditorWindows, NEW f, SetsRead(w, "editor", f)
    PROVE  /\ reads'[w]["editor"] = f /\ reads'[w]["other"] = reads[w]["other"]
           /\ \A v \in EditorWindows \ {w} : reads'[v] = reads[v]
<1>1. reads \in [EditorWindows -> [Readers -> Reading]]
  BY EfTypes
<1>2. QED
  BY <1>1, EditorReads DEF SetsRead

LEMMA OthersStay ==
    ASSUME EfTypeOK, EfInv, NEW w \in EditorWindows, WindowFits(w)', UNCHANGED kind,
           \A v \in EditorWindows \ {w} : /\ reads'[v] = reads[v] /\ saves'[v] = saves[v]
                                          /\ editors'[v] = editors[v] /\ tags'[v] = tags[v],
           disk'.version \in Nat, disk.version <= disk'.version
    PROVE  EfInv'
<1>1. ASSUME NEW v \in EditorWindows, v # w PROVE WindowFits(v)'
  <2>1. WindowFits(v) /\ v \in EditorWindows \ {w}
    BY <1>1 DEF EfInv
  <2>2. QED
    BY <2>1, WindowStays
<1>2. QED
  BY <1>1 DEF EfInv

LEMMA ReadMoves ==
    ASSUME EfTypeOK, EfInv, NEW w \in EditorWindows, NEW f, SetsRead(w, "editor", f),
           UNCHANGED <<kind, disk, editors, tags, saves>>, ReadFits(f, NoRead),
           ~editors[w].modified, saves[w] = NoSave
    PROVE  EfInv'
<1>1. WindowFits(w) /\ reads[w]["other"] = NoRead
  BY DEF EfInv, WindowFits, ReadFits
<1>2. /\ reads'[w]["editor"] = f /\ reads'[w]["other"] = NoRead
      /\ \A v \in EditorWindows \ {w} : reads'[v] = reads[v]
  BY <1>1, ReadIsSet
<1>3. ReadFits(reads[w]["editor"], reads[w]["other"])'
  BY <1>2 DEF ReadFits, Behind
<1>4. SaveFits(saves[w], editors[w], tags[w])'
  BY <1>1 DEF WindowFits, SaveFits, Behind
<1>5. WindowFits(w)'
  BY <1>3, <1>4 DEF WindowFits
<1>6. disk'.version \in Nat /\ disk.version <= disk'.version
  BY ReadingIs
<1>7. QED
  BY <1>2, <1>5, <1>6, OthersStay

LEMMA NatOrder ==
    ASSUME NEW m \in Nat
    PROVE  0 <= m /\ m <= m /\ \A n \in Nat : n <= m => n = m \/ n < m
OBVIOUS

LEMMA NatNext == ASSUME NEW m \in Nat PROVE m + 1 \in Nat /\ m <= m + 1
OBVIOUS

LEMMA ReadKeepsFit ==
    ASSUME EfTypeOK, EfInv, "other reader" \notin EfMayMeet,
           NEW w \in EditorWindows, NEW r \in Readers,
           \/ Opens(w, r) \/ Properties(w, r) \/ Serves(w, r) \/ ReadAnswered(w, r)
           \/ ReadFails(w, r)
    PROVE  EfInv'
<1> DEFINE read == reads[w]["editor"]
<1>1. /\ WindowFits(w) /\ reads[w]["other"] = NoRead /\ ReadFits(read, NoRead)
      /\ read # NoRead => ~editors[w].modified /\ saves[w] = NoSave
  BY Zenon DEF EfInv, WindowFits, ReadFits
<1>2. r = "editor"
  <2>1. r # "other"
    BY <1>1, EfNulls, Zenon DEF Opens, Properties, Serves, ReadAnswered, ReadFails
  <2>2. QED
    BY <2>1, Zenon DEF Readers
<1>3. /\ read \in Reading /\ read.version \in Nat /\ read.props \in Nat \cup {NoTag}
      /\ read.tag \in Nat \cup {NoTag} /\ disk.version \in Nat
  BY ReadingIs, Zenon
<1>10. disk.version \in Nat
  BY <1>3, Zenon
<1>11. 0 <= disk.version /\ disk.version <= disk.version
  BY <1>10, NatOrder, Zenon
<1>4. CASE Opens(w, "editor")
  <2> DEFINE begins == [NoRead EXCEPT !.at = IF kind = "server" THEN "properties" ELSE "content",
                                      !.stamp = disk.stamp]
  <2>1. SetsRead(w, "editor", begins) /\ UNCHANGED <<kind, disk, editors, tags, saves>>
        /\ ~editors[w].modified /\ saves[w] = NoSave
    BY <1>4, Zenon DEF Opens
  <2>2. /\ begins.version = 0 /\ begins.props = NoTag /\ begins.at # "served"
        /\ begins.at = "properties" => kind = "server"
    BY Zenon DEF NoRead
  <2> HIDE DEF begins
  <2>3. ReadFits(begins, NoRead)
    BY <1>11, <2>2, Zenon DEF ReadFits
  <2>4. QED
    BY <2>1, <2>3, ReadMoves, Zenon
<1>5. CASE Properties(w, "editor")
  <2>1. PICK t \in {disk.version, NoTag} :
          SetsRead(w, "editor", [read EXCEPT !.at = "content", !.props = t])
    BY <1>5, Zenon DEF Properties, Tagged
  <2> DEFINE f == [read EXCEPT !.at = "content", !.props = t]
  <2>2. f.version = read.version /\ f.props = t /\ f.at = "content"
    BY <1>3, Zenon DEF Reading
  <2>3. read.at = "properties" /\ UNCHANGED <<kind, disk, editors, tags, saves>>
    BY <1>5, Zenon DEF Properties
  <2>4. read # NoRead
    BY <2>3, EfNulls, Zenon
  <2>5. SetsRead(w, "editor", f)
    BY <2>1, Zenon
  <2> HIDE DEF f
  <2>6. kind = "server" /\ read.version <= disk.version
    BY <1>1, <2>3, Zenon DEF ReadFits
  <2>7. ReadFits(f, NoRead)
    <3>1. t # NoTag => t <= disk.version
      BY <1>11, Zenon
    <3>2. QED
      BY <2>2, <2>6, <3>1, Zenon DEF ReadFits
  <2>8. QED
    BY <1>1, <2>3, <2>4, <2>5, <2>7, ReadMoves, Zenon
<1>6. CASE Serves(w, "editor")
  <2>1. PICK t \in Tagged(disk.version) :
          SetsRead(w, "editor", [read EXCEPT !.at = "served", !.version = disk.version,
                                   !.tag = IF t = NoTag THEN read.props ELSE t])
    BY <1>6, Zenon DEF Serves
  <2> DEFINE f == [read EXCEPT !.at = "served", !.version = disk.version,
                               !.tag = IF t = NoTag THEN read.props ELSE t]
  <2>2. /\ f.version = disk.version /\ f.props = read.props /\ f.at = "served"
        /\ f.tag = IF t = NoTag THEN read.props ELSE t
    BY <1>3, Zenon DEF Reading
  <2>3. read.at = "content" /\ UNCHANGED <<kind, disk, editors, tags, saves>>
    BY <1>6, Zenon DEF Serves
  <2>4. read # NoRead
    BY <2>3, EfNulls, Zenon
  <2>5. SetsRead(w, "editor", f)
    BY <2>1, Zenon
  <2> HIDE DEF f
  <2>6. t = disk.version \/ (t = NoTag /\ "untagged" \in EfMayMeet)
    BY <2>1, Zenon DEF Tagged
  <2>7. disk.version # NoTag
    BY <1>3, EfBound, Zenon
  <2>8. read.props # NoTag => kind = "server" /\ read.props <= disk.version
    BY <1>1, Zenon DEF ReadFits
  <2>9. Behind(f.tag, f.version)
    <3>1. CASE t = disk.version
      BY <2>2, <2>7, <3>1, Zenon DEF Behind
    <3>2. CASE t = NoTag /\ "untagged" \in EfMayMeet
      <4>1. f.tag = read.props
        BY <2>2, <3>2, Zenon
      <4>2. ASSUME read.props # NoTag
            PROVE  read.props = disk.version \/ read.props < disk.version
        <5>1. read.props \in Nat /\ read.props <= disk.version
          BY <1>3, <2>8, <4>2, Zenon
        <5>2. QED
          BY <1>10, <5>1, NatOrder, Zenon
      <4>3. QED
        BY <2>2, <2>8, <3>2, <4>1, <4>2, Zenon DEF Behind
    <3>3. QED
      BY <2>6, <3>1, <3>2, Zenon
  <2>10. ReadFits(f, NoRead)
    BY <1>11, <2>2, <2>8, <2>9, Zenon DEF ReadFits
  <2>11. QED
    BY <1>1, <2>3, <2>4, <2>5, <2>10, ReadMoves, Zenon
<1>7. CASE ReadAnswered(w, "editor")
  <2> DEFINE shows == [open |-> TRUE, base |-> read.version, stamp |-> read.stamp,
                       modified |-> FALSE]
  <2>1. /\ tags' = [tags EXCEPT ![w] = read.tag] /\ editors' = [editors EXCEPT ![w] = shows]
        /\ read.at = "served" /\ SetsRead(w, "editor", NoRead) /\ UNCHANGED <<kind, disk, saves>>
    BY <1>7, Zenon DEF ReadAnswered
  <2>2. read # NoRead
    BY <2>1, EfNulls, Zenon
  <2>3. shows.base = read.version /\ shows.modified = FALSE
    BY Zenon
  <2> HIDE DEF shows
  <2>4. tags \in [EditorWindows -> Tags] /\ editors \in [EditorWindows -> Shown]
    BY EfTypes, Zenon
  <2>5. /\ tags'[w] = read.tag /\ editors'[w] = shows
        /\ \A v \in EditorWindows \ {w} : tags'[v] = tags[v] /\ editors'[v] = editors[v]
    BY <2>1, <2>4, Zenon
  <2>6. /\ reads'[w]["editor"] = NoRead /\ reads'[w]["other"] = NoRead
        /\ \A v \in EditorWindows \ {w} : reads'[v] = reads[v]
    BY <1>1, <2>1, ReadIsSet, Zenon
  <2>7. saves[w] = NoSave /\ Behind(read.tag, read.version) /\ read.version <= disk.version
    BY <1>1, <2>1, <2>2, Zenon DEF ReadFits
  <2>8. ReadFits(reads[w]["editor"], reads[w]["other"])'
    <3>1. disk' = disk
      BY <2>1, Zenon
    <3>2. QED
      BY <1>11, <2>6, <3>1, EfNulls, Zenon DEF ReadFits
  <2>9. SaveFits(saves[w], editors[w], tags[w])'
    <3>1. Behind(tags[w], editors[w].base)'
      BY <2>1, <2>3, <2>5, <2>7, Zenon DEF Behind
    <3>2. saves'[w] = NoSave /\ disk' = disk /\ editors'[w].base = read.version
      BY <2>1, <2>3, <2>5, <2>7, Zenon
    <3>3. QED
      BY <1>11, <2>7, <3>1, <3>2, EfNulls, Zenon DEF SaveFits
  <2>10. WindowFits(w)'
    BY <2>6, <2>8, <2>9, Zenon DEF WindowFits
  <2>11. disk'.version \in Nat /\ disk.version <= disk'.version
    <3>1. disk' = disk
      BY <2>1, Zenon
    <3>2. QED
      BY <1>10, <1>11, <3>1, Zenon
  <2>12. QED
    BY <2>1, <2>5, <2>6, <2>10, <2>11, OthersStay, Zenon
<1>8. CASE ReadFails(w, "editor")
  <2>1. /\ SetsRead(w, "editor", NoRead) /\ read # NoRead
        /\ UNCHANGED <<kind, disk, editors, tags, saves>>
    BY <1>8, Zenon DEF ReadFails
  <2>2. ReadFits(NoRead, NoRead)
    BY <1>11, EfNulls, Zenon DEF ReadFits
  <2>3. QED
    BY <1>1, <2>1, <2>2, ReadMoves, Zenon
<1>9. QED
  BY <1>2, <1>4, <1>5, <1>6, <1>7, <1>8, Zenon

(* A save that lands replaces the bytes its editor shows: its tag is that  *)
(* of these, as a tag that is behind was never that of the file since.     *)
LEMMA SavingIs ==
    ASSUME EfTypeOK, NEW w \in EditorWindows
    PROVE  /\ saves[w] \in Saving /\ editors[w] \in Shown
           /\ editors[w].base \in Nat /\ saves[w].version \in Nat /\ disk.version \in Nat
<1>1. saves[w] \in Saving /\ editors[w] \in Shown /\ disk.version \in 0 .. MaxVersion
  BY EfTypes
<1>2. editors[w].base \in 0 .. MaxVersion /\ saves[w].version \in 0 .. MaxVersion
  BY <1>1 DEF Saving, Shown
<1>3. QED
  BY <1>1, <1>2, EfBound

LEMMA LandsOnItsBase ==
    ASSUME EfTypeOK, EfInv, NEW w \in EditorWindows, Lands(w)
    PROVE  disk.version = editors[w].base
<1>1. /\ SaveFits(saves[w], editors[w], tags[w]) /\ saves[w].at = "sent"
      /\ saves[w].tag = disk.version
  BY DEF EfInv, WindowFits, Lands
<1>2. Behind(saves[w].tag, editors[w].base) /\ editors[w].base <= disk.version
      /\ saves[w].tag # NoTag
  BY <1>1 DEF SaveFits
<1>3. editors[w].base \in Nat /\ disk.version \in Nat
  BY SavingIs
<1>4. disk.version = editors[w].base \/ disk.version < editors[w].base
  BY <1>1, <1>2 DEF Behind
<1>5. QED
  BY <1>2, <1>3, <1>4

(* Only what is set for one window changes.                                *)
LEMMA SaveIsSet ==
    ASSUME EfTypeOK, NEW w \in EditorWindows, NEW s, Saves(w, s)
    PROVE  saves'[w] = s /\ \A v \in EditorWindows \ {w} : saves'[v] = saves[v]
<1>1. saves \in [EditorWindows -> Saving]
  BY EfTypes
<1>2. QED
  BY <1>1 DEF Saves

LEMMA SaveMoves ==
    ASSUME EfTypeOK, EfInv, NEW w \in EditorWindows, NEW s, Saves(w, s),
           UNCHANGED <<kind, disk, tags, editors, reads>>,
           SaveFits(s, editors[w], tags[w]), reads[w]["editor"] = NoRead \/ s = NoSave
    PROVE  EfInv'
<1>1. WindowFits(w)
  BY DEF EfInv
<1>2. saves'[w] = s /\ \A v \in EditorWindows \ {w} : saves'[v] = saves[v]
  BY SaveIsSet
<1>3. ReadFits(reads[w]["editor"], reads[w]["other"])'
  BY <1>1 DEF WindowFits, ReadFits, Behind
<1>4. SaveFits(saves[w], editors[w], tags[w])'
  BY <1>2 DEF SaveFits, Behind
<1>5. WindowFits(w)'
  BY <1>1, <1>2, <1>3, <1>4 DEF WindowFits
<1>6. disk'.version \in Nat /\ disk.version <= disk'.version
  BY SavingIs
<1>7. QED
  BY <1>2, <1>5, <1>6, OthersStay

LEMMA SaveKeepsFit ==
    ASSUME EfTypeOK, EfInv, NEW w \in EditorWindows,
           \/ Types(w) \/ BeginSave(w) \/ Sends(w) \/ Lands(w)
           \/ SaveAnswered(w) \/ SaveFails(w) \/ Stamps(w)
    PROVE  EfInv'
<1>1. /\ WindowFits(w) /\ SaveFits(saves[w], editors[w], tags[w])
      /\ ReadFits(reads[w]["editor"], reads[w]["other"])
      /\ reads[w]["editor"] # NoRead => ~editors[w].modified /\ saves[w] = NoSave
  BY DEF EfInv, WindowFits
<1>2. /\ saves[w] \in Saving /\ editors[w] \in Shown
      /\ editors[w].base \in Nat /\ saves[w].version \in Nat /\ disk.version \in Nat
  BY SavingIs
<1>3. /\ tags \in [EditorWindows -> Tags] /\ editors \in [EditorWindows -> Shown]
      /\ saves \in [EditorWindows -> Saving]
  BY EfTypes
<1>4. 0 <= disk.version /\ disk.version <= disk.version
  BY <1>2, NatOrder
<1>5. /\ editors[w].base <= disk.version /\ saves[w].version <= disk.version
      /\ Behind(tags[w], editors[w].base)
  BY <1>1 DEF SaveFits
<1>6. ASSUME NEW s, s.version = 0 \/ s.version = saves[w].version, s.at # "sent"
      PROVE  SaveFits(s, editors[w], tags[w])
  BY <1>4, <1>5, <1>6 DEF SaveFits
<1>7. CASE Types(w)
  <2>1. /\ editors' = [editors EXCEPT ![w] = [editors[w] EXCEPT !.modified = TRUE]]
        /\ reads[w]["editor"] = NoRead /\ UNCHANGED <<kind, disk, tags, reads, saves>>
    BY <1>3, <1>7 DEF Types
  <2>2. /\ editors'[w].base = editors[w].base
        /\ \A v \in EditorWindows \ {w} : editors'[v] = editors[v]
    BY <1>2, <1>3, <2>1 DEF Shown
  <2>3. WindowFits(w)'
    BY <1>1, <2>1, <2>2 DEF WindowFits, ReadFits, SaveFits, Behind
  <2>4. QED
    BY <1>2, <1>4, <2>1, <2>2, <2>3, OthersStay
<1>8. CASE BeginSave(w)
  <2> DEFINE s == [NoSave EXCEPT !.at = "checked"]
  <2>1. s.version = 0 /\ s.at = "checked"
    BY DEF NoSave
  <2>2. Saves(w, s) /\ UNCHANGED <<kind, disk, tags, editors, reads>> /\ editors[w].modified
    BY <1>8 DEF BeginSave
  <2> HIDE DEF s
  <2>3. reads[w]["editor"] = NoRead /\ SaveFits(s, editors[w], tags[w])
    BY <1>1, <1>6, <2>1, <2>2
  <2>4. QED
    BY <2>2, <2>3, SaveMoves
<1>9. CASE Sends(w)
  <2> DEFINE s == [saves[w] EXCEPT !.at = "sent", !.tag = tags[w]]
  <2>1. s.version = saves[w].version /\ s.at = "sent" /\ s.tag = tags[w]
    BY <1>2 DEF Saving
  <2>2. /\ saves[w].at = "checked" /\ UNCHANGED <<kind, disk, tags, editors, reads>>
        /\ IF tags[w] = NoTag THEN Saves(w, NoSave) ELSE Saves(w, s)
    BY <1>9 DEF Sends, SendsTag
  <2> HIDE DEF s
  <2>3. saves[w] # NoSave
    BY <2>2, EfNulls
  <2>4. CASE tags[w] = NoTag
    BY <1>1, <1>6, <2>2, <2>3, <2>4, EfNulls, SaveMoves
  <2>5. CASE tags[w] # NoTag
    <3>1. SaveFits(s, editors[w], tags[w])
      BY <1>5, <2>1, <2>5 DEF SaveFits
    <3>2. QED
      BY <1>1, <2>2, <2>3, <2>5, <3>1, SaveMoves
  <2>6. QED
    BY <2>4, <2>5
<1>10. CASE Lands(w)
  <2> DEFINE s == [saves[w] EXCEPT !.at = "landed", !.version = disk.version + 1]
  <2>1. s.version = disk.version + 1 /\ s.at = "landed"
    BY <1>2 DEF Saving
  <2>2. /\ saves[w].at = "sent" /\ UNCHANGED <<kind, tags, editors, reads>>
        /\ Saves(w, s) /\ Written(w)
    BY <1>10 DEF Lands
  <2> HIDE DEF s
  <2>3. disk'.version = disk.version + 1
    BY <2>2, WrittenIs, Zenon DEF Anyone
  <2>4. disk'.version \in Nat /\ disk.version <= disk'.version
    BY <1>2, <2>3
  <2>5. saves'[w] = s /\ \A v \in EditorWindows \ {w} : saves'[v] = saves[v]
    BY <2>2, SaveIsSet
  <2>6. saves[w] # NoSave
    BY <2>2, EfNulls
  <2>7. reads[w]["editor"] = NoRead /\ reads[w]["other"] = NoRead
    BY <1>1, <2>6 DEF ReadFits
  <2>8. editors[w].base <= disk'.version /\ s.version <= disk'.version
    BY <1>2, <1>5, <2>1, <2>3
  <2>9. SaveFits(saves[w], editors[w], tags[w])'
    BY <1>5, <2>1, <2>2, <2>5, <2>8 DEF SaveFits, Behind
  <2>10. 0 <= disk'.version
    BY <2>4
  <2>11. ReadFits(reads[w]["editor"], reads[w]["other"])'
    BY <2>2, <2>7, <2>10, EfNulls DEF ReadFits
  <2>12. WindowFits(w)'
    BY <2>2, <2>7, <2>9, <2>11 DEF WindowFits
  <2>13. QED
    BY <2>2, <2>4, <2>5, <2>12, OthersStay
<1>11. CASE SaveAnswered(w)
  <2> DEFINE s == [saves[w] EXCEPT !.at = "saved"]
             shows == [editors[w] EXCEPT !.base = saves[w].version, !.modified = FALSE]
  <2>1. PICK t \in Tagged(saves[w].version) : tags' = [tags EXCEPT ![w] = t]
    BY <1>11 DEF SaveAnswered, NextTag
  <2>2. /\ saves[w].at = "landed" /\ UNCHANGED <<kind, disk, reads>>
        /\ Saves(w, s) /\ editors' = [editors EXCEPT ![w] = shows]
    BY <1>3, <1>11 DEF SaveAnswered
  <2>3. /\ s.version = saves[w].version /\ s.at = "saved"
        /\ shows.base = saves[w].version /\ shows.modified = FALSE
    BY <1>2 DEF Saving, Shown
  <2> HIDE DEF s, shows
  <2>4. saves'[w] = s /\ \A v \in EditorWindows \ {w} : saves'[v] = saves[v]
    BY <2>2, SaveIsSet
  <2>5. /\ tags'[w] = t /\ editors'[w] = shows
        /\ \A v \in EditorWindows \ {w} : tags'[v] = tags[v] /\ editors'[v] = editors[v]
    BY <1>3, <2>1, <2>2
  <2>6. t \in {NoTag, saves[w].version}
    BY <2>1 DEF Tagged
  <2>7. SaveFits(saves[w], editors[w], tags[w])'
    BY <1>5, <2>2, <2>3, <2>4, <2>5, <2>6 DEF SaveFits, Behind
  <2>8. saves[w] # NoSave
    BY <2>2, EfNulls
  <2>9. ReadFits(reads[w]["editor"], reads[w]["other"])'
    BY <1>1, <2>2 DEF ReadFits, Behind
  <2>10. WindowFits(w)'
    BY <1>1, <2>2, <2>7, <2>8, <2>9 DEF WindowFits
  <2>11. disk'.version \in Nat /\ disk.version <= disk'.version
    BY <1>2, <1>4, <2>2
  <2>12. QED
    BY <2>2, <2>4, <2>5, <2>10, <2>11, OthersStay
<1>12. CASE SaveFails(w)
  <2>1. Saves(w, NoSave) /\ UNCHANGED <<kind, disk, tags, editors, reads>>
    BY <1>12 DEF SaveFails
  <2>2. QED
    BY <1>6, <2>1, EfNulls, SaveMoves
<1>13. CASE Stamps(w)
  <2>1. /\ editors' = [editors EXCEPT ![w] = [editors[w] EXCEPT !.stamp = disk.stamp]]
        /\ Saves(w, NoSave) /\ UNCHANGED <<kind, disk, tags, reads>>
        /\ saves[w].at = "saved"
    BY <1>3, <1>13 DEF Stamps
  <2>2. /\ editors'[w].base = editors[w].base /\ editors'[w].modified = editors[w].modified
        /\ \A v \in EditorWindows \ {w} : editors'[v] = editors[v]
    BY <1>2, <1>3, <2>1 DEF Shown
  <2>3. saves'[w] = NoSave /\ \A v \in EditorWindows \ {w} : saves'[v] = saves[v]
    BY <2>1, SaveIsSet
  <2>4. saves[w] # NoSave
    BY <2>1, EfNulls
  <2>5. SaveFits(saves[w], editors[w], tags[w])'
    BY <1>4, <1>5, <2>1, <2>2, <2>3, EfNulls DEF SaveFits, Behind
  <2>6. WindowFits(w)'
    BY <1>1, <2>1, <2>2, <2>3, <2>4, <2>5 DEF WindowFits, ReadFits, Behind
  <2>7. QED
    BY <1>2, <1>4, <2>1, <2>2, <2>3, <2>6, OthersStay
<1>14. QED
  BY <1>7, <1>8, <1>9, <1>10, <1>11, <1>12, <1>13

LEMMA EfKept ==
    ASSUME "other reader" \notin EfMayMeet, EfTypeOK, EfInv, [EfNext]_efVars
    PROVE  EfInv'
<1>1. CASE UNCHANGED efVars
  BY <1>1, Zenon DEF efVars, EfInv, WindowFits, ReadFits, SaveFits, Behind
<1>2. CASE Changes
  <2>1. /\ disk'.version = disk.version + 1 /\ disk.version \in Nat
        /\ UNCHANGED <<kind, tags, editors, reads, saves>>
    <3>1. disk.version \in Nat
      BY DiskIs, Zenon
    <3>2. disk'.version = disk.version + 1
      BY <1>2, WrittenIs, Zenon DEF Changes, Anyone
    <3>3. QED
      BY <1>2, <3>1, <3>2, Zenon DEF Changes
  <2>2. disk'.version \in Nat /\ disk.version <= disk'.version
    BY <2>1, NatNext, Zenon
  <2>3. QED
    BY <2>1, <2>2, WindowStays, Zenon DEF EfInv
<1>3. QED
  BY <1>1, <1>2, ReadKeepsFit, SaveKeepsFit, Zenon DEF EfNext

LEMMA EfTagIsOfShown == EfTypeOK /\ EfInv => TagIsOfShown
BY DEF EfInv, WindowFits, SaveFits, Behind, TagIsOfShown

LEMMA EfLosesNothing ==
    ASSUME EfTypeOK, EfInv, [EfNext]_efVars, NEW w \in EditorWindows, disk' # disk, disk'.by = w
    PROVE  disk.version = editors[w].base
<1>1. ASSUME NEW v \in EditorWindows, Lands(v) PROVE v = w
  BY <1>1, WrittenIs, Zenon DEF Lands, Anyone
<1>2. ~Changes
  BY WrittenIs, EditorFilesAssumption, Zenon DEF Changes, Anyone
<1>3. \E v \in EditorWindows : Lands(v)
  BY <1>2, Zenon DEF EfNext, efVars, Opens, Properties, Serves, ReadAnswered, ReadFails, Types,
     BeginSave, Sends, SaveAnswered, SaveFails, Stamps
<1>4. QED
  BY <1>1, <1>3, LandsOnItsBase

(* A save replaces the bytes that its editor shows: what another wrote     *)
(* since is not overwritten unseen, whatever comes between VS Code's check *)
(* and the request, in any number of windows and versions.                 *)
THEOREM NothingIsLost ==
    ASSUME "other reader" \notin EfMayMeet
    PROVE  WorkbenchSpec => NoLostUpdate
<1>1. EfInit => EfTypeOK /\ EfInv
  BY EfBegins, Zenon
<1>2. EfTypeOK /\ EfInv /\ [EfNext]_efVars => (EfTypeOK /\ EfInv)'
  BY EfTyped, EfKept, Zenon
<1>3. EfTypeOK /\ EfInv /\ [EfNext]_efVars
        => [\A w \in EditorWindows : disk' # disk /\ disk'.by = w
              => disk.version = editors[w].base]_efVars
  BY EfLosesNothing, Zenon
<1>4. WorkbenchInit => EfInit
  BY Zenon DEF WorkbenchInit
<1>5. [WorkbenchNext]_workbenchVars => [EfNext]_efVars
  BY PartsStep, Zenon
<1>6. QED
  BY <1>1, <1>2, <1>3, <1>4, <1>5, PTL DEF WorkbenchSpec, NoLostUpdate

(* The tag kept for an editor with unsaved changes is that of the bytes    *)
(* they were made to, or none: it is never ahead of them.                  *)
THEOREM TagStaysOfShown ==
    ASSUME "other reader" \notin EfMayMeet
    PROVE  WorkbenchSpec => []TagIsOfShown
<1>1. EfInit => EfTypeOK /\ EfInv
  BY EfBegins, Zenon
<1>2. EfTypeOK /\ EfInv /\ [EfNext]_efVars => (EfTypeOK /\ EfInv)'
  BY EfTyped, EfKept, Zenon
<1>3. EfTypeOK /\ EfInv => TagIsOfShown
  BY EfTagIsOfShown, Zenon
<1>4. WorkbenchInit => EfInit
  BY Zenon DEF WorkbenchInit
<1>5. [WorkbenchNext]_workbenchVars => [EfNext]_efVars
  BY PartsStep, Zenon
<1>6. QED
  BY <1>1, <1>2, <1>3, <1>4, <1>5, PTL DEF WorkbenchSpec

-----------------------------------------------------------------------------
(* Server files.  The shape of a command tells what it is about.           *)
ServerCommand == [op : Operations, at : Phases, path : Paths, to : Paths, session : 1 .. MaxSession,
            tag : 0 .. MaxTag, aborted : BOOLEAN, landed : BOOLEAN]
Filed == [tag : 0 .. MaxTag, empty : BOOLEAN]

Shaped(cmd) ==
    /\ cmd.at \in {"write", "discard"} => cmd.op = "upload"
    /\ cmd.at = "change" => cmd.op \in {"move", "delete"}
    /\ cmd.at = "create" => cmd.op \in {"create", "upload"}
    /\ cmd.at = "list" => cmd.op = "list"
    /\ cmd.at = "read" => cmd.op \in {"move", "delete"}
    /\ cmd.op = "move" => cmd.to # cmd.path

SvInv ==
    /\ files \in [Paths -> Filed]
    /\ lastTag \in 0 .. MaxTag /\ sessions \subseteq 1 .. MaxSession
    /\ current \in 0 .. MaxSession /\ newest \in 0 .. MaxSession
    /\ svCommands \in [Commands -> {NoCommand} \cup {cmd \in ServerCommand : Shaped(cmd)}]
    /\ outcome \in Tells

LEMMA SvBounds == MaxTag \in Nat \ {0} /\ MaxSession \in Nat \ {0}
BY ServerFilesAssumption, Zenon

LEMMA SvNulls == NoCommand.at = "idle" /\ NoCommand.op = "none" /\ NoCommand \notin ServerCommand
                 /\ NoFile \in Filed /\ NoFile.tag = 0
<1>1. NoFile \in Filed /\ NoFile.tag = 0
  BY SvBounds DEF NoFile, Filed
<1>2. QED
  BY <1>1 DEF NoCommand, ServerCommand, Operations

LEMMA SvGoing ==
    ASSUME SvInv, NEW c \in Commands, svCommands[c].at \in Phases
    PROVE  /\ svCommands[c] \in ServerCommand /\ Shaped(svCommands[c]) /\ svCommands[c] # NoCommand
           /\ svCommands[c].op \in Operations /\ svCommands[c].path \in Paths
           /\ svCommands[c].to \in Paths /\ svCommands[c].tag \in 0 .. MaxTag
           /\ svCommands[c].session \in 1 .. MaxSession
<1>1. svCommands[c] # NoCommand
  BY SvNulls DEF Phases
<1>2. svCommands[c] \in ServerCommand /\ Shaped(svCommands[c])
  BY <1>1 DEF SvInv
<1>3. QED
  BY <1>1, <1>2 DEF ServerCommand

LEMMA StoresIs ==
    ASSUME SvInv, NEW p \in Paths, NEW isEmpty \in BOOLEAN, Stores(p, isEmpty)
    PROVE  /\ lastTag' = lastTag + 1 /\ lastTag' \in 0 .. MaxTag /\ lastTag' # 0
           /\ files' = [files EXCEPT ![p] = [tag |-> lastTag', empty |-> isEmpty]]
           /\ files' \in [Paths -> Filed] /\ files'[p] = [tag |-> lastTag', empty |-> isEmpty]
           /\ files'[p] # NoFile
<1>1. lastTag' = lastTag + 1 /\ lastTag \in 0 .. MaxTag /\ lastTag < MaxTag
  BY DEF Stores, SvInv
<1>2. lastTag' \in 0 .. MaxTag /\ lastTag' # 0
  BY <1>1, SvBounds
<1>3. [tag |-> lastTag', empty |-> isEmpty] \in Filed
  BY <1>2 DEF Filed
<1>4. files' = [files EXCEPT ![p] = [tag |-> lastTag', empty |-> isEmpty]]
  BY <1>1 DEF Stores
<1>5. files' \in [Paths -> Filed] /\ files'[p] = [tag |-> lastTag', empty |-> isEmpty]
  BY <1>3, <1>4 DEF SvInv
<1>6. QED
  BY <1>1, <1>2, <1>4, <1>5 DEF NoFile

(* A command goes on, or ends.                                             *)
LEMMA CommandMoves ==
    ASSUME SvInv, NEW c \in Commands, NEW cmd, cmd = NoCommand \/ (cmd \in ServerCommand /\ Shaped(cmd)),
           svCommands' = [svCommands EXCEPT ![c] = cmd],
           files' \in [Paths -> Filed], lastTag' \in 0 .. MaxTag, outcome' \in Tells,
           UNCHANGED <<sessions, newest>>, current' \in {0, current}
    PROVE  SvInv'
<1>1. svCommands' \in [Commands -> {NoCommand} \cup {x \in ServerCommand : Shaped(x)}]
  BY DEF SvInv
<1>2. 0 \in 0 .. MaxSession
  BY SvBounds
<1>3. QED
  BY <1>1, <1>2 DEF SvInv, Shaped

LEMMA Goings ==
    ASSUME SvInv, NEW c \in Commands, NEW next \in Phases, NEW tag \in 0 .. MaxTag,
           svCommands[c].at \in Phases, Goes(c, next, tag),
           Shaped([svCommands[c] EXCEPT !.at = next, !.tag = tag]),
           files' \in [Paths -> Filed], lastTag' \in 0 .. MaxTag,
           UNCHANGED <<sessions, newest>>
    PROVE  SvInv'
<1> DEFINE cmd == [svCommands[c] EXCEPT !.at = next, !.tag = tag]
<1>1. cmd \in ServerCommand
  BY SvGoing DEF ServerCommand
<1>2. svCommands' = [svCommands EXCEPT ![c] = cmd] /\ UNCHANGED <<outcome, current>>
  BY DEF Goes, SvInv
<1>3. Shaped(cmd)
  OBVIOUS
<1> HIDE DEF cmd
<1>4. QED
  BY <1>1, <1>2, <1>3, CommandMoves DEF SvInv

LEMMA Endings ==
    ASSUME SvInv, NEW c \in Commands, NEW what \in Tells,
           Ends(c, what) \/ EndsFailed(c, what),
           files' \in [Paths -> Filed], lastTag' \in 0 .. MaxTag,
           UNCHANGED <<sessions, newest>>
    PROVE  SvInv'
<1>1. svCommands' = [svCommands EXCEPT ![c] = NoCommand] /\ UNCHANGED current
      /\ outcome' \in {what, "nothing"}
  BY DEF Ends, EndsFailed
<1>2. outcome' \in Tells
  BY <1>1, Zenon DEF Tells
<1>3. QED
  BY <1>1, <1>2, CommandMoves

LEMMA ToldWhat == {"nothing", "done", "failed", "left-empty", "not available"} \subseteq Tells
BY DEF Tells

LEMMA SvBegins == SvInit => SvInv
<1> SUFFICES ASSUME SvInit PROVE SvInv
  OBVIOUS
<1>1. MaxTag \in Nat \ {0} /\ MaxSession \in Nat \ {0}
  BY SvBounds
<1>2. 1 \in 1 .. MaxSession /\ 1 \in 0 .. MaxSession
  BY <1>1
<1>3. lastTag \in 0 .. MaxTag
  BY <1>1 DEF SvInit
<1>4. [tag |-> 1, empty |-> FALSE] \in Filed
  <2>1. 1 \in 0 .. MaxTag
    BY <1>1
  <2>2. QED
    BY <2>1 DEF Filed
<1>5. QED
  BY <1>2, <1>3, <1>4, SvNulls, ToldWhat, Zenon DEF SvInit, SvInv

LEMMA SvMoved ==
    ASSUME SvInv, NEW c \in Commands,
           \/ Gives(c) \/ Aborts(c) \/ Creates(c) \/ Writes(c) \/ Discards(c)
           \/ ReadsItem(c) \/ ChangesItem(c) \/ Fails(c) \/ NotFound(c) \/ Asks(c)
    PROVE  SvInv'
<1> DEFINE cmd == svCommands[c]
<1>1. /\ files \in [Paths -> Filed] /\ lastTag \in 0 .. MaxTag /\ outcome \in Tells
      /\ 0 \in 0 .. MaxTag
  BY SvBounds DEF SvInv
<1>2. CASE Gives(c)
  <2>1. PICK op \in Operations, p \in Paths, q \in Paths :
          /\ op # "move" => q = p
          /\ op = "move" => q # p
          /\ svCommands' = [svCommands EXCEPT ![c] =
                [NoCommand EXCEPT !.op = op, !.at = First(op), !.path = p, !.to = q,
                                  !.session = current]]
    BY <1>2, Zenon DEF Gives
  <2> DEFINE x == [NoCommand EXCEPT !.op = op, !.at = First(op), !.path = p, !.to = q,
                                    !.session = current]
  <2>2. current \in 1 .. MaxSession
    <3>1. current # 0 /\ current \in 0 .. MaxSession
      BY <1>2, Zenon DEF Gives, SvInv
    <3>2. QED
      BY <3>1, SvBounds
  <2>3. First(op) \in Phases
    BY DEF First, Phases
  <2>4. x \in ServerCommand /\ x.op = op /\ x.at = First(op) /\ x.path = p /\ x.to = q
    BY <1>1, <2>2, <2>3 DEF NoCommand, ServerCommand
  <2>5. svCommands' = [svCommands EXCEPT ![c] = x]
    BY <2>1
  <2> HIDE DEF x
  <2>6. Shaped(x)
    BY <2>1, <2>4 DEF Shaped, First, Operations
  <2>7. UNCHANGED <<files, lastTag, sessions, current, newest, outcome>>
    BY <1>2, Zenon DEF Gives
  <2>8. QED
    BY <1>1, <2>4, <2>5, <2>6, <2>7, CommandMoves
<1>3. CASE Aborts(c)
  <2> DEFINE x == [svCommands[c] EXCEPT !.aborted = TRUE]
  <2>1. cmd \in ServerCommand /\ Shaped(cmd)
    BY <1>3 DEF Aborts, SvInv
  <2>2. x \in ServerCommand /\ x.op = cmd.op /\ x.at = cmd.at /\ x.path = cmd.path /\ x.to = cmd.to
    BY <2>1 DEF ServerCommand
  <2>3. svCommands' = [svCommands EXCEPT ![c] = x]
        /\ UNCHANGED <<files, lastTag, sessions, current, newest, outcome>>
    BY <1>3 DEF Aborts
  <2> HIDE DEF x
  <2>4. Shaped(x)
    BY <2>1, <2>2 DEF Shaped
  <2>5. QED
    BY <1>1, <2>2, <2>3, <2>4, CommandMoves
<1>4. CASE Creates(c)
  <2>1. cmd.at = "create" /\ cmd.at \in Phases /\ UNCHANGED <<sessions, newest>>
    BY <1>4, Zenon DEF Creates, Phases
  <2>2. CASE FileAt(cmd.path)
    BY <1>1, <1>4, <2>1, <2>2, Endings, ToldWhat, Zenon DEF Creates
  <2>3. CASE ~FileAt(cmd.path)
    <3>1. Stores(cmd.path, TRUE)
      BY <1>4, <2>3, Zenon DEF Creates
    <3>2. /\ files' \in [Paths -> Filed] /\ lastTag' = lastTag + 1 /\ lastTag' \in 0 .. MaxTag
      BY <2>1, <3>1, SvGoing, StoresIs, Zenon
    <3>3. CASE cmd.op = "upload" /\ Goes(c, "write", lastTag + 1)
      <4>1. /\ [cmd EXCEPT !.at = "write", !.tag = lastTag + 1].op = "upload"
            /\ [cmd EXCEPT !.at = "write", !.tag = lastTag + 1].at = "write"
        BY <2>1, <3>3, SvGoing DEF ServerCommand
      <4>2. Shaped([cmd EXCEPT !.at = "write", !.tag = lastTag + 1])
        BY <4>1 DEF Shaped
      <4>3. QED
        BY <2>1, <3>2, <3>3, <4>2, Goings, Zenon DEF Phases
    <3>4. CASE Ends(c, "done") \/ EndsFailed(c, "failed")
      BY <2>1, <3>2, <3>4, Endings, ToldWhat, Zenon
    <3>5. QED
      BY <1>4, <2>3, <3>3, <3>4, Zenon DEF Creates
  <2>4. QED
    BY <2>2, <2>3
<1>5. CASE Writes(c)
  <2>1. /\ cmd.at = "write" /\ cmd.at \in Phases /\ UNCHANGED <<sessions, newest>>
        /\ cmd.op = "upload"
    BY <1>5, SvGoing, Zenon DEF Writes, Phases, Shaped
  <2>2. CASE Stores(cmd.path, FALSE)
    <3>2. /\ files' \in [Paths -> Filed] /\ lastTag' \in 0 .. MaxTag
      BY <2>1, <2>2, SvGoing, StoresIs
    <3>3. CASE Ends(c, "done")
      BY <2>1, <3>2, <3>3, Endings, ToldWhat, Zenon
    <3>4. CASE /\ svCommands' = [svCommands EXCEPT ![c].at = "discard", ![c].landed = TRUE]
               /\ UNCHANGED <<outcome, current>>
      <4> DEFINE x == [cmd EXCEPT !.at = "discard", !.landed = TRUE]
      <4>1. x \in ServerCommand /\ x.op = "upload" /\ x.at = "discard"
        BY <2>1, SvGoing DEF ServerCommand, Phases
      <4>2. svCommands' = [svCommands EXCEPT ![c] = x]
        BY <3>4 DEF SvInv
      <4> HIDE DEF x
      <4>3. Shaped(x)
        BY <4>1 DEF Shaped
      <4>4. QED
        BY <1>1, <2>1, <3>2, <3>4, <4>1, <4>2, <4>3, CommandMoves
    <3>5. CASE Goes(c, "discard", cmd.tag)
      <4>1. /\ [cmd EXCEPT !.at = "discard", !.tag = cmd.tag].op = "upload"
            /\ [cmd EXCEPT !.at = "discard", !.tag = cmd.tag].at = "discard"
        BY <2>1, SvGoing DEF ServerCommand
      <4>2. Shaped([cmd EXCEPT !.at = "discard", !.tag = cmd.tag])
        BY <4>1 DEF Shaped
      <4>3. QED
        BY <2>1, <3>2, <3>5, <4>2, Goings, SvGoing, Zenon DEF Phases
    <3>6. QED
      BY <1>5, <3>3, <3>4, <3>5, Zenon DEF Writes
  <2>3. CASE ~Stores(cmd.path, FALSE)
    <3>1. Goes(c, "discard", cmd.tag) /\ UNCHANGED <<files, lastTag>>
      BY <1>5, <2>3, Zenon DEF Writes
    <3>2. /\ [cmd EXCEPT !.at = "discard", !.tag = cmd.tag].op = "upload"
          /\ [cmd EXCEPT !.at = "discard", !.tag = cmd.tag].at = "discard"
      BY <2>1, SvGoing DEF ServerCommand
    <3>3. Shaped([cmd EXCEPT !.at = "discard", !.tag = cmd.tag])
      BY <3>2 DEF Shaped
    <3>4. QED
      BY <1>1, <2>1, <3>1, <3>3, Goings, SvGoing, Zenon DEF Phases
  <2>4. QED
    BY <2>2, <2>3
<1>6. CASE Discards(c)
  <2>1. cmd.at = "discard" /\ cmd.at \in Phases /\ UNCHANGED <<lastTag, sessions, newest>>
    BY <1>6 DEF Discards, Phases
  <2>2. files' \in [Paths -> Filed]
    BY <1>1, <1>6, <2>1, SvNulls, SvGoing DEF Discards
  <2>3. QED
    BY <1>1, <1>6, <2>1, <2>2, Endings, ToldWhat, Zenon DEF Discards
<1>7. CASE ReadsItem(c)
  <2>1. /\ cmd.at \in {"read", "list"} /\ cmd.at \in Phases
        /\ UNCHANGED <<files, lastTag, sessions, newest>>
    BY <1>7 DEF ReadsItem, Phases
  <2>2. CASE Ends(c, "done")
    BY <1>1, <2>1, <2>2, Endings, ToldWhat, Zenon
  <2>3. CASE /\ cmd.at = "read"
             /\ Goes(c, "change", files[cmd.path].tag) \/ Goes(c, "ask", 0)
    <3>1. cmd.op \in {"move", "delete"} /\ files[cmd.path].tag \in 0 .. MaxTag
      BY <1>1, <2>1, <2>3, SvGoing DEF Shaped, Filed
    <3>2. ASSUME NEW next \in {"change", "ask"}, NEW tag \in 0 .. MaxTag
          PROVE  Shaped([cmd EXCEPT !.at = next, !.tag = tag])
      <4> DEFINE x == [cmd EXCEPT !.at = next, !.tag = tag]
      <4>1. x.op = cmd.op /\ x.at = next /\ x.path = cmd.path /\ x.to = cmd.to
        BY <2>1, SvGoing DEF ServerCommand
      <4>2. cmd.op = "move" => cmd.to # cmd.path
        BY <2>1, SvGoing DEF Shaped
      <4> HIDE DEF x
      <4>3. Shaped(x)
        BY <3>1, <4>1, <4>2 DEF Shaped
      <4>4. QED
        BY <4>3 DEF x
    <3>3. QED
      BY <1>1, <2>1, <2>3, <3>1, <3>2, Goings, Zenon DEF Phases
  <2>4. QED
    BY <1>7, <2>1, <2>2, <2>3 DEF ReadsItem
<1>8. CASE ChangesItem(c)
  <2>1. cmd.at = "change" /\ cmd.at \in Phases /\ UNCHANGED <<lastTag, sessions, newest>>
    BY <1>8, Zenon DEF ChangesItem, Phases
  <2>2. cmd.path \in Paths /\ cmd.to \in Paths
    BY <2>1, SvGoing
  <2>3. files' \in [Paths -> Filed]
    BY <1>1, <1>8, <2>2, SvNulls, Zenon DEF ChangesItem
  <2>4. QED
    BY <1>1, <1>8, <2>1, <2>3, Endings, ToldWhat, Zenon DEF ChangesItem
<1>9. CASE Fails(c)
  BY <1>1, <1>9, Endings, ToldWhat, Zenon DEF Fails
<1>10. CASE NotFound(c)
  <2>1. cmd.at \in Phases \ {"ask"} /\ UNCHANGED <<files, lastTag, sessions, newest>>
    BY <1>10 DEF NotFound
  <2>2. CASE EndsFailed(c, "left-empty")
    BY <1>1, <2>1, <2>2, Endings, ToldWhat, Zenon
  <2>3. CASE Goes(c, "ask", cmd.tag)
    <3> DEFINE x == [cmd EXCEPT !.at = "ask", !.tag = cmd.tag]
    <3>1. x.op = cmd.op /\ x.at = "ask" /\ x.path = cmd.path /\ x.to = cmd.to
      BY <2>1, SvGoing DEF ServerCommand
    <3>2. cmd.op = "move" => cmd.to # cmd.path
      BY <2>1, SvGoing DEF Shaped
    <3>3. Goes(c, "ask", cmd.tag) /\ cmd.tag \in 0 .. MaxTag /\ "ask" \in Phases
      BY <2>1, <2>3, SvGoing DEF Phases
    <3> HIDE DEF x
    <3>4. Shaped(x)
      BY <3>1, <3>2 DEF Shaped
    <3>5. QED
      BY <1>1, <2>1, <3>3, <3>4, Goings, Zenon DEF x
  <2>4. QED
    BY <1>10, <2>2, <2>3 DEF NotFound
<1>11. CASE Asks(c)
  <2>1. cmd.at = "ask" /\ cmd.at \in Phases /\ UNCHANGED <<files, lastTag, sessions, newest>>
    BY <1>11, Zenon DEF Asks, Phases
  <2>2. CASE cmd.op = "upload" /\ Goes(c, "discard", cmd.tag)
    <3> DEFINE x == [cmd EXCEPT !.at = "discard", !.tag = cmd.tag]
    <3>1. x.op = "upload" /\ x.at = "discard"
      BY <2>1, <2>2, SvGoing DEF ServerCommand
    <3>2. Goes(c, "discard", cmd.tag) /\ cmd.tag \in 0 .. MaxTag /\ "discard" \in Phases
      BY <2>1, <2>2, SvGoing DEF Phases
    <3> HIDE DEF x
    <3>3. Shaped(x)
      BY <3>1 DEF Shaped
    <3>4. QED
      BY <1>1, <2>1, <3>2, <3>3, Goings, Zenon DEF x
  <2>3. CASE EndsFailed(c, "not available") \/ EndsFailed(c, "failed")
    BY <1>1, <2>1, <2>3, Endings, ToldWhat, Zenon
  <2>4. CASE /\ svCommands' = [svCommands EXCEPT ![c] = NoCommand]
             /\ outcome' = (IF cmd.aborted THEN "nothing" ELSE "failed")
             /\ current' = 0
    <3>1. outcome' \in Tells
      BY <2>4 DEF Tells
    <3>2. QED
      BY <1>1, <2>1, <2>4, <3>1, CommandMoves
  <2>5. QED
    BY <1>11, <2>2, <2>3, <2>4, Zenon DEF Asks
<1>12. QED
  BY <1>2, <1>3, <1>4, <1>5, <1>6, <1>7, <1>8, <1>9, <1>10, <1>11

LEMMA SvTyped == SvInv /\ [SvNext]_svVars => SvInv'
<1> SUFFICES ASSUME SvInv, [SvNext]_svVars PROVE SvInv'
  OBVIOUS
<1>1. CASE UNCHANGED svVars
  BY <1>1 DEF svVars, SvInv, Shaped
<1>2. CASE SessionEnds
  BY <1>2 DEF SessionEnds, SvInv, Shaped
<1>3. CASE Connects
  <2>1. newest' \in 1 .. MaxSession /\ newest' \in 0 .. MaxSession
    BY <1>3, SvBounds DEF Connects, SvInv
  <2>2. QED
    BY <1>3, <2>1 DEF Connects, SvInv, Shaped
<1>4. CASE AnotherWrites
  <2>1. files' \in [Paths -> Filed] /\ lastTag' \in 0 .. MaxTag
    BY <1>4, StoresIs DEF AnotherWrites
  <2>2. QED
    BY <1>4, <2>1 DEF AnotherWrites, SvInv, Shaped
<1>5. CASE AnotherRemoves
  <2>1. files' \in [Paths -> Filed]
    BY <1>5, SvNulls DEF AnotherRemoves, SvInv
  <2>2. QED
    BY <1>5, <2>1 DEF AnotherRemoves, SvInv, Shaped
<1>6. QED
  BY <1>1, <1>2, <1>3, <1>4, <1>5, SvMoved DEF SvNext

LEMMA SvIsTyped == SvInv => SvTypeOK
BY DEF SvInv, SvTypeOK, Filed, ServerCommand

(* A command that ends in a step is the one that took the step.            *)
LEMMA TookIsIts ==
    ASSUME SvInv, [SvNext]_svVars, NEW c \in Commands, Took(c)
    PROVE  \/ Creates(c) \/ Writes(c) \/ Discards(c) \/ ReadsItem(c) \/ ChangesItem(c)
           \/ Fails(c) \/ NotFound(c) \/ Asks(c)
<1>1. svCommands' # svCommands /\ svCommands'[c] # svCommands[c]
  BY DEF Took
<1>2. ~UNCHANGED svVars /\ ~SessionEnds /\ ~Connects /\ ~AnotherWrites /\ ~AnotherRemoves
  BY <1>1 DEF svVars, SessionEnds, Connects, AnotherWrites, AnotherRemoves
<1>3. PICK d \in Commands :
          \/ Gives(d) \/ Aborts(d) \/ Creates(d) \/ Writes(d) \/ Discards(d)
          \/ ReadsItem(d) \/ ChangesItem(d) \/ Fails(d) \/ NotFound(d) \/ Asks(d)
  BY <1>2 DEF SvNext
<1>4. \E x : svCommands' = [svCommands EXCEPT ![d] = x]
  <2>1. CASE Gives(d)
    BY <2>1, Zenon DEF Gives
  <2>2. CASE Aborts(d)
    BY <2>2 DEF Aborts
  <2>3. CASE Creates(d) \/ Discards(d) \/ ReadsItem(d)
    BY <2>3, Zenon DEF Creates, Discards, ReadsItem, Ends, EndsFailed, Goes, SvInv
  <2>4. CASE Writes(d)
    BY <2>4, Zenon DEF Writes, Ends, Goes, SvInv
  <2>5. CASE ChangesItem(d) \/ Fails(d)
    BY <2>5, Zenon DEF ChangesItem, Fails, Ends, EndsFailed
  <2>6. CASE NotFound(d) \/ Asks(d)
    BY <2>6, Zenon DEF NotFound, Asks, Ends, EndsFailed, Goes, SvInv
  <2>7. QED
    BY <1>3, <2>1, <2>2, <2>3, <2>4, <2>5, <2>6
<1>5. c = d
  BY <1>1, <1>4 DEF SvInv
<1>6. ~Gives(c)
  BY Zenon DEF Gives, Took
<1>7. ~Aborts(c)
  <2>1. SUFFICES ASSUME Aborts(c) PROVE FALSE
    OBVIOUS
  <2>2. svCommands[c] \in ServerCommand /\ svCommands'[c] = [svCommands[c] EXCEPT !.aborted = TRUE]
    BY <2>1 DEF Aborts, SvInv
  <2>3. svCommands'[c] \in ServerCommand
    BY <2>2 DEF ServerCommand
  <2>4. QED
    BY <2>3, SvNulls DEF Took
<1>8. QED
  BY <1>3, <1>5, <1>6, <1>7

(* What is no longer at a path after a command's step was what it had been *)
(* told of.                                                                *)
LEMMA SvRemoves ==
    ASSUME SvInv, [SvNext]_svVars, NEW c \in Commands, NEW p \in Paths,
           Took(c), svCommands[c].path = p, FileAt(p), files'[p] = NoFile
    PROVE  files[p].tag = svCommands[c].tag
<1>1. CASE Creates(c)
  <2>1. svCommands[c].at \in Phases
    BY <1>1 DEF Creates, Phases
  <2>2. UNCHANGED files
    BY <1>1 DEF Creates
  <2>3. QED
    BY <2>2 DEF FileAt
<1>2. CASE Writes(c)
  <2>1. svCommands[c].at \in Phases
    BY <1>2, Zenon DEF Writes, Phases
  <2>2. UNCHANGED files \/ Stores(p, FALSE)
    BY <1>2, Zenon DEF Writes
  <2>3. QED
    BY <2>2, StoresIs DEF FileAt
<1>3. CASE Discards(c)
  BY <1>3 DEF Discards, Matches, TagSent, FileAt
<1>4. CASE ChangesItem(c)
  BY <1>4, Zenon DEF ChangesItem, Matches, TagSent, FileAt
<1>5. CASE ReadsItem(c) \/ Fails(c) \/ NotFound(c) \/ Asks(c)
  BY <1>5, Zenon DEF ReadsItem, Fails, NotFound, Asks, FileAt
<1>6. QED
  BY <1>1, <1>2, <1>3, <1>4, <1>5, TookIsIts

(* What a command that is told to be done has done.                        *)
Did(c) ==
    CASE svCommands[c].op \in {"create", "upload"} ->
            files'[svCommands[c].path] = [tag |-> lastTag', empty |-> svCommands[c].op = "create"]
      [] svCommands[c].op \in {"move", "delete"} ->
            /\ files'[svCommands[c].path] = NoFile
            /\ svCommands[c].op = "move" => files'[svCommands[c].to] = files[svCommands[c].path]
      [] OTHER -> TRUE

LEMMA SvTellsDone ==
    ASSUME SvInv, [SvNext]_svVars, NEW c \in Commands, Took(c), outcome' = "done"
    PROVE  Did(c)
<1> DEFINE cmd == svCommands[c]
<1>1. \A what \in {"failed", "left-empty", "not available"} : ~EndsFailed(c, what)
  BY Zenon DEF EndsFailed, Ends
<1>2. ASSUME NEW next, NEW tag, Goes(c, next, tag), svCommands[c].at \in Phases,
             next \in Phases
      PROVE  FALSE
  <2>1. svCommands[c] \in ServerCommand
    BY <1>2, SvGoing
  <2>2. svCommands'[c] = [svCommands[c] EXCEPT !.at = next, !.tag = tag]
    BY <1>2 DEF Goes, SvInv
  <2>3. svCommands'[c].at = next
    BY <2>1, <2>2 DEF ServerCommand
  <2>4. QED
    BY <1>2, <2>3, SvNulls DEF Took, Phases
<1>3. CASE Creates(c)
  <2>1. cmd.at = "create" /\ cmd.at \in Phases
    BY <1>3, Zenon DEF Creates, Phases
  <2>2. Stores(cmd.path, TRUE) /\ cmd.op = "create"
    BY <1>1, <1>2, <1>3, <2>1, Zenon DEF Creates, Phases
  <2>3. files'[cmd.path] = [tag |-> lastTag', empty |-> TRUE]
    BY <2>1, <2>2, SvGoing, StoresIs
  <2>4. QED
    BY <2>2, <2>3 DEF Did
<1>4. CASE Writes(c)
  <2>1. cmd.at = "write" /\ cmd.at \in Phases
    BY <1>4, Zenon DEF Writes, Phases
  <2>2. cmd.op = "upload" /\ cmd.path \in Paths /\ cmd \in ServerCommand
    BY <2>1, SvGoing DEF Shaped
  <2>3. Stores(cmd.path, FALSE)
    BY <1>2, <1>4, <2>1, Zenon DEF Writes, Phases
  <2>4. files'[cmd.path] = [tag |-> lastTag', empty |-> FALSE]
    BY <2>2, <2>3, StoresIs
  <2>5. QED
    BY <2>2, <2>4 DEF Did
<1>5. CASE ReadsItem(c)
  <2>1. cmd.at \in {"read", "list"} /\ cmd.at \in Phases
    BY <1>5 DEF ReadsItem, Phases
  <2>2. cmd.at = "list"
    BY <1>2, <1>5, <2>1 DEF ReadsItem, Phases
  <2>3. cmd.op = "list"
    BY <2>1, <2>2, SvGoing DEF Shaped
  <2>4. QED
    BY <2>3 DEF Did
<1>6. CASE ChangesItem(c)
  <2>1. cmd.at = "change" /\ cmd.at \in Phases
    BY <1>6, Zenon DEF ChangesItem, Phases
  <2>2. cmd.op \in {"move", "delete"} /\ cmd.path \in Paths /\ cmd.to \in Paths
        /\ (cmd.op = "move" => cmd.to # cmd.path)
    BY <2>1, SvGoing DEF Shaped
  <2>3. files' = [files EXCEPT ![cmd.path] = NoFile,
                    ![cmd.to] = IF cmd.op = "move" THEN files[cmd.path] ELSE NoFile]
    BY <1>1, <1>6, Zenon DEF ChangesItem, SaysDone
  <2>4. /\ files'[cmd.path] = NoFile
        /\ cmd.op = "move" => files'[cmd.to] = files[cmd.path]
    BY <2>2, <2>3 DEF SvInv
  <2>5. QED
    BY <2>2, <2>4 DEF Did
<1>7. CASE Discards(c) \/ Fails(c) \/ NotFound(c)
  <2>1. svCommands[c].at \in Phases
    BY <1>7 DEF Discards, Fails, NotFound, Phases
  <2>2. QED
    BY <1>1, <1>2, <1>7, <2>1, Zenon DEF Discards, Fails, NotFound, Phases
<1>8. CASE Asks(c)
  <2>1. svCommands[c].at \in Phases
    BY <1>8, Zenon DEF Asks, Phases
  <2>2. QED
    BY <1>1, <1>2, <1>8, <2>1, Zenon DEF Asks, Phases
<1>9. QED
  BY <1>3, <1>4, <1>5, <1>6, <1>7, <1>8, TookIsIts

(* The window forgets its session only as a command asked about its own.   *)
LEMMA SvForgets ==
    ASSUME SvInv, [SvNext]_svVars, current # 0, current' = 0
    PROVE  \E c \in Commands : Took(c) /\ svCommands[c].session \notin sessions
<1>1. ~Connects
  BY DEF Connects
<1>2. PICK c \in Commands : Asks(c)
  BY <1>1, Zenon DEF SvNext, svVars, SessionEnds, AnotherWrites, AnotherRemoves, Gives, Aborts, Creates,
     Writes, Discards, ReadsItem, ChangesItem, Fails, NotFound, Ends, EndsFailed, Goes
<1>3. svCommands[c].at \in Phases /\ IsGone(c) /\ svCommands' = [svCommands EXCEPT ![c] = NoCommand]
  BY <1>2, Zenon DEF Asks, Goes, Ends, EndsFailed, Phases
<1>4. svCommands'[c] = NoCommand /\ svCommands[c] # NoCommand
  BY <1>3, SvGoing DEF SvInv
<1>5. QED
  BY <1>3, <1>4 DEF Took, IsGone, Alive

(* A command of the SAS Server view removes or moves the version it was    *)
(* told of, and no other; one that is told to be done has done it; and the *)
(* session is forgotten only after a command learned that its own is gone. *)
(* With any number of commands, lost answers and reconnects.               *)
THEOREM ServerCommandsKeep ==
    WorkbenchSpec => RemovesWhatItSaw /\ ToldIsDone /\ ForgetsAfterGone
<1>1. WorkbenchInit => SvInv
  BY SvBegins DEF WorkbenchInit
<1>2. SvInv /\ [WorkbenchNext]_workbenchVars => SvInv'
  BY SvTyped, PartsStep
<1>3. SvInv /\ [WorkbenchNext]_workbenchVars
        => [\A c \in Commands, p \in Paths :
              Took(c) /\ svCommands[c].path = p /\ FileAt(p) /\ files'[p] = NoFile
                => files[p].tag = svCommands[c].tag]_svVars
  BY SvRemoves, PartsStep
<1>4. SvInv /\ [WorkbenchNext]_workbenchVars
        => [\A c \in Commands : Took(c) /\ outcome' = "done" => Did(c)]_svVars
  BY SvTellsDone, PartsStep
<1>5. SvInv /\ [WorkbenchNext]_workbenchVars
        => [current # 0 /\ current' = 0 =>
              \E c \in Commands : Took(c) /\ svCommands[c].session \notin sessions]_svVars
  BY SvForgets, PartsStep
<1>6. QED
  BY <1>1, <1>2, <1>3, <1>4, <1>5, PTL
     DEF WorkbenchSpec, RemovesWhatItSaw, ToldIsDone, ForgetsAfterGone, Did

-----------------------------------------------------------------------------
(* Sequences and numbers: facts the modules on items and paths share.     *)
(* A set listed in some order: each of it once.                            *)
LEMMA SetListed ==
    ASSUME NEW S, IsFiniteSet(S)
    PROVE  /\ SetToSeq(S) \in Seq(S) /\ Len(SetToSeq(S)) = Cardinality(S) /\ Cardinality(S) \in Nat
           /\ \A i, j \in 1 .. Cardinality(S) : SetToSeq(S)[i] = SetToSeq(S)[j] => i = j
           /\ \A x \in S : \E i \in 1 .. Cardinality(S) : SetToSeq(S)[i] = x
<1> DEFINE n == Cardinality(S)
           q == SetToSeq(S)
<1>1. n \in Nat /\ \E f : f \in Bijection(1 .. n, S)
  BY FS_CardinalityType DEF ExistsBijection
<1>2. \E f \in [1 .. n -> S] : IsInjective(f)
  BY <1>1 DEF Bijection, Injection
<1>3. q \in [1 .. n -> S] /\ IsInjective(q)
  BY <1>2, Zenon DEF SetToSeq
<1>4. n = Cardinality(S)
  OBVIOUS
<1> HIDE DEF q, n
<1>5. q \in Injection(1 .. n, S)
  BY <1>3 DEF Injection
<1>6. Cardinality(1 .. n) = n
  <2>1. n \in Int /\ 1 \in Int
    BY <1>1
  <2>2. Cardinality(1 .. n) = IF 1 > n THEN 0 ELSE n - 1 + 1
    BY <2>1, FS_Interval
  <2>3. QED
    BY <1>1, <2>2
<1>7. q \in Surjection(1 .. n, S)
  BY <1>4, <1>5, <1>6, FS_Injection
<1>8. \A x \in S : \E i \in 1 .. n : q[i] = x
  BY <1>7 DEF Surjection
<1>9. \A i, j \in 1 .. n : q[i] = q[j] => i = j
  BY <1>3 DEF IsInjective
<1>10. q \in Seq(S) /\ Len(q) = n
  BY <1>1, <1>3
<1>11. QED
  BY <1>1, <1>8, <1>9, <1>10 DEF q, n

LEMMA FirstPart ==
    ASSUME NEW S, NEW a \in Seq(S), NEW b \in Seq(S), NEW k \in 1 .. Len(a)
    PROVE  k \in 1 .. Len(a \o b) /\ (a \o b)[k] = a[k]
OBVIOUS

LEMMA SecondPart ==
    ASSUME NEW S, NEW a \in Seq(S), NEW b \in Seq(S), NEW k \in 1 .. Len(b)
    PROVE  Len(a) + k \in 1 .. Len(a \o b) /\ (a \o b)[Len(a) + k] = b[k]
OBVIOUS

LEMMA ToSetAppend ==
    ASSUME NEW S, NEW q \in Seq(S), NEW e \in S
    PROVE  /\ ToSet(Append(q, e)) = ToSet(q) \cup {e} /\ Append(q, e) \in Seq(S)
           /\ Len(q) \in Nat /\ Len(Append(q, e)) = Len(q) + 1
<1> DEFINE r == Append(q, e)
<1>1. r \in Seq(S) /\ Len(r) = Len(q) + 1 /\ Len(q) \in Nat /\ r[Len(q) + 1] = e
      /\ DOMAIN r = 1 .. Len(q) + 1 /\ DOMAIN q = 1 .. Len(q)
      /\ \A k \in 1 .. Len(q) : r[k] = q[k]
  OBVIOUS
<1>2. \A k \in 1 .. Len(q) + 1 : k \in 1 .. Len(q) \/ k = Len(q) + 1
  BY <1>1
<1>3. Len(q) + 1 \in 1 .. Len(q) + 1 /\ \A k \in 1 .. Len(q) : k \in 1 .. Len(q) + 1
  BY <1>1
<1> HIDE DEF r
<1>4. ToSet(r) \subseteq ToSet(q) \cup {e}
  BY <1>1, <1>2 DEF ToSet
<1>5. ToSet(q) \cup {e} \subseteq ToSet(r)
  BY <1>1, <1>3 DEF ToSet
<1>6. QED
  BY <1>1, <1>4, <1>5 DEF r

-----------------------------------------------------------------------------
(* What holds of 0 and, if of a number, of the next holds of all.          *)
LEMMA ByNumber ==
    ASSUME NEW P \in SUBSET Nat, 0 \in P, \A n \in P : n + 1 \in P
    PROVE  \A n \in Nat : n \in P
<1> DEFINE others == Nat \ P
<1>1. SUFFICES ASSUME others # {} PROVE FALSE
  OBVIOUS
<1>2. PICK n \in others : \A m \in others : ~(<<m, n>> \in OpToRel(<, Nat))
  <2>1. others \subseteq Nat
    OBVIOUS
  <2>2. QED
    <3> HIDE DEF others
    <3> QED BY <1>1, <2>1, NatLessThanWellFounded, WFMin
<1>3. n \in Nat /\ n # 0 /\ n - 1 \in Nat
  OBVIOUS
<1>4. <<n - 1, n>> \in OpToRel(<, Nat)
  BY <1>3 DEF OpToRel
<1>5. n - 1 \in P
  BY <1>2, <1>3, <1>4
<1>6. QED
  BY <1>3, <1>5

LEMMA LeastIs ==
    ASSUME NEW K \in SUBSET Nat, K # {}
    PROVE  \E k \in K : \A m \in K : k <= m
<1>1. PICK k \in K : \A m \in K : ~(<<m, k>> \in OpToRel(<, Nat))
  BY NatLessThanWellFounded, WFMin
<1>2. ASSUME NEW m \in K, ~(k <= m) PROVE FALSE
  <2>1. <<m, k>> \in OpToRel(<, Nat)
    BY <1>2 DEF OpToRel
  <2>2. QED
    BY <1>1, <2>1
<1>3. QED
  BY <1>2

(* Sequences of members of one set, one after the other, are such again.   *)
LEMMA FlattenIs ==
    ASSUME NEW S, NEW seqs \in Seq(Seq(S))
    PROVE  FlattenSeq(seqs) \in Seq(S)
<1> DEFINE n == Len(seqs)
           Step(g) == [i \in 1 .. n |-> IF i = 1 THEN seqs[i] ELSE g[i - 1] \o seqs[i]]
           Good(g, m) == \A i \in 1 .. n : i <= m => g[i] = IF i = 1 THEN seqs[i] ELSE g[i - 1] \o seqs[i]
           P == {m \in Nat : \E g \in [1 .. n -> Seq(S)] : Good(g, m)}
<1>1. n \in Nat /\ \A i \in 1 .. n : seqs[i] \in Seq(S)
  OBVIOUS
<1>2. 0 \in P
  <2> DEFINE z == [i \in 1 .. n |-> <<>>]
  <2>1. z \in [1 .. n -> Seq(S)]
    OBVIOUS
  <2>2. Good(z, 0)
    BY <1>1
  <2> HIDE DEF z, Good
  <2>3. QED
    BY <2>1, <2>2
<1>3. ASSUME NEW m \in P PROVE m + 1 \in P
  <2>1. PICK g \in [1 .. n -> Seq(S)] : Good(g, m)
    BY <1>3
  <2>2. m \in Nat
    BY <1>3
  <2> DEFINE h == [i \in 1 .. n |-> IF i <= m THEN g[i]
                                    ELSE IF i = 1 THEN seqs[i] ELSE g[i - 1] \o seqs[i]]
  <2>3. \A i \in 1 .. n : i # 1 => i - 1 \in 1 .. n
    BY <1>1
  <2>4. h \in [1 .. n -> Seq(S)]
    <3> HIDE DEF n
    <3>1. ASSUME NEW i \in 1 .. n PROVE h[i] \in Seq(S)
      <4>1. CASE i <= m \/ i = 1
        BY <1>1, <4>1
      <4>2. CASE ~(i <= m \/ i = 1)
        <5>1. g[i - 1] \in Seq(S) /\ seqs[i] \in Seq(S)
          BY <1>1, <2>3, <4>2
        <5>2. g[i - 1] \o seqs[i] \in Seq(S)
          BY <5>1
        <5>3. QED
          BY <4>2, <5>2
      <4>3. QED
        BY <4>1, <4>2
    <3>2. QED
      BY <3>1
  <2>5. Good(h, m + 1)
    <3> HIDE DEF n
    <3> SUFFICES ASSUME NEW i \in 1 .. n, i <= m + 1
                 PROVE  h[i] = IF i = 1 THEN seqs[i] ELSE h[i - 1] \o seqs[i]
      OBVIOUS
    <3>1. i # 1 => i - 1 \in 1 .. n /\ i - 1 <= m
      BY <1>1, <2>2, <2>3
    <3>2. i # 1 => h[i - 1] = g[i - 1]
      BY <3>1
    <3>3. CASE i <= m
      BY <2>1, <3>2, <3>3
    <3>4. CASE ~(i <= m)
      BY <3>2, <3>4
    <3>5. QED
      BY <3>3, <3>4
  <2> HIDE DEF h, Good
  <2>6. QED
    BY <2>2, <2>4, <2>5
<1>4. PICK g \in [1 .. n -> Seq(S)] : Good(g, n)
  <2>1. P \in SUBSET Nat
    OBVIOUS
  <2>2. \A m \in Nat : m \in P
    <3> HIDE DEF P
    <3> QED BY <1>2, <1>3, <2>1, ByNumber
  <2>3. n \in P
    BY <1>1, <2>2
  <2>4. QED
    BY <2>3
<1>5. g = Step(g)
  <2>1. g = [i \in 1 .. n |-> g[i]] /\ \A i \in 1 .. n : i <= n
    BY <1>1, <1>4
  <2>2. \A i \in 1 .. n : g[i] = IF i = 1 THEN seqs[i] ELSE g[i - 1] \o seqs[i]
    BY <1>4, <2>1
  <2> HIDE DEF n
  <2>3. QED
    BY <2>1, <2>2, Zenon
<1> DEFINE f == CHOOSE f : f = Step(f)
<1>6. f = Step(f)
  BY <1>5, Zenon
<1>7. FlattenSeq(seqs) = IF n = 0 THEN seqs ELSE f[n]
  BY Zenon DEF FlattenSeq
<1>8. \A i \in 1 .. n : f[i] = IF i = 1 THEN seqs[i] ELSE f[i - 1] \o seqs[i]
  <2> HIDE DEF f, n
  <2> QED BY <1>6
<1> HIDE DEF f
<1> DEFINE Q == {m \in Nat : m + 1 \in 1 .. n => f[m + 1] \in Seq(S)}
<1>9. 0 \in Q
  BY <1>1, <1>8
<1>10. ASSUME NEW m \in Q PROVE m + 1 \in Q
  <2>1. m \in Nat
    BY <1>10
  <2>2. ASSUME (m + 1) + 1 \in 1 .. n PROVE f[(m + 1) + 1] \in Seq(S)
    <3> DEFINE k == (m + 1) + 1
    <3>1. k \in 1 .. n /\ k # 1 /\ k - 1 = m + 1 /\ m + 1 \in 1 .. n
      BY <1>1, <2>1, <2>2
    <3>2. f[m + 1] \in Seq(S) /\ seqs[k] \in Seq(S)
      BY <1>1, <1>10, <3>1
    <3>3. f[k] = f[m + 1] \o seqs[k]
      <4> HIDE DEF k, n
      <4> QED BY <1>8, <3>1
    <3> HIDE DEF k
    <3>4. f[k] \in Seq(S)
      BY <3>2, <3>3
    <3>5. QED
      BY <3>4 DEF k
  <2>3. QED
    BY <2>1, <2>2
<1>11. \A m \in Nat : m \in Q
  <2>1. Q \in SUBSET Nat
    OBVIOUS
  <2> HIDE DEF Q
  <2>2. QED
    BY <1>9, <1>10, <2>1, ByNumber
<1>12. CASE n = 0
  <2>1. seqs = <<>>
    BY <1>12
  <2>2. QED
    BY <1>7, <1>12, <2>1
<1>13. CASE n # 0
  <2>1. n - 1 \in Nat /\ (n - 1) + 1 = n /\ n \in 1 .. n
    BY <1>1, <1>13
  <2>2. f[n] \in Seq(S)
    <3>1. n - 1 \in Q
      BY <1>11, <2>1
    <3>2. QED
      BY <2>1, <3>1
  <2>3. QED
    BY <1>7, <1>13, <2>2
<1>14. QED
  BY <1>12, <1>13

(* Commands on SAS Content.  What a command has still to send is known by  *)
(* its kind: of a new file, of a move, of a copy, or of the others.        *)
Dest == FolderIds \cup FreshIds \cup {Home, Bin, NoItem}
NewFileOps == {"newFile"}
MoveOps == {"rename", "drag", "cut", "restore", "recycle"}
PlainOps == {"newFolder", "delete", "empty", "favorite", "unfavorite"}
ContentOps == NewFileOps \cup MoveOps \cup PlainOps \cup {"copy", "idle"}
CopyPlans == UNION {[D -> SUBSET Items] : D \in SUBSET Items}
Job == [op : ContentOps, item : Items \cup {NoItem}, into : Items \cup {Home, Bin, NoItem},
        name : ItemNames, todo : Seq(Request), aborted : BOOLEAN,
        read : (Places \X ItemNames) \cup {NoItem}, made : FreshIds \cup {NoItem},
        plan : CopyPlans, again : BOOLEAN, untouched : BOOLEAN, number : Nat]

(* What a request needs to be known of it when it is sent.                 *)
Sendable(job, t) ==
    /\ t.do \in {"link", "undo"} => job.made \in FreshIds
    /\ t.do \in {"root", "file", "sub", "add"} => t.on \in Items
    /\ t.do \in {"folder", "link", "put", "root", "file", "sub"} => t.into \in Dest
    /\ t.do = "put" => t.on \in Items /\ job.read \in Places \X ItemNames

LEMMA ContentBound ==
    /\ MaxName \in Nat /\ MaxName # 0 /\ MaxCommands \in Nat /\ IsFiniteSet(Items)
    /\ FolderIds \subseteq Items /\ FileIds \subseteq Items /\ FreshIds \subseteq Items
    /\ Home \notin Items /\ Bin \notin Items /\ NoItem \notin Items
    /\ "unmade" \notin Items /\ "unlinked" \notin Items /\ "gone" \notin Items
    /\ Home \notin {NoItem, "unmade", "unlinked", "gone"}
    /\ Bin \notin {NoItem, "unmade", "unlinked", "gone"}
    /\ Ops \subseteq (ContentOps \ {"cut", "copy", "idle"}) \cup {"paste", "drag"}
BY ContentAssumption DEF Items, ContentOps, NewFileOps, MoveOps, PlainOps

LEMMA ThereIs ==
    ASSUME NEW s \in Service, NEW f, There(s, f)
    PROVE  /\ f \in Items \cup {Home, Bin} /\ f # "unlinked" /\ f # NoItem
           /\ f \in Dest => f \in Places
           /\ f \in Items => s.place[f] \in FolderIds \cup FreshIds \cup {Home, Bin}
BY ContentBound DEF There, Service, Dest, Places

LEMMA MakeFits ==
    ASSUME NEW s \in Service, NEW i \in Items, NEW f \in Places, NEW n \in ItemNames,
           NEW k \in {"folder", "file"}
    PROVE  /\ Make(s, i, f, n, k) \in Service /\ Make(s, i, f, n, k).place[i] = f
           /\ \A x \in Items : x # i => Make(s, i, f, n, k).place[x] = s.place[x]
BY DEF Make, Service

LEMMA PutFits ==
    ASSUME NEW s \in Service, NEW i \in Items, NEW f \in Places, NEW n \in ItemNames
    PROVE  /\ Put(s, i, f, n) \in Service /\ Put(s, i, f, n).place[i] = f
           /\ \A x \in Items : x # i => Put(s, i, f, n).place[x] = s.place[x]
BY DEF Put, Service

LEMMA LosesFits ==
    ASSUME NEW s \in Service, NEW i
    PROVE  /\ [s EXCEPT !.place[i] = "gone"] \in Service
           /\ \A x \in Items : [s EXCEPT !.place[i] = "gone"].place[x] =
                                 IF x = i THEN "gone" ELSE s.place[x]
<1>1. "gone" \in Places
  BY DEF Places
<1>2. QED
  BY <1>1 DEF Service

LEMMA FavorsFit ==
    ASSUME NEW s \in Service, NEW F \in SUBSET Items
    PROVE  /\ [s EXCEPT !.favorites = F] \in Service
           /\ [s EXCEPT !.favorites = F].place = s.place
BY DEF Service

(* What a request makes of the services; only a post leaves a file in no   *)
(* folder, and a link or its removal ends that.                            *)
EffectFits(s, job, t, n) ==
    /\ Effect(s, job, t, n) \in Service
    /\ \A i \in Items : Effect(s, job, t, n).place[i] = "unlinked" =>
          /\ s.place[i] = "unlinked" \/ (t.do = "post" /\ i = n)
          /\ ~(t.do \in {"link", "undo"} /\ i = job.made)

LEMMA EffectIs ==
    ASSUME NEW s \in Service, NEW job \in Job, NEW t \in Request, NEW n,
           Makes(t) => n \in FreshIds, Sendable(job, t), Accepts(s, job, t, n)
    PROVE  EffectFits(s, job, t, n)
<1> DEFINE after == Effect(s, job, t, n)
<1>1. FreshIds \subseteq Items /\ "unlinked" \in Places /\ "unlinked" # "gone"
  BY ContentBound DEF Places
<1>2. job.name \in ItemNames
  BY DEF Job
<1>3. CASE t.do = "folder"
  <2>1. There(s, t.into) /\ t.into \in Dest /\ n \in Items
    BY <1>1, <1>3 DEF Accepts, Sendable, Makes
  <2>2. t.into \in Places /\ t.into # "unlinked"
    BY <2>1, ThereIs
  <2>3. after = Make(s, n, t.into, job.name, "folder")
    BY <1>3 DEF Effect
  <2> HIDE DEF after
  <2>4. QED
    BY <1>2, <1>3, <2>1, <2>2, <2>3, MakeFits DEF EffectFits, after
<1>4. CASE t.do = "post"
  <2>1. n \in Items
    BY <1>1, <1>4 DEF Makes
  <2>2. after = Make(s, n, "unlinked", job.name, "file")
    BY <1>4 DEF Effect
  <2> HIDE DEF after
  <2>3. QED
    BY <1>1, <1>2, <1>4, <2>1, <2>2, MakeFits DEF EffectFits, after
<1>5. CASE t.do = "link"
  <2>1. There(s, t.into) /\ t.into \in Dest /\ job.made \in Items
    BY <1>1, <1>5 DEF Accepts, Sendable
  <2>2. t.into \in Places /\ t.into # "unlinked"
    BY <2>1, ThereIs
  <2>3. after = Make(s, job.made, t.into, job.name, "file")
    BY <1>5 DEF Effect
  <2> HIDE DEF after
  <2>4. QED
    BY <1>2, <1>5, <2>1, <2>2, <2>3, MakeFits DEF EffectFits, after
<1>6. CASE t.do = "undo"
  <2>1. after = [s EXCEPT !.place[job.made] = "gone"]
    BY <1>6 DEF Effect
  <2> HIDE DEF after
  <2>2. QED
    BY <1>6, <2>1, LosesFits DEF EffectFits, after
<1>7. CASE t.do = "put"
  <2>1. t.on \in Items /\ t.into \in Dest /\ job.read[1] \in Places /\ job.read[2] \in ItemNames
    BY <1>7 DEF Sendable
  <2> DEFINE f == IF job.op = "rename" THEN job.read[1] ELSE t.into
             m == IF job.op = "rename" THEN job.name ELSE job.read[2]
  <2>2. after = Put(s, t.on, f, m)
    <3>1. CASE job.op = "rename"
      BY <1>7, <3>1 DEF Effect
    <3>2. CASE job.op # "rename"
      BY <1>7, <3>2 DEF Effect
    <3>3. QED
      BY <3>1, <3>2
  <2>3. There(s, after.place[t.on])
    BY <1>7 DEF Accepts
  <2>4. after.place[t.on] = f
    BY <2>1, <2>2 DEF Put, Service
  <2>5. There(s, f) /\ m \in ItemNames /\ (f \in Dest \/ f \in Places)
    BY <1>2, <2>1, <2>3, <2>4
  <2> HIDE DEF f, m, after
  <2>6. f \in Places /\ f # "unlinked"
    BY <2>5, ThereIs
  <2>7. QED
    BY <1>7, <2>1, <2>2, <2>5, <2>6, PutFits DEF EffectFits, after
<1>8. CASE t.do = "drop"
  <2>1. after = [s EXCEPT !.place[t.on] = "gone"]
    BY <1>8 DEF Effect
  <2> HIDE DEF after
  <2>2. QED
    BY <1>8, <2>1, LosesFits DEF EffectFits, after
<1>9. CASE t.do \in {"add", "remove"}
  <2> DEFINE F == IF t.do = "add" THEN s.favorites \cup {t.on} ELSE s.favorites \ {t.on}
  <2>1. F \in SUBSET Items
    BY <1>9 DEF Sendable, Service
  <2>2. after = [s EXCEPT !.favorites = F]
    BY <1>9 DEF Effect
  <2> HIDE DEF after, F
  <2>3. QED
    BY <1>9, <2>1, <2>2, FavorsFit DEF EffectFits, after
<1>10. CASE t.do \in {"root", "file", "sub"}
  <2>1. There(s, t.into) /\ t.into \in Dest /\ n \in Items /\ t.on \in Items
    BY <1>1, <1>10 DEF Accepts, Sendable, Makes
  <2>2. t.into \in Places /\ t.into # "unlinked"
    BY <2>1, ThereIs
  <2> DEFINE m == IF t.do = "root" THEN job.name ELSE s.name[t.on]
             k == IF t.do = "root" THEN s.kind[t.on] ELSE IF t.do = "file" THEN "file" ELSE "folder"
  <2>3. m \in ItemNames /\ k \in {"folder", "file"}
    BY <1>2, <2>1 DEF Service
  <2>4. after = Make(s, n, t.into, m, k)
    BY <1>10 DEF Effect
  <2> HIDE DEF after, m, k
  <2>5. QED
    BY <1>10, <2>1, <2>2, <2>3, <2>4, MakeFits DEF EffectFits, after
<1>11. CASE t.do \notin {"folder", "post", "link", "undo", "put", "drop", "add", "remove",
                         "root", "file", "sub"}
  <2>1. after = s
    BY <1>11 DEF Effect
  <2> HIDE DEF after
  <2>2. QED
    BY <1>11, <2>1 DEF EffectFits, after
<1>12. QED
  BY <1>3, <1>4, <1>5, <1>6, <1>7, <1>8, <1>9, <1>10, <1>11

-----------------------------------------------------------------------------
(* What each kind of command has still to send: the steps of a new file    *)
(* one by one, for a move the read before the put, for a copy the walks,   *)
(* then the copy of the item itself, then of what it holds; `copied' is    *)
(* whether the item has been copied.                                       *)
NewFileTodo(todo, made) ==
    \/ /\ made = NoItem
       /\ \E f \in Dest :
            \/ todo = <<Do("type", NoItem, f), Do("check", NoItem, f), Do("post", NoItem, f),
                        Do("link", NoItem, f)>>
            \/ todo = <<Do("check", NoItem, f), Do("post", NoItem, f), Do("link", NoItem, f)>>
            \/ todo = <<Do("post", NoItem, f), Do("link", NoItem, f)>>
    \/ /\ made \in FreshIds
       /\ \/ \E f \in Dest : todo = <<Do("link", NoItem, f)>>
          \/ todo = <<Do("undo", NoItem, NoItem)>>

MoveTodo(todo, read) ==
    \E i \in Items, f \in Dest :
        \/ \E t \in Request : t.do \in {"look", "check"}
                              /\ todo = <<t, Do("read", i, NoItem), Do("put", i, f)>>
        \/ todo = <<Do("read", i, NoItem), Do("put", i, f)>>
        \/ todo = <<Do("put", i, f)>> /\ read \in Places \X ItemNames

PlainRequest ==
    {t \in Request : /\ t.do \in {"check", "folder", "look", "list", "drop", "tidy", "add", "remove"}
                     /\ t.do = "add" => t.on \in Items
                     /\ t.do = "folder" => t.into \in Dest}

WalkRequest == {t \in Request : t.do = "walk" /\ t.on \in Items}
FillRequest(D) == {t \in Request : /\ t.do \in {"file", "sub"} /\ t.on \in Items /\ t.into \in Dest
                                   /\ t.do = "sub" => t.on \in D}
WalksFirst(todo, item) ==
    /\ todo \in Seq(Request) /\ Len(todo) >= 1
    /\ todo[Len(todo)].do = "root" /\ todo[Len(todo)].on = item /\ todo[Len(todo)].into \in Dest
    /\ \A k \in 1 .. Len(todo) - 1 : todo[k] \in WalkRequest
CopyTodo(todo, item, planned, copied) ==
    \/ ~copied /\ DOMAIN planned = {} /\ \E f \in Dest : todo = <<Do("siblings", item, f)>>
    \/ ~copied /\ (DOMAIN planned = {} \/ item \in DOMAIN planned)
               /\ \E f \in Dest : todo = <<Do("relist", item, f)>>
    \/ ~copied /\ WalksFirst(todo, item)
               /\ \/ item \in DOMAIN planned
                  \/ DOMAIN planned = {} /\ (todo[1].do = "walk" => todo[1].on = item)
    \/ todo \in Seq(FillRequest(DOMAIN planned))

Copied(job, copies) == \E n \in FreshIds : <<job.number, n>> \in copies
TodoFits(job, copies) ==
    /\ job.op \in NewFileOps => job.todo = <<>> \/ NewFileTodo(job.todo, job.made)
    /\ job.op \notin NewFileOps => job.made = NoItem
    /\ job.op \in MoveOps => job.todo = <<>> \/ MoveTodo(job.todo, job.read)
    /\ job.op \in PlainOps => job.todo \in Seq(PlainRequest)
    /\ job.op = "copy" =>
          job.todo = <<>> \/ (job.item \in Items /\ CopyTodo(job.todo, job.item, job.plan, Copied(job, copies)))
    /\ job.op = "idle" => job.todo = <<>>

LEMMA DoIs ==
    ASSUME NEW d \in {"type", "check", "folder", "post", "link", "undo", "look", "read",
                      "put", "list", "drop", "tidy", "add", "remove",
                      "siblings", "walk", "root", "relist", "file", "sub"},
           NEW i \in Items \cup {Home, Bin, NoItem}, NEW f \in Items \cup {Home, Bin, NoItem}
    PROVE  /\ Do(d, i, f) \in Request /\ Do(d, i, f).do = d /\ Do(d, i, f).on = i
           /\ Do(d, i, f).into = f
BY DEF Do, Request

LEMMA DestIs == Dest \subseteq Items \cup {Home, Bin, NoItem} /\ NoItem \in Dest
                /\ FreshIds \subseteq Dest
BY DEF Dest, Items

(* The head of what a new file has still to send, and what is left.        *)
LEMMA NewFileHead ==
    ASSUME NEW todo, NEW made, NewFileTodo(todo, made)
    PROVE  \/ /\ Head(todo).do \in {"type", "check"} /\ made = NoItem
              /\ NewFileTodo(Tail(todo), NoItem) /\ Tail(todo) # <<>>
           \/ /\ Head(todo).do = "post" /\ made = NoItem /\ Tail(todo) # <<>>
              /\ \A n \in FreshIds : NewFileTodo(Tail(todo), n)
           \/ /\ Head(todo).do = "link" /\ made \in FreshIds /\ Tail(todo) = <<>>
              /\ Head(todo).into \in Dest
           \/ /\ Head(todo).do = "undo" /\ made \in FreshIds /\ Tail(todo) = <<>>
<1>1. ASSUME NEW a, NEW b, NEW c, NEW d
      PROVE  /\ Head(<<a, b, c, d>>) = a /\ Tail(<<a, b, c, d>>) = <<b, c, d>>
             /\ Head(<<b, c, d>>) = b /\ Tail(<<b, c, d>>) = <<c, d>>
             /\ Head(<<c, d>>) = c /\ Tail(<<c, d>>) = <<d>>
             /\ Head(<<d>>) = d /\ Tail(<<d>>) = <<>>
             /\ <<b, c, d>> # <<>> /\ <<c, d>> # <<>> /\ <<d>> # <<>>
  OBVIOUS
<1>2. \A f \in Dest : /\ Do("type", NoItem, f).do = "type" /\ Do("check", NoItem, f).do = "check"
                      /\ Do("post", NoItem, f).do = "post" /\ Do("link", NoItem, f).do = "link"
                      /\ Do("link", NoItem, f).into = f
  BY DEF Do
<1>3. Do("undo", NoItem, NoItem).do = "undo"
  BY DEF Do
<1>4. ASSUME NEW f \in Dest, made = NoItem,
             todo = <<Do("type", NoItem, f), Do("check", NoItem, f), Do("post", NoItem, f),
                      Do("link", NoItem, f)>>
      PROVE  /\ Head(todo).do = "type" /\ Tail(todo) # <<>> /\ NewFileTodo(Tail(todo), NoItem)
  <2>1. Head(todo) = Do("type", NoItem, f)
        /\ Tail(todo) = <<Do("check", NoItem, f), Do("post", NoItem, f), Do("link", NoItem, f)>>
        /\ Tail(todo) # <<>>
    BY <1>1, <1>4
  <2>2. QED
    BY <1>2, <2>1 DEF NewFileTodo
<1>5. ASSUME NEW f \in Dest, made = NoItem,
             todo = <<Do("check", NoItem, f), Do("post", NoItem, f), Do("link", NoItem, f)>>
      PROVE  /\ Head(todo).do = "check" /\ Tail(todo) # <<>> /\ NewFileTodo(Tail(todo), NoItem)
  <2>1. Head(todo) = Do("check", NoItem, f) /\ Tail(todo) # <<>>
        /\ Tail(todo) = <<Do("post", NoItem, f), Do("link", NoItem, f)>>
    BY <1>1, <1>5
  <2>2. QED
    BY <1>2, <2>1 DEF NewFileTodo
<1>6. ASSUME NEW f \in Dest, made = NoItem,
             todo = <<Do("post", NoItem, f), Do("link", NoItem, f)>>
      PROVE  /\ Head(todo).do = "post" /\ Tail(todo) # <<>>
             /\ \A n \in FreshIds : NewFileTodo(Tail(todo), n)
  <2>1. Head(todo) = Do("post", NoItem, f) /\ Tail(todo) # <<>>
        /\ Tail(todo) = <<Do("link", NoItem, f)>>
    BY <1>1, <1>6
  <2>2. QED
    BY <1>2, <2>1 DEF NewFileTodo
<1>7. ASSUME NEW f \in Dest, made \in FreshIds, todo = <<Do("link", NoItem, f)>>
      PROVE  Head(todo).do = "link" /\ Tail(todo) = <<>> /\ Head(todo).into \in Dest
  <2>1. Head(todo) = Do("link", NoItem, f) /\ Tail(todo) = <<>>
    BY <1>1, <1>7
  <2>2. QED
    BY <1>2, <2>1
<1>8. ASSUME made \in FreshIds, todo = <<Do("undo", NoItem, NoItem)>>
      PROVE  Head(todo).do = "undo" /\ Tail(todo) = <<>>
  <2>1. Head(todo) = Do("undo", NoItem, NoItem) /\ Tail(todo) = <<>>
    BY <1>1, <1>8
  <2>2. QED
    BY <1>3, <2>1
<1>9. QED
  BY <1>4, <1>5, <1>6, <1>7, <1>8 DEF NewFileTodo

(* Of a move: what comes first is no put, or nothing is read any more.     *)
LEMMA MoveHead ==
    ASSUME NEW todo, NEW read, MoveTodo(todo, read)
    PROVE  \/ Head(todo).do \in {"look", "check"} /\ MoveTodo(Tail(todo), read)
           \/ /\ Head(todo).do = "read" /\ Head(todo).on \in Items
              /\ \A r \in Places \X ItemNames : MoveTodo(Tail(todo), r)
           \/ /\ Head(todo).do = "put" /\ Head(todo).on \in Items /\ Head(todo).into \in Dest
              /\ read \in Places \X ItemNames /\ Tail(todo) = <<>>
<1>1. ASSUME NEW b, NEW c, NEW d
      PROVE  /\ Head(<<b, c, d>>) = b /\ Tail(<<b, c, d>>) = <<c, d>>
             /\ Head(<<c, d>>) = c /\ Tail(<<c, d>>) = <<d>>
             /\ Head(<<d>>) = d /\ Tail(<<d>>) = <<>>
  OBVIOUS
<1>2. PICK i \in Items, f \in Dest :
        \/ \E t \in Request : t.do \in {"look", "check"}
                              /\ todo = <<t, Do("read", i, NoItem), Do("put", i, f)>>
        \/ todo = <<Do("read", i, NoItem), Do("put", i, f)>>
        \/ todo = <<Do("put", i, f)>> /\ read \in Places \X ItemNames
  BY DEF MoveTodo
<1>3. /\ Do("read", i, NoItem).do = "read" /\ Do("read", i, NoItem).on = i
      /\ Do("put", i, f).do = "put" /\ Do("put", i, f).on = i /\ Do("put", i, f).into = f
  BY DEF Do
<1>4. CASE \E t \in Request : t.do \in {"look", "check"}
                              /\ todo = <<t, Do("read", i, NoItem), Do("put", i, f)>>
  <2>1. Head(todo).do \in {"look", "check"} /\ Tail(todo) = <<Do("read", i, NoItem), Do("put", i, f)>>
    BY <1>1, <1>4
  <2>2. QED
    BY <2>1 DEF MoveTodo
<1>5. CASE todo = <<Do("read", i, NoItem), Do("put", i, f)>>
  <2>1. Head(todo) = Do("read", i, NoItem) /\ Tail(todo) = <<Do("put", i, f)>>
    BY <1>1, <1>5
  <2>2. QED
    BY <1>3, <2>1 DEF MoveTodo
<1>6. CASE todo = <<Do("put", i, f)>> /\ read \in Places \X ItemNames
  <2>1. Head(todo) = Do("put", i, f) /\ Tail(todo) = <<>>
    BY <1>1, <1>6
  <2>2. QED
    BY <1>3, <1>6, <2>1
<1>7. QED
  BY <1>2, <1>4, <1>5, <1>6

LEMMA SeqWithin ==
    ASSUME NEW S, NEW T, S \subseteq T, NEW q \in Seq(S)
    PROVE  q \in Seq(T)
OBVIOUS

LEMMA ImageListed ==
    ASSUME NEW K, IsFiniteSet(K), NEW T, NEW g \in [K -> T]
    PROVE  SetToSeq({g[k] : k \in K}) \in Seq(T)
<1> DEFINE I == {g[k] : k \in K}
<1>1. g \in Surjection(K, I) /\ I \subseteq T
  BY DEF Surjection
<1> HIDE DEF I
<1>2. IsFiniteSet(I)
  BY <1>1, FS_Surjection
<1>3. SetToSeq(I) \in Seq(I)
  BY <1>2, SetListed
<1>4. QED
  BY <1>1, <1>3, SeqWithin DEF I

LEMMA TailIs ==
    ASSUME NEW S, NEW q \in Seq(S), Len(q) >= 1
    PROVE  /\ Len(q) \in Nat /\ Head(q) = q[1] /\ (Len(q) = 1 => Tail(q) = <<>>)
           /\ Tail(q) \in Seq(S) /\ Len(Tail(q)) = Len(q) - 1
           /\ \A k \in 1 .. Len(q) - 1 : Tail(q)[k] = q[k + 1]
<1>1. q # <<>> /\ Len(q) \in Nat
  OBVIOUS
<1>2. Head(q) = q[1] /\ Tail(q) \in Seq(S) /\ Len(Tail(q)) = Len(q) - 1
  BY <1>1
<1>3. \A k \in 1 .. Len(q) - 1 : Tail(q)[k] = q[k + 1]
  BY <1>1
<1> DEFINE r == Tail(q)
           n == Len(q)
<1>4. r \in Seq(S) /\ Len(r) = n - 1
  BY <1>2
<1> HIDE DEF r, n
<1>5. n = 1 => r = <<>>
  BY <1>4
<1>6. QED
  BY <1>1, <1>2, <1>3, <1>5 DEF r, n

LEMMA JoinIs ==
    ASSUME NEW S, NEW a \in Seq(S), NEW b \in Seq(S)
    PROVE  /\ a \o b \in Seq(S) /\ Len(a \o b) = Len(a) + Len(b)
           /\ Len(a) \in Nat /\ Len(b) \in Nat
           /\ \A k \in 1 .. Len(a) : (a \o b)[k] = a[k] /\ a[k] \in S
           /\ \A k \in 1 .. Len(b) : (a \o b)[Len(a) + k] = b[k]
OBVIOUS

LEMMA WalksHead ==
    ASSUME NEW todo, NEW item, WalksFirst(todo, item)
    PROVE  \/ /\ Head(todo).do = "root" /\ Head(todo).on = item /\ Head(todo).into \in Dest
              /\ Tail(todo) = <<>>
           \/ /\ Head(todo) \in WalkRequest
              /\ \A new \in Seq(WalkRequest) : WalksFirst(new \o Tail(todo), item)
<1> DEFINE l == Len(todo)
           rest == Tail(todo)
<1>1. todo \in Seq(Request) /\ l >= 1
  BY DEF WalksFirst
<1>2. /\ l \in Nat /\ Head(todo) = todo[1] /\ (l = 1 => rest = <<>>)
      /\ rest \in Seq(Request) /\ Len(rest) = l - 1
      /\ \A k \in 1 .. l - 1 : rest[k] = todo[k + 1]
  BY <1>1, TailIs
<1>3. /\ todo[l].do = "root" /\ todo[l].on = item /\ todo[l].into \in Dest
      /\ \A k \in 1 .. l - 1 : todo[k] \in WalkRequest
  BY DEF WalksFirst
<1> HIDE DEF l, rest
<1>4. CASE l = 1
  BY <1>2, <1>3, <1>4 DEF rest
<1>5. CASE l # 1
  <2> DEFINE n == l - 1
  <2>1. n \in Nat /\ n >= 1 /\ 1 \in 1 .. l - 1 /\ n \in 1 .. l - 1 /\ n + 1 = l
        /\ \A k \in 1 .. n - 1 : k \in 1 .. l - 1 /\ k + 1 \in 1 .. l - 1
    BY <1>1, <1>2, <1>5
  <2>2. Head(todo) \in WalkRequest
    BY <1>2, <1>3, <2>1
  <2>3. /\ rest[n].do = "root" /\ rest[n].on = item /\ rest[n].into \in Dest
        /\ \A k \in 1 .. n - 1 : rest[k] \in WalkRequest
    BY <1>2, <1>3, <2>1
  <2>4. Len(rest) = n
    BY <1>2
  <2> HIDE DEF n
  <2>5. ASSUME NEW new \in Seq(WalkRequest) PROVE WalksFirst(new \o rest, item)
    <3> DEFINE all == new \o rest
               m == Len(new)
    <3>1. new \in Seq(Request) /\ m \in Nat /\ \A k \in 1 .. m : new[k] \in WalkRequest
      <4>1. WalkRequest \subseteq Request
        BY DEF WalkRequest
      <4>2. QED
        BY <4>1, SeqWithin
    <3> HIDE DEF m, all
    <3>2. /\ all \in Seq(Request) /\ Len(all) = m + n
          /\ \A k \in 1 .. m : all[k] = new[k]
          /\ \A k \in 1 .. n : all[m + k] = rest[k]
      <4>1. /\ new \o rest \in Seq(Request) /\ Len(new \o rest) = Len(new) + Len(rest)
            /\ \A k \in 1 .. Len(new) : (new \o rest)[k] = new[k]
            /\ \A k \in 1 .. Len(rest) : (new \o rest)[Len(new) + k] = rest[k]
        <5>1. new \in Seq(Request) /\ rest \in Seq(Request)
          BY <1>2, <3>1
        <5>2. QED
          BY <5>1, JoinIs
      <4>2. QED
        BY <2>4, <4>1, Zenon DEF all, m
    <3>3. m + n >= 1 /\ n \in 1 .. n
      BY <2>1, <3>1
    <3>4. all[m + n] = rest[n]
      BY <3>2, <3>3
    <3>5. \A k \in 1 .. m + n - 1 : k \in 1 .. m \/ (k - m \in 1 .. n - 1 /\ k - m \in 1 .. n /\ m + (k - m) = k)
      BY <2>1, <3>1
    <3>6. ASSUME NEW k \in 1 .. m + n - 1 PROVE all[k] \in WalkRequest
      <4>1. CASE k \in 1 .. m
        BY <3>1, <3>2, <4>1
      <4>2. CASE k - m \in 1 .. n - 1 /\ k - m \in 1 .. n /\ m + (k - m) = k
        <5>1. all[m + (k - m)] = rest[k - m]
          BY <3>2, <4>2
        <5>2. QED
          BY <2>3, <4>2, <5>1
      <4>3. QED
        BY <3>5, <4>1, <4>2
    <3> DEFINE z == Len(all)
    <3>7. z = m + n
      BY <3>2
    <3> HIDE DEF z
    <3>8. /\ all[z].do = "root" /\ all[z].on = item /\ all[z].into \in Dest /\ z >= 1
          /\ \A k \in 1 .. z - 1 : all[k] \in WalkRequest
      <4>1. all[z] = rest[n] /\ z >= 1
        BY <3>3, <3>4, <3>7
      <4>2. \A k \in 1 .. z - 1 : all[k] \in WalkRequest
        <5>1. 1 .. z - 1 = 1 .. m + n - 1
          BY <2>1, <3>1, <3>7
        <5>2. QED
          BY <3>6, <5>1, Zenon
      <4>3. QED
        BY <2>3, <4>1, <4>2
    <3>9. WalksFirst(all, item)
      BY <3>2, <3>8 DEF WalksFirst, z
    <3>10. QED
      BY <3>9 DEF all
  <2>6. QED
    BY <2>2, <2>5 DEF rest
<1>6. QED
  BY <1>4, <1>5

LEMMA WalksBegin ==
    ASSUME NEW i \in Items, NEW f \in Dest
    PROVE  /\ WalksFirst(<<Do("root", i, f)>>, i)
           /\ WalksFirst(<<Do("walk", i, NoItem), Do("root", i, f)>>, i)
           /\ <<Do("walk", i, NoItem), Do("root", i, f)>>[1].on = i
           /\ <<Do("root", i, f)>>[1].do # "walk"
<1> DEFINE w == Do("walk", i, NoItem)
           r == Do("root", i, f)
<1>1. /\ w \in WalkRequest /\ w \in Request /\ w.on = i
      /\ r \in Request /\ r.do = "root" /\ r.on = i /\ r.into \in Dest
  BY DoIs, DestIs DEF WalkRequest
<1> HIDE DEF w, r
<1>2. <<r>> \in Seq(Request) /\ Len(<<r>>) = 1 /\ <<r>>[1] = r
  BY <1>1
<1>3. <<w, r>> \in Seq(Request) /\ Len(<<w, r>>) = 2 /\ <<w, r>>[1] = w /\ <<w, r>>[2] = r
  BY <1>1
<1>4. 1 .. 1 - 1 = {} /\ 1 .. 2 - 1 = {1}
  OBVIOUS
<1>5. WalksFirst(<<r>>, i)
  BY <1>1, <1>2, <1>4 DEF WalksFirst
<1>6. WalksFirst(<<w, r>>, i)
  BY <1>1, <1>3, <1>4 DEF WalksFirst
<1>7. QED
  BY <1>1, <1>2, <1>3, <1>5, <1>6 DEF w, r

LEMMA PlanIs ==
    ASSUME NEW planned \in CopyPlans
    PROVE  /\ DOMAIN planned \subseteq Items /\ planned \in [DOMAIN planned -> SUBSET Items]
           /\ \A i \in DOMAIN planned : planned[i] \subseteq Items
BY DEF CopyPlans

LEMMA FillsFit ==
    ASSUME NEW planned \in CopyPlans, NEW i \in DOMAIN planned, NEW made \in FreshIds
    PROVE  Fills(planned, i, made) \in Seq(FillRequest(DOMAIN planned))
<1> DEFINE D == DOMAIN planned
           A == {k \in planned[i] : inTree.kind[k] = "file"}
           B == planned[i] \cap D
           a == [k \in A |-> Do("file", k, made)]
           b == [k \in B |-> Do("sub", k, made)]
<1>1. IsFiniteSet(A) /\ IsFiniteSet(B) /\ A \subseteq Items /\ B \subseteq Items
  BY PlanIs, ContentBound, FS_Subset
<1>2. made \in Dest /\ made \in Items \cup {Home, Bin, NoItem}
  BY DestIs
<1>3. \A k \in A : Do("file", k, made) \in FillRequest(D)
  BY <1>1, <1>2, DoIs DEF FillRequest
<1>4. \A k \in B : Do("sub", k, made) \in FillRequest(D)
  BY <1>1, <1>2, DoIs DEF FillRequest
<1>5. a \in [A -> FillRequest(D)] /\ b \in [B -> FillRequest(D)]
  BY <1>3, <1>4
<1>6. {Do("file", k, made) : k \in A} = {a[k] : k \in A}
      /\ {Do("sub", k, made) : k \in B} = {b[k] : k \in B}
  OBVIOUS
<1> DEFINE S == SetToSeq({Do("file", k, made) : k \in A})
           T == SetToSeq({Do("sub", k, made) : k \in B})
<1>7. S \in Seq(FillRequest(D)) /\ T \in Seq(FillRequest(D))
  <2> HIDE DEF a, b, A, B, D
  <2>1. QED
    BY <1>1, <1>5, <1>6, ImageListed
<1>8. Fills(planned, i, made) = S \o T
  BY Zenon DEF Fills
<1> HIDE DEF S, T, D
<1>9. S \o T \in Seq(FillRequest(D))
  BY <1>7
<1>10. QED
  BY <1>8, <1>9 DEF D

LEMMA WalksFit ==
    ASSUME NEW K \in SUBSET Items
    PROVE  SetToSeq({Do("walk", i, NoItem) : i \in K}) \in Seq(WalkRequest)
<1> DEFINE a == [i \in K |-> Do("walk", i, NoItem)]
<1>1. IsFiniteSet(K)
  BY ContentBound, FS_Subset
<1>2. \A i \in K : Do("walk", i, NoItem) \in WalkRequest
  BY DoIs DEF WalkRequest
<1>3. a \in [K -> WalkRequest]
  BY <1>2
<1>4. {Do("walk", i, NoItem) : i \in K} = {a[i] : i \in K}
  OBVIOUS
<1> HIDE DEF a
<1>5. QED
  BY <1>1, <1>3, <1>4, ImageListed

LEMMA DeletesFit ==
    ASSUME NEW s, NEW i \in Items
    PROVE  Deletes(s, i) \in Seq(PlainRequest) /\ Deletes(s, i) # <<>>
<1>1. /\ Do("list", i, NoItem) \in PlainRequest /\ Do("drop", i, NoItem) \in PlainRequest
      /\ Do("tidy", i, NoItem) \in PlainRequest
  BY DoIs DEF PlainRequest
<1>2. QED
  BY <1>1 DEF Deletes

LEMMA DeletesListed ==
    ASSUME NEW s, NEW K \in SUBSET Items
    PROVE  FlattenSeq(SetToSeq({Deletes(s, i) : i \in K})) \in Seq(PlainRequest)
<1> DEFINE a == [i \in K |-> Deletes(s, i)]
<1>1. IsFiniteSet(K)
  BY ContentBound, FS_Subset
<1>2. a \in [K -> Seq(PlainRequest)]
  BY DeletesFit
<1>3. {Deletes(s, i) : i \in K} = {a[i] : i \in K}
  OBVIOUS
<1> HIDE DEF a
<1>4. SetToSeq({Deletes(s, i) : i \in K}) \in Seq(Seq(PlainRequest))
  BY <1>1, <1>2, <1>3, ImageListed
<1> DEFINE q == SetToSeq({Deletes(s, i) : i \in K})
<1> HIDE DEF q
<1>5. FlattenSeq(q) \in Seq(PlainRequest)
  BY <1>4, FlattenIs DEF q
<1>6. QED
  BY <1>5 DEF q

(* A name that is free is a name.                                          *)
LEMMA FreeCopyNameIs ==
    ASSUME NEW taken
    PROVE  FreeName(taken) \in ItemNames
<1>1. MaxName \in ItemNames /\ ItemNames \subseteq Nat
  BY ContentBound DEF ItemNames
<1>2. CASE ItemNames \subseteq taken
  BY <1>1, <1>2 DEF FreeName
<1>3. CASE ~(ItemNames \subseteq taken)
  <2> DEFINE K == ItemNames \ taken
  <2>1. K \in SUBSET Nat /\ K # {}
    BY <1>1, <1>3
  <2> HIDE DEF K
  <2>2. \E n \in K : \A m \in K : n <= m
    BY <2>1, LeastIs
  <2>3. (CHOOSE n \in K : \A m \in K : n <= m) \in K
    BY <2>2, Zenon
  <2>4. FreeName(taken) = CHOOSE n \in K : \A m \in K : n <= m
    BY <1>3, Zenon DEF FreeName, K
  <2>5. QED
    BY <2>3, <2>4 DEF K
<1>4. QED
  BY <1>2, <1>3

(* How a command goes on: what it has still to send remains of its kind.   *)
GoesOn(job, new, copies) ==
    /\ new \in Job /\ new.op = job.op /\ new.item = job.item /\ new.number = job.number
    /\ new.untouched = job.untouched /\ TodoFits(new, copies)

LEMMA TodoIs ==
    ASSUME NEW job \in Job, NEW q \in Seq(Request)
    PROVE  LET new == [job EXCEPT !.todo = q] IN
           /\ new \in Job /\ new.todo = q /\ new.op = job.op /\ new.item = job.item
           /\ new.number = job.number /\ new.untouched = job.untouched /\ new.made = job.made
           /\ new.read = job.read /\ new.plan = job.plan /\ new.name = job.name
BY DEF Job

LEMMA RequestsLeft ==
    ASSUME NEW job \in Job, job.todo # <<>>
    PROVE  /\ Head(job.todo) \in Request /\ Tail(job.todo) \in Seq(Request)
           /\ <<>> \in Seq(Request)
<1>1. job.todo \in Seq(Request)
  BY DEF Job
<1> DEFINE q == job.todo
<1> HIDE DEF q
<1>2. q \in Seq(Request) /\ q # <<>>
  BY <1>1 DEF q
<1>3. Head(q) \in Request /\ Tail(q) \in Seq(Request) /\ <<>> \in Seq(Request)
  BY <1>2
<1>4. QED
  BY <1>3 DEF q

LEMMA StopsKeepsTodo ==
    ASSUME NEW job \in Job, NEW copies, TodoFits(job, copies), NEW more
    PROVE  GoesOn(job, StopsJob(job), more) /\ StopsJob(job).todo = <<>>
<1>1. <<>> \in Seq(Request) /\ <<>> \in Seq(PlainRequest)
  OBVIOUS
<1> DEFINE new == [job EXCEPT !.todo = <<>>]
<1>2. /\ new \in Job /\ new.todo = <<>> /\ new.op = job.op /\ new.item = job.item
      /\ new.number = job.number /\ new.untouched = job.untouched /\ new.made = job.made
  BY <1>1, TodoIs
<1>3. StopsJob(job) = new
  BY DEF StopsJob
<1> HIDE DEF new
<1>4. TodoFits(new, more)
  BY <1>1, <1>2 DEF TodoFits
<1>5. QED
  BY <1>2, <1>3, <1>4 DEF GoesOn

(* A new file.                                                             *)
LEMMA NewFileAnswered ==
    ASSUME NEW s, NEW job \in Job, NEW copies, NEW more, TodoFits(job, copies),
           job.op \in NewFileOps, job.todo # <<>>, NEW n, Makes(Head(job.todo)) => n \in FreshIds
    PROVE  LET t == Head(job.todo)  new == Answer(s, job, t, n) IN
           /\ GoesOn(job, new, more)
           /\ t.do = "post" => new.made = n /\ new.todo # <<>>
           /\ job.made # NoItem => t.do \in {"link", "undo"}
           /\ t.do # "root"
<1> DEFINE t == Head(job.todo)
           rest == Tail(job.todo)
           new == Answer(s, job, t, n)
<1>1. NewFileTodo(job.todo, job.made) /\ rest \in Seq(Request)
  BY RequestsLeft DEF TodoFits
<1> DEFINE left == [job EXCEPT !.todo = rest]
<1>2. /\ left \in Job /\ left.todo = rest /\ left.op = job.op /\ left.item = job.item
      /\ left.number = job.number /\ left.untouched = job.untouched /\ left.made = job.made
  BY <1>1, TodoIs
<1>3. Rest(job) = left
  BY DEF Rest
<1>4. NoItem \notin FreshIds
  BY ContentBound
<1> HIDE DEF left
<1>5. CASE t.do \in {"type", "check"}
  <2>1. job.made = NoItem /\ NewFileTodo(rest, NoItem)
    BY <1>1, <1>5, NewFileHead
  <2>2. new = left \/ new = StopsJob(job)
    BY <1>3, <1>5 DEF Answer
  <2> HIDE DEF new, t, rest
  <2>3. TodoFits(left, more)
    BY <1>2, <2>1 DEF TodoFits, NewFileOps, MoveOps, PlainOps
  <2>4. GoesOn(job, left, more)
    BY <1>2, <2>3 DEF GoesOn
  <2>5. GoesOn(job, new, more)
    BY <2>2, <2>4, StopsKeepsTodo
  <2>6. QED
    BY <1>5, <2>1, <2>5 DEF new, t
<1>6. CASE t.do = "post"
  <2>1. job.made = NoItem /\ n \in FreshIds /\ NewFileTodo(rest, n) /\ rest # <<>>
    BY <1>1, <1>6, NewFileHead DEF Makes
  <2>2. new = [left EXCEPT !.made = n]
    BY <1>3, <1>6 DEF Answer
  <2> HIDE DEF new, t, rest
  <2>3. /\ new \in Job /\ new.todo = rest /\ new.op = job.op /\ new.item = job.item
        /\ new.number = job.number /\ new.untouched = job.untouched /\ new.made = n
    BY <1>2, <2>1, <2>2 DEF Job
  <2>4. TodoFits(new, more)
    BY <2>1, <2>3 DEF TodoFits, NewFileOps, MoveOps, PlainOps
  <2>5. GoesOn(job, new, more)
    BY <2>3, <2>4 DEF GoesOn
  <2>6. QED
    BY <1>6, <2>1, <2>3, <2>5 DEF new, t
<1>7. CASE t.do = "link"
  <2>1. rest = <<>>
    BY <1>1, <1>7, NewFileHead
  <2>2. new = left
    BY <1>3, <1>7 DEF Answer
  <2>3. left = StopsJob(job)
    BY <2>1 DEF left, StopsJob
  <2> HIDE DEF new, t, rest
  <2>4. GoesOn(job, new, more)
    BY <2>2, <2>3, StopsKeepsTodo
  <2>5. QED
    BY <1>7, <2>4 DEF new, t
<1>8. CASE t.do = "undo"
  <2>1. new = StopsJob(job)
    BY <1>8 DEF Answer
  <2> HIDE DEF new, t, rest
  <2>2. GoesOn(job, new, more)
    BY <2>1, StopsKeepsTodo
  <2>3. QED
    BY <1>8, <2>2 DEF new, t
<1>9. QED
  BY <1>1, <1>5, <1>6, <1>7, <1>8, NewFileHead

LEMMA NewFileFails ==
    ASSUME NEW job \in Job, NEW copies, NEW more, TodoFits(job, copies),
           job.op \in NewFileOps, job.todo # <<>>, NEW refusal
    PROVE  LET t == Head(job.todo)  new == Failure(job, t, refusal) IN
           /\ GoesOn(job, new, more)
           /\ t.do = "link" => new.made = job.made /\ new.todo # <<>>
           /\ job.made # NoItem => t.do \in {"link", "undo"}
           /\ t.do # "root"
<1> DEFINE t == Head(job.todo)
           rest == Tail(job.todo)
           new == Failure(job, t, refusal)
<1>1. NewFileTodo(job.todo, job.made) /\ rest \in Seq(Request)
  BY RequestsLeft DEF TodoFits
<1> DEFINE left == [job EXCEPT !.todo = rest]
<1>2. /\ left \in Job /\ left.todo = rest /\ left.op = job.op /\ left.item = job.item
      /\ left.number = job.number /\ left.untouched = job.untouched /\ left.made = job.made
  BY <1>1, TodoIs
<1>3. Rest(job) = left
  BY DEF Rest
<1>4. CASE t.do \in {"type", "check"}
  <2>1. job.made = NoItem /\ NewFileTodo(rest, NoItem)
    BY <1>1, <1>4, NewFileHead
  <2>2. new = left
    BY <1>3, <1>4 DEF Failure
  <2> HIDE DEF left, new, t, rest
  <2>3. TodoFits(left, more)
    BY <1>2, <2>1 DEF TodoFits, NewFileOps, MoveOps, PlainOps
  <2>4. GoesOn(job, left, more)
    BY <1>2, <2>3 DEF GoesOn
  <2>5. QED
    BY <1>4, <2>1, <2>2, <2>4 DEF new, t
<1>5. CASE t.do \in {"post", "undo"}
  <2>1. new = StopsJob(job) /\ (t.do = "post" => job.made = NoItem)
    BY <1>1, <1>5, NewFileHead DEF Failure
  <2> HIDE DEF left, new, t, rest
  <2>2. GoesOn(job, new, more)
    BY <2>1, StopsKeepsTodo
  <2>3. QED
    BY <1>5, <2>1, <2>2 DEF new, t
<1>6. CASE t.do = "link"
  <2> DEFINE q == <<Do("undo", NoItem, NoItem)>>
  <2>1. job.made \in FreshIds
    BY <1>1, <1>6, NewFileHead
  <2>2. Do("undo", NoItem, NoItem) \in Request
    BY DoIs
  <2>3. q \in Seq(Request) /\ q # <<>>
    BY <2>2
  <2>4. NewFileTodo(q, job.made)
    BY <2>1 DEF NewFileTodo
  <2>5. new = [job EXCEPT !.todo = q]
    BY <1>6 DEF Failure
  <2> HIDE DEF left, new, t, rest, q
  <2>6. /\ new \in Job /\ new.todo = q /\ new.op = job.op /\ new.item = job.item
        /\ new.number = job.number /\ new.untouched = job.untouched /\ new.made = job.made
    BY <2>3, <2>5, TodoIs
  <2>7. TodoFits(new, more)
    BY <2>4, <2>6 DEF TodoFits, NewFileOps, MoveOps, PlainOps
  <2>8. GoesOn(job, new, more)
    BY <2>6, <2>7 DEF GoesOn
  <2>9. QED
    BY <1>6, <2>3, <2>6, <2>8 DEF new, t
<1>7. QED
  BY <1>1, <1>4, <1>5, <1>6, NewFileHead

(* A move.                                                                 *)
LEMMA MoveAnswered ==
    ASSUME NEW s \in Service, NEW job \in Job, NEW copies, NEW more, TodoFits(job, copies),
           job.op \in MoveOps, job.todo # <<>>, NEW n, Accepts(s, job, Head(job.todo), n)
    PROVE  GoesOn(job, Answer(s, job, Head(job.todo), n), more)
<1> DEFINE t == Head(job.todo)
           rest == Tail(job.todo)
           new == Answer(s, job, t, n)
<1>1. MoveTodo(job.todo, job.read) /\ rest \in Seq(Request) /\ job.op \notin NewFileOps
  BY RequestsLeft DEF TodoFits, NewFileOps, MoveOps
<1> DEFINE left == [job EXCEPT !.todo = rest]
<1>2. /\ left \in Job /\ left.todo = rest /\ left.op = job.op /\ left.item = job.item
      /\ left.number = job.number /\ left.untouched = job.untouched /\ left.made = job.made
      /\ left.read = job.read
  BY <1>1, TodoIs
<1>3. Rest(job) = left
  BY DEF Rest
<1>4. job.made = NoItem
  BY <1>1 DEF TodoFits
<1> HIDE DEF left
<1>5. CASE t.do \in {"look", "check"}
  <2>1. MoveTodo(rest, job.read)
    BY <1>1, <1>5, MoveHead
  <2>2. new = left \/ new = StopsJob(job)
    BY <1>3, <1>5 DEF Answer
  <2> HIDE DEF new, t, rest
  <2>3. TodoFits(left, more)
    BY <1>2, <1>4, <2>1 DEF TodoFits, NewFileOps, MoveOps, PlainOps
  <2>4. GoesOn(job, left, more)
    BY <1>2, <2>3 DEF GoesOn
  <2>5. GoesOn(job, new, more)
    BY <2>2, <2>4, StopsKeepsTodo
  <2>6. QED
    BY <2>5 DEF new, t
<1>6. CASE t.do = "read"
  <2> DEFINE r == <<s.place[t.on], s.name[t.on]>>
  <2>1. t.on \in Items /\ \A x \in Places \X ItemNames : MoveTodo(rest, x)
    BY <1>1, <1>6, MoveHead
  <2>2. r \in Places \X ItemNames
    BY <2>1 DEF Service
  <2>3. new = [left EXCEPT !.read = r]
    BY <1>3, <1>6 DEF Answer
  <2> HIDE DEF new, t, rest, r
  <2>4. /\ new \in Job /\ new.todo = rest /\ new.op = job.op /\ new.item = job.item
        /\ new.number = job.number /\ new.untouched = job.untouched /\ new.made = job.made
        /\ new.read = r
    BY <1>2, <2>2, <2>3 DEF Job
  <2>5. MoveTodo(rest, r)
    BY <2>1, <2>2
  <2>6. TodoFits(new, more)
    BY <1>4, <2>4, <2>5 DEF TodoFits, NewFileOps, MoveOps, PlainOps
  <2>7. GoesOn(job, new, more)
    BY <2>4, <2>6 DEF GoesOn
  <2>8. QED
    BY <2>7 DEF new, t
<1>7. CASE t.do = "put"
  <2>1. rest = <<>>
    BY <1>1, <1>7, MoveHead
  <2>2. new = left
    BY <1>3, <1>7 DEF Answer
  <2>3. left = StopsJob(job)
    BY <2>1 DEF left, StopsJob
  <2> HIDE DEF new, t, rest
  <2>4. GoesOn(job, new, more)
    BY <2>2, <2>3, StopsKeepsTodo
  <2>5. QED
    BY <2>4 DEF new, t
<1>8. QED
  BY <1>1, <1>5, <1>6, <1>7, MoveHead

LEMMA MoveFails ==
    ASSUME NEW job \in Job, NEW copies, NEW more, TodoFits(job, copies),
           job.op \in MoveOps, job.todo # <<>>, NEW refusal
    PROVE  GoesOn(job, Failure(job, Head(job.todo), refusal), more)
<1> DEFINE t == Head(job.todo)
           rest == Tail(job.todo)
           new == Failure(job, t, refusal)
<1>1. MoveTodo(job.todo, job.read) /\ rest \in Seq(Request) /\ job.op \notin NewFileOps
  BY RequestsLeft DEF TodoFits, NewFileOps, MoveOps
<1> DEFINE left == [job EXCEPT !.todo = rest]
<1>2. /\ left \in Job /\ left.todo = rest /\ left.op = job.op /\ left.item = job.item
      /\ left.number = job.number /\ left.untouched = job.untouched /\ left.made = job.made
      /\ left.read = job.read
  BY <1>1, TodoIs
<1>3. Rest(job) = left
  BY DEF Rest
<1>4. job.made = NoItem
  BY <1>1 DEF TodoFits
<1> HIDE DEF left
<1>5. CASE t.do = "check"
  <2>1. MoveTodo(rest, job.read)
    BY <1>1, <1>5, MoveHead
  <2>2. new = left
    BY <1>3, <1>5 DEF Failure
  <2> HIDE DEF new, t, rest
  <2>3. TodoFits(left, more)
    BY <1>2, <1>4, <2>1 DEF TodoFits, NewFileOps, MoveOps, PlainOps
  <2>4. GoesOn(job, left, more)
    BY <1>2, <2>3 DEF GoesOn
  <2>5. QED
    BY <2>2, <2>4 DEF new, t
<1>6. CASE t.do \in {"look", "read", "put"}
  <2>1. new = StopsJob(job)
    BY <1>6 DEF Failure
  <2> HIDE DEF new, t, rest
  <2>2. GoesOn(job, new, more)
    BY <2>1, StopsKeepsTodo
  <2>3. QED
    BY <2>2 DEF new, t
<1>7. QED
  BY <1>1, <1>5, <1>6, MoveHead

(* Folders, removals and favourites.                                       *)
LEMMA PlainAnswered ==
    ASSUME NEW s, NEW job \in Job, NEW copies, NEW more, TodoFits(job, copies),
           job.op \in PlainOps, job.todo # <<>>, NEW n
    PROVE  GoesOn(job, Answer(s, job, Head(job.todo), n), more) /\ Head(job.todo) \in PlainRequest
<1> DEFINE t == Head(job.todo)
           rest == Tail(job.todo)
           new == Answer(s, job, t, n)
<1>1. job.todo \in Seq(PlainRequest) /\ job.op \notin NewFileOps
  BY DEF TodoFits, NewFileOps, PlainOps
<1>2. t \in PlainRequest /\ rest \in Seq(PlainRequest)
  BY <1>1
<1>3. job.made = NoItem
  BY <1>1 DEF TodoFits
<1>4. PlainRequest \subseteq Request
  BY DEF PlainRequest
<1>5. ASSUME NEW q \in Seq(PlainRequest)
      PROVE  GoesOn(job, [job EXCEPT !.todo = q], more)
  <2> DEFINE now == [job EXCEPT !.todo = q]
  <2>1. q \in Seq(Request)
    BY <1>4, SeqWithin
  <2>2. /\ now \in Job /\ now.todo = q /\ now.op = job.op /\ now.item = job.item
        /\ now.number = job.number /\ now.untouched = job.untouched /\ now.made = job.made
    BY <2>1, TodoIs
  <2> HIDE DEF now
  <2>3. TodoFits(now, more)
    BY <1>3, <2>2 DEF TodoFits, NewFileOps, MoveOps, PlainOps
  <2>4. QED
    BY <2>2, <2>3 DEF GoesOn, now
<1>6. GoesOn(job, Rest(job), more)
  BY <1>2, <1>5 DEF Rest
<1>7. GoesOn(job, StopsJob(job), more)
  BY StopsKeepsTodo
<1>8. CASE t.do = "list"
  <2> DEFINE K == Members(s, t.on)
             q == FlattenSeq(SetToSeq({Deletes(s, i) : i \in K}))
  <2>1. K \in SUBSET Items
    BY DEF Members
  <2> HIDE DEF K
  <2>2. q \in Seq(PlainRequest)
    BY <2>1, DeletesListed
  <2>3. new = [job EXCEPT !.todo = q \o rest]
    BY <1>8, Zenon DEF Answer, DeletesMembers, Now, K
  <2> HIDE DEF q, rest, t, new
  <2>4. q \o rest \in Seq(PlainRequest)
    BY <1>2, <2>2
  <2>5. GoesOn(job, new, more)
    BY <1>5, <2>3, <2>4
  <2>6. QED
    BY <1>2, <2>5 DEF new, t
<1>9. CASE t.do # "list"
  <2>1. t.do \in {"check", "folder", "look", "drop", "tidy", "add", "remove"}
    BY <1>2, <1>9 DEF PlainRequest
  <2>2. new = Rest(job) \/ new = StopsJob(job)
    BY <2>1 DEF Answer
  <2> HIDE DEF new, t, rest
  <2>3. GoesOn(job, new, more)
    BY <1>6, <1>7, <2>2
  <2>4. QED
    BY <1>2, <2>3 DEF new, t
<1>10. QED
  BY <1>8, <1>9

LEMMA PlainFails ==
    ASSUME NEW job \in Job, NEW copies, NEW more, TodoFits(job, copies),
           job.op \in PlainOps, job.todo # <<>>, NEW refusal
    PROVE  GoesOn(job, Failure(job, Head(job.todo), refusal), more)
<1> DEFINE t == Head(job.todo)
           rest == Tail(job.todo)
           new == Failure(job, t, refusal)
<1>1. job.todo \in Seq(PlainRequest) /\ job.op \notin NewFileOps
  BY DEF TodoFits, NewFileOps, PlainOps
<1>2. t \in PlainRequest /\ rest \in Seq(PlainRequest) /\ rest \in Seq(Request)
  <2>1. t \in PlainRequest /\ rest \in Seq(PlainRequest)
    BY <1>1
  <2>2. PlainRequest \subseteq Request
    BY DEF PlainRequest
  <2>3. QED
    BY <2>1, <2>2, SeqWithin
<1>3. job.made = NoItem
  BY <1>1 DEF TodoFits
<1> DEFINE left == [job EXCEPT !.todo = rest]
<1>4. /\ left \in Job /\ left.todo = rest /\ left.op = job.op /\ left.item = job.item
      /\ left.number = job.number /\ left.untouched = job.untouched /\ left.made = job.made
  BY <1>2, TodoIs
<1>5. Rest(job) = left
  BY DEF Rest
<1>6. t.do \in {"check", "folder", "look", "list", "drop", "tidy", "add", "remove"}
  BY <1>2 DEF PlainRequest
<1>7. new = left \/ new = StopsJob(job)
  BY <1>5, <1>6 DEF Failure
<1> HIDE DEF left, new, t, rest
<1>8. TodoFits(left, more)
  BY <1>2, <1>3, <1>4 DEF TodoFits, NewFileOps, MoveOps, PlainOps
<1>9. GoesOn(job, left, more)
  BY <1>4, <1>8 DEF GoesOn
<1>10. GoesOn(job, new, more)
  BY <1>7, <1>9, StopsKeepsTodo
<1>11. QED
  BY <1>10 DEF new, t

LEMMA PairIs ==
    ASSUME NEW a, NEW b
    PROVE  <<a>> \o <<b>> = <<a, b>> /\ <<b>> \in Seq({a, b}) /\ <<a, b>> \in Seq({a, b})
<1> DEFINE S == {a, b}
           x == <<a>>
           y == <<b>>
           z == <<a, b>>
<1>1. a \in S /\ b \in S
  OBVIOUS
<1> HIDE DEF S
<1>2. x \in Seq(S) /\ Len(x) = 1 /\ x[1] = a /\ y \in Seq(S) /\ Len(y) = 1 /\ y[1] = b
  BY <1>1
<1>3. z \in Seq(S) /\ Len(z) = 2 /\ z[1] = a /\ z[2] = b
  BY <1>1
<1> HIDE DEF x, y, z
<1>4. /\ x \o y \in Seq(S) /\ Len(x \o y) = 2
      /\ (x \o y)[1] = a /\ (x \o y)[2] = b
  <2>1. /\ x \o y \in Seq(S) /\ Len(x \o y) = Len(x) + Len(y)
        /\ \A k \in 1 .. Len(x) : (x \o y)[k] = x[k]
        /\ \A k \in 1 .. Len(y) : (x \o y)[Len(x) + k] = y[k]
    BY <1>2, JoinIs
  <2>2. 1 \in 1 .. 1
    OBVIOUS
  <2>3. (x \o y)[1] = a /\ (x \o y)[1 + 1] = b /\ Len(x \o y) = 1 + 1
    BY <1>2, <2>1, <2>2
  <2>4. QED
    BY <2>1, <2>3
<1> DEFINE w == x \o y
<1> HIDE DEF w
<1>5. w \in Seq(S) /\ Len(w) = 2 /\ w[1] = a /\ w[2] = b
  BY <1>4 DEF w
<1>6. \A k \in 1 .. 2 : k = 1 \/ k = 2
  OBVIOUS
<1>7. \A k \in 1 .. Len(w) : w[k] = z[k]
  BY <1>3, <1>5, <1>6
<1>8. w = z
  BY <1>3, <1>5, <1>7, SeqEqual
<1>9. QED
  BY <1>2, <1>3, <1>8 DEF S, w, x, y, z

(* A copy: what may come first of it, and what is left.                    *)
LEMMA CopyHead ==
    ASSUME NEW todo, NEW item, NEW planned, NEW copied, CopyTodo(todo, item, planned, copied), todo # <<>>
    PROVE  \/ /\ Head(todo).do \in {"siblings", "relist", "root"} /\ Head(todo).on = item
              /\ Head(todo).into \in Dest /\ Tail(todo) = <<>> /\ ~copied
              /\ DOMAIN planned = {} \/ item \in DOMAIN planned
           \/ /\ Head(todo) \in WalkRequest /\ ~copied
              /\ \A new \in Seq(WalkRequest) : WalksFirst(new \o Tail(todo), item)
              /\ item \in DOMAIN planned \/ Head(todo).on = item
           \/ /\ Head(todo) \in FillRequest(DOMAIN planned)
              /\ Tail(todo) \in Seq(FillRequest(DOMAIN planned))
<1>1. \A e : Head(<<e>>) = e /\ Tail(<<e>>) = <<>>
  OBVIOUS
<1>2. CASE ~copied /\ DOMAIN planned = {} /\ \E f \in Dest : todo = <<Do("siblings", item, f)>>
  <2>1. PICK f \in Dest : todo = <<Do("siblings", item, f)>>
    BY <1>2
  <2>2. Head(todo) = Do("siblings", item, f) /\ Tail(todo) = <<>>
    BY <1>1, <2>1
  <2>3. QED
    BY <1>2, <2>2 DEF Do
<1>3. CASE ~copied /\ (DOMAIN planned = {} \/ item \in DOMAIN planned)
               /\ \E f \in Dest : todo = <<Do("relist", item, f)>>
  <2>1. PICK f \in Dest : todo = <<Do("relist", item, f)>>
    BY <1>3
  <2>2. Head(todo) = Do("relist", item, f) /\ Tail(todo) = <<>>
    BY <1>1, <2>1
  <2>3. QED
    BY <1>3, <2>2 DEF Do
<1>4. CASE ~copied /\ WalksFirst(todo, item)
               /\ \/ item \in DOMAIN planned
                  \/ DOMAIN planned = {} /\ (todo[1].do = "walk" => todo[1].on = item)
  <2>1. Head(todo) = todo[1]
    BY TailIs DEF WalksFirst
  <2>2. Head(todo) \in WalkRequest => Head(todo).do = "walk"
    BY DEF WalkRequest
  <2>3. QED
    BY <1>4, <2>1, <2>2, WalksHead
<1>5. CASE todo \in Seq(FillRequest(DOMAIN planned))
  <2> DEFINE S == FillRequest(DOMAIN planned)
  <2> HIDE DEF S
  <2>1. todo \in Seq(S)
    BY <1>5 DEF S
  <2>2. Head(todo) \in S /\ Tail(todo) \in Seq(S)
    BY <2>1
  <2>3. QED
    BY <2>2 DEF S
<1>6. QED
  BY <1>2, <1>3, <1>4, <1>5 DEF CopyTodo

LEMMA CopyFits ==
    ASSUME NEW job \in Job, NEW copies, TodoFits(job, copies), job.op = "copy", job.todo # <<>>
    PROVE  /\ job.item \in Items /\ CopyTodo(job.todo, job.item, job.plan, Copied(job, copies))
           /\ job.made = NoItem /\ job.plan \in CopyPlans
BY DEF TodoFits, NewFileOps, Job

(* A copy whose requests fit goes on.                                      *)
LEMMA CopyIs ==
    ASSUME NEW job \in Job, NEW copies, job.op = "copy", job.item \in Items, job.made = NoItem,
           NEW new \in Job, NEW more, new.op = job.op, new.item = job.item, new.number = job.number,
           new.untouched = job.untouched, new.made = job.made,
           CopyTodo(new.todo, new.item, new.plan, Copied(new, more))
    PROVE  GoesOn(job, new, more)
<1>1. job.op \notin NewFileOps /\ job.op \notin MoveOps /\ job.op \notin PlainOps /\ job.op # "idle"
  BY DEF NewFileOps, MoveOps, PlainOps
<1>2. QED
  BY <1>1 DEF GoesOn, TodoFits

LEMMA SiblingsAnswered ==
    ASSUME NEW s \in Service, NEW job \in Job, NEW copies, TodoFits(job, copies),
           job.op = "copy", job.todo # <<>>, NEW n, Head(job.todo).do = "siblings"
    PROVE  GoesOn(job, Answer(s, job, Head(job.todo), n), copies)
<1> DEFINE t == Head(job.todo)
           i == job.item
           f == t.into
           m == IF s.name[i] \in TakenIn(s, f) THEN FreeName(TakenIn(s, f)) ELSE s.name[i]
           q == IF IsFolder(s, i) THEN <<Do("walk", i, NoItem), Do("root", i, f)>> ELSE <<Do("root", i, f)>>
           new == Answer(s, job, t, n)
<1>1. /\ i \in Items /\ CopyTodo(job.todo, i, job.plan, Copied(job, copies))
      /\ job.made = NoItem
  BY CopyFits
<1>2. t \notin WalkRequest /\ t \notin FillRequest(DOMAIN job.plan)
  BY DEF WalkRequest, FillRequest
<1>3. t.on = i /\ f \in Dest /\ Tail(job.todo) = <<>> /\ ~Copied(job, copies)
  BY <1>1, <1>2, CopyHead
<1>4. DOMAIN job.plan = {} \/ i \in DOMAIN job.plan
  BY <1>1, <1>2, CopyHead
<1>5. m \in ItemNames
  BY <1>1, FreeCopyNameIs DEF Service
<1>6. WalksFirst(q, i) /\ (q[1].do = "walk" => q[1].on = i)
  BY <1>1, <1>3, WalksBegin
<1>7. q \in Seq(Request)
  BY <1>6 DEF WalksFirst
<1>8. new = [job EXCEPT !.todo = q, !.name = m]
  <2>1. ASSUME NEW a, NEW b
        PROVE  (<<a>> \o <<b>>) \o <<>> = <<a, b>> /\ (<<>> \o <<b>>) \o <<>> = <<b>>
    <3>1. <<a>> \o <<b>> = <<a, b>> /\ <<b>> \in Seq({a, b}) /\ <<a, b>> \in Seq({a, b})
      BY PairIs
    <3>2. <<>> \o <<b>> = <<b>> /\ <<b>> \o <<>> = <<b>> /\ <<a, b>> \o <<>> = <<a, b>>
      BY <3>1, ConcatEmptySeq
    <3>3. QED
      BY <3>1, <3>2
  <2> DEFINE p == ((IF IsFolder(s, i) THEN <<Do("walk", i, NoItem)>> ELSE <<>>)
                    \o <<Do("root", i, f)>>) \o <<>>
  <2>2. p = q
    BY <2>1
  <2>3. new = PlansCopy(s, job, t)
    BY DEF Answer
  <2>4. new = [[job EXCEPT !.todo = p] EXCEPT !.name = m]
    BY <1>3, <2>3, Zenon DEF PlansCopy, Now
  <2> HIDE DEF p, q, m, new, t, i, f
  <2>5. [[job EXCEPT !.todo = q] EXCEPT !.name = m] = [job EXCEPT !.todo = q, !.name = m]
    BY DEF Job
  <2>6. QED
    BY <2>2, <2>4, <2>5
<1> HIDE DEF new, t, q, m, f
<1>9. /\ new \in Job /\ new.todo = q /\ new.op = job.op /\ new.item = job.item
      /\ new.number = job.number /\ new.untouched = job.untouched /\ new.made = job.made
      /\ new.plan = job.plan
  BY <1>5, <1>7, <1>8 DEF Job
<1>10. ~Copied(new, copies)
  BY <1>3, <1>9 DEF Copied
<1>11. CopyTodo(new.todo, new.item, new.plan, Copied(new, copies))
  BY <1>4, <1>6, <1>9, <1>10 DEF CopyTodo
<1>12. QED
  BY <1>1, <1>9, <1>11, CopyIs DEF new, t

LEMMA RelistAnswered ==
    ASSUME NEW s \in Service, NEW job \in Job, NEW copies, TodoFits(job, copies),
           job.op = "copy", job.todo # <<>>, NEW n, Head(job.todo).do = "relist"
    PROVE  GoesOn(job, Answer(s, job, Head(job.todo), n), copies)
<1> DEFINE t == Head(job.todo)
           i == job.item
           f == t.into
           m == FreeName(TakenIn(s, f))
           q == <<Do("root", i, f)>>
           new == Answer(s, job, t, n)
<1>1. /\ i \in Items /\ CopyTodo(job.todo, i, job.plan, Copied(job, copies))
      /\ job.made = NoItem
  BY CopyFits
<1>2. t \notin WalkRequest /\ t \notin FillRequest(DOMAIN job.plan)
  BY DEF WalkRequest, FillRequest
<1>3. t.on = i /\ f \in Dest /\ Tail(job.todo) = <<>> /\ ~Copied(job, copies)
  BY <1>1, <1>2, CopyHead
<1>4. DOMAIN job.plan = {} \/ i \in DOMAIN job.plan
  BY <1>1, <1>2, CopyHead
<1>5. m \in ItemNames
  BY FreeCopyNameIs
<1>6. WalksFirst(q, i) /\ q[1].do # "walk"
  BY <1>1, <1>3, WalksBegin
<1>7. q \in Seq(Request)
  BY <1>6 DEF WalksFirst
<1>8. CASE NameTaken(s, job, t)
  <2>1. \A b : <<b>> \o <<>> = <<b>>
    OBVIOUS
  <2>2. new = TriesAgain(s, job, t)
    BY <1>8 DEF Answer
  <2>3. new = [[job EXCEPT !.todo = q \o <<>>] EXCEPT !.again = TRUE, !.name = m]
    BY <1>3, <2>2, Zenon DEF TriesAgain, Now
  <2>4. new = [[job EXCEPT !.todo = q] EXCEPT !.again = TRUE, !.name = m]
    BY <2>1, <2>3
  <2> HIDE DEF new, t, q, m, f
  <2>5. /\ new \in Job /\ new.todo = q /\ new.op = job.op /\ new.item = job.item
        /\ new.number = job.number /\ new.untouched = job.untouched /\ new.made = job.made
        /\ new.plan = job.plan
    BY <1>5, <1>7, <2>4 DEF Job
  <2>6. ~Copied(new, copies)
    BY <1>3, <2>5 DEF Copied
  <2>7. CopyTodo(new.todo, new.item, new.plan, Copied(new, copies))
    BY <1>4, <1>6, <2>5, <2>6 DEF CopyTodo
  <2>8. QED
    BY <1>1, <2>5, <2>7, CopyIs DEF new, t
<1>9. CASE ~NameTaken(s, job, t)
  <2>1. new = StopsJob(job)
    BY <1>9 DEF Answer
  <2> HIDE DEF new, t
  <2>2. QED
    BY <2>1, StopsKeepsTodo DEF new, t
<1>10. QED
  BY <1>8, <1>9

LEMMA WalkAnswered ==
    ASSUME NEW s \in Service, NEW job \in Job, NEW copies, TodoFits(job, copies),
           job.op = "copy", job.todo # <<>>, NEW n, Head(job.todo).do = "walk"
    PROVE  GoesOn(job, Answer(s, job, Head(job.todo), n), copies)
<1> DEFINE t == Head(job.todo)
           i == job.item
           rest == Tail(job.todo)
           K == {k \in Members(s, t.on) : IsFolder(s, k) /\ k \notin DOMAIN job.plan}
           w == SetToSeq({Do("walk", k, NoItem) : k \in K})
           plan1 == [k \in DOMAIN job.plan \cup {t.on} |->
                       IF k = t.on THEN Members(s, k) ELSE job.plan[k]]
           new == Answer(s, job, t, n)
<1>1. /\ i \in Items /\ CopyTodo(job.todo, i, job.plan, Copied(job, copies))
      /\ job.made = NoItem /\ job.plan \in CopyPlans
  BY CopyFits
<1>2. t.do \notin {"siblings", "relist", "root"} /\ t \notin FillRequest(DOMAIN job.plan)
  BY DEF FillRequest
<1>3. /\ t \in WalkRequest /\ ~Copied(job, copies)
      /\ \A x \in Seq(WalkRequest) : WalksFirst(x \o rest, i)
      /\ i \in DOMAIN job.plan \/ t.on = i
  BY <1>1, <1>2, CopyHead
<1>4. t.on \in Items
  BY <1>3 DEF WalkRequest
<1>5. plan1 \in CopyPlans /\ DOMAIN plan1 = DOMAIN job.plan \cup {t.on}
  <2>1. DOMAIN job.plan \subseteq Items /\ \A k \in DOMAIN job.plan : job.plan[k] \subseteq Items
    BY <1>1, PlanIs
  <2>2. \A k \in DOMAIN job.plan \cup {t.on} :
           (IF k = t.on THEN Members(s, k) ELSE job.plan[k]) \in SUBSET Items
    BY <2>1 DEF Members
  <2>3. plan1 \in [DOMAIN job.plan \cup {t.on} -> SUBSET Items]
    BY <2>2
  <2>4. DOMAIN job.plan \cup {t.on} \in SUBSET Items
    BY <1>4, <2>1
  <2> HIDE DEF plan1, t
  <2>5. QED
    BY <2>3, <2>4 DEF CopyPlans
<1>6. w \in Seq(WalkRequest)
  <2>1. K \in SUBSET Items
    BY DEF Members
  <2> HIDE DEF K
  <2>2. QED
    BY <2>1, WalksFit
<1>7. new = [[job EXCEPT !.todo = w \o rest] EXCEPT !.plan = plan1]
  <2>1. new = Walks(s, job, t)
    BY DEF Answer
  <2>2. [job EXCEPT !.todo = w \o rest].plan = job.plan
    BY DEF Job
  <2>3. QED
    BY <2>1, <2>2, Zenon DEF Walks, Now
<1> DEFINE q == w \o rest
<1>8. WalksFirst(q, i)
  BY <1>3, <1>6
<1>9. q \in Seq(Request)
  BY <1>8 DEF WalksFirst
<1>10. new = [[job EXCEPT !.todo = q] EXCEPT !.plan = plan1]
  BY <1>7
<1>11. i \in DOMAIN plan1
  BY <1>3, <1>5
<1> HIDE DEF new, t, q, plan1, i
<1>12. /\ new \in Job /\ new.todo = q /\ new.op = job.op /\ new.item = job.item
       /\ new.number = job.number /\ new.untouched = job.untouched /\ new.made = job.made
       /\ new.plan = plan1
  BY <1>5, <1>9, <1>10 DEF Job
<1>13. ~Copied(new, copies)
  BY <1>3, <1>12 DEF Copied
<1>14. CopyTodo(new.todo, new.item, new.plan, Copied(new, copies))
  BY <1>8, <1>11, <1>12, <1>13 DEF CopyTodo, i
<1>15. QED
  BY <1>1, <1>12, <1>14, CopyIs DEF new, t, i

(* What is left of a copy once the item itself has been copied.            *)
LEMMA FillsLeft ==
    ASSUME NEW job \in Job, NEW copies, NEW more, TodoFits(job, copies), job.op = "copy",
           job.todo # <<>>, NEW q \in Seq(FillRequest(DOMAIN job.plan))
    PROVE  GoesOn(job, [job EXCEPT !.todo = q], more)
<1> DEFINE new == [job EXCEPT !.todo = q]
<1>1. job.item \in Items /\ job.made = NoItem
  BY CopyFits
<1>2. FillRequest(DOMAIN job.plan) \subseteq Request
  BY DEF FillRequest
<1>3. q \in Seq(Request)
  BY <1>2, SeqWithin
<1>4. /\ new \in Job /\ new.todo = q /\ new.op = job.op /\ new.item = job.item
      /\ new.number = job.number /\ new.untouched = job.untouched /\ new.made = job.made
      /\ new.plan = job.plan
  BY <1>3, TodoIs
<1> HIDE DEF new
<1>5. CopyTodo(new.todo, new.item, new.plan, Copied(new, more))
  BY <1>4 DEF CopyTodo
<1>6. QED
  BY <1>1, <1>4, <1>5, CopyIs DEF new

LEMMA RootAnswered ==
    ASSUME NEW s \in Service, NEW job \in Job, NEW copies, NEW more, TodoFits(job, copies),
           job.op = "copy", job.todo # <<>>, NEW n \in FreshIds, Head(job.todo).do = "root"
    PROVE  GoesOn(job, Answer(s, job, Head(job.todo), n), more) /\ ~Copied(job, copies)
<1> DEFINE t == Head(job.todo)
           new == Answer(s, job, t, n)
           D == DOMAIN job.plan
<1>1. /\ CopyTodo(job.todo, job.item, job.plan, Copied(job, copies)) /\ job.plan \in CopyPlans
  BY CopyFits
<1>2. t \notin WalkRequest /\ t \notin FillRequest(D)
  BY DEF WalkRequest, FillRequest
<1>3. /\ t.on = job.item /\ Tail(job.todo) = <<>> /\ ~Copied(job, copies)
      /\ D = {} \/ job.item \in D
  BY <1>1, <1>2, CopyHead
<1>4. <<>> \in Seq(FillRequest(D))
  OBVIOUS
<1>5. CASE D # {}
  <2> DEFINE q == Fills(job.plan, t.on, n)
  <2>1. q \in Seq(FillRequest(D))
    BY <1>1, <1>3, <1>5, FillsFit
  <2>2. new = [job EXCEPT !.todo = q \o Tail(job.todo)]
    BY <1>5 DEF Answer, Now
  <2>3. new = [job EXCEPT !.todo = q \o <<>>]
    BY <1>3, <2>2, Zenon
  <2> HIDE DEF q, new, t, D
  <2>4. q \o <<>> = q
    BY <2>1, ConcatEmptySeq
  <2>5. new = [job EXCEPT !.todo = q]
    BY <2>3, <2>4
  <2>6. GoesOn(job, new, more)
    BY <2>1, <2>5, FillsLeft DEF D
  <2>7. QED
    BY <1>3, <2>6 DEF new, t
<1>6. CASE D = {}
  <2>1. new = [job EXCEPT !.todo = Tail(job.todo)]
    BY <1>6 DEF Answer, Rest
  <2>2. new = [job EXCEPT !.todo = <<>>]
    BY <1>3, <2>1, Zenon
  <2> HIDE DEF new, t, D
  <2>3. GoesOn(job, new, more)
    BY <1>4, <2>2, FillsLeft DEF D
  <2>4. QED
    BY <1>3, <2>3 DEF new, t
<1>7. QED
  BY <1>5, <1>6

LEMMA FillAnswered ==
    ASSUME NEW s \in Service, NEW job \in Job, NEW copies, TodoFits(job, copies),
           job.op = "copy", job.todo # <<>>, NEW n \in FreshIds, Head(job.todo).do \in {"file", "sub"}
    PROVE  GoesOn(job, Answer(s, job, Head(job.todo), n), copies)
<1> DEFINE t == Head(job.todo)
           rest == Tail(job.todo)
           new == Answer(s, job, t, n)
           D == DOMAIN job.plan
<1>1. /\ CopyTodo(job.todo, job.item, job.plan, Copied(job, copies)) /\ job.plan \in CopyPlans
  BY CopyFits
<1>2. t \notin WalkRequest /\ t.do \notin {"siblings", "relist", "root"}
  BY DEF WalkRequest
<1>3. t \in FillRequest(D) /\ rest \in Seq(FillRequest(D))
  BY <1>1, <1>2, CopyHead
<1>4. CASE t.do = "sub"
  <2> DEFINE q == Fills(job.plan, t.on, n)
  <2>1. t.on \in D
    BY <1>3, <1>4 DEF FillRequest
  <2>2. q \in Seq(FillRequest(D))
    BY <1>1, <2>1, FillsFit
  <2>3. new = [job EXCEPT !.todo = q \o rest]
    BY <1>4 DEF Answer, Now
  <2> HIDE DEF q, new, t, D, rest
  <2>4. q \o rest \in Seq(FillRequest(D))
    BY <1>3, <2>2, JoinIs
  <2>5. GoesOn(job, new, copies)
    BY <2>3, <2>4, FillsLeft DEF D
  <2>6. QED
    BY <2>5 DEF new, t
<1>5. CASE t.do = "file"
  <2>1. new = [job EXCEPT !.todo = rest]
    BY <1>5 DEF Answer, Rest
  <2> HIDE DEF new, t, D, rest
  <2>2. GoesOn(job, new, copies)
    BY <1>3, <2>1, FillsLeft DEF D
  <2>3. QED
    BY <2>2 DEF new, t
<1>6. QED
  BY <1>4, <1>5

LEMMA CopyFails ==
    ASSUME NEW job \in Job, NEW copies, NEW more, TodoFits(job, copies),
           job.op = "copy", job.todo # <<>>, NEW refusal, refusal => more = copies
    PROVE  GoesOn(job, Failure(job, Head(job.todo), refusal), more)
<1> DEFINE t == Head(job.todo)
           new == Failure(job, t, refusal)
<1>1. /\ job.item \in Items /\ CopyTodo(job.todo, job.item, job.plan, Copied(job, copies))
      /\ job.made = NoItem
  BY CopyFits
<1>2. CASE t.do = "root" /\ MayRetry(job, refusal)
  <2>1. t \notin WalkRequest /\ t \notin FillRequest(DOMAIN job.plan) /\ more = copies
    BY <1>2 DEF WalkRequest, FillRequest, MayRetry
  <2>2. /\ t.on = job.item /\ t.into \in Dest /\ Tail(job.todo) = <<>> /\ ~Copied(job, copies)
        /\ DOMAIN job.plan = {} \/ job.item \in DOMAIN job.plan
    BY <1>1, <2>1, CopyHead
  <2> DEFINE q == <<Do("relist", job.item, t.into)>>
  <2>3. new = [job EXCEPT !.todo = q \o Tail(job.todo)]
    BY <1>2, <2>2 DEF Failure, Now
  <2>4. Do("relist", job.item, t.into) \in Request
    BY <1>1, <2>2, DoIs, DestIs
  <2>5. q \in Seq(Request)
    BY <2>4
  <2>6. CopyTodo(q, job.item, job.plan, FALSE)
    BY <2>2 DEF CopyTodo
  <2> HIDE DEF q
  <2>7. new = [job EXCEPT !.todo = q]
    <3>1. q \o <<>> = q
      BY <2>5, ConcatEmptySeq
    <3>2. QED
      BY <2>2, <2>3, <3>1
  <2> HIDE DEF new, t
  <2>8. /\ new \in Job /\ new.todo = q /\ new.op = job.op /\ new.item = job.item
        /\ new.number = job.number /\ new.untouched = job.untouched /\ new.made = job.made
        /\ new.plan = job.plan
    BY <2>5, <2>7, TodoIs
  <2>9. Copied(new, more) = FALSE
    BY <2>1, <2>2, <2>8 DEF Copied
  <2>10. CopyTodo(new.todo, new.item, new.plan, Copied(new, more))
    BY <2>6, <2>8, <2>9, Zenon
  <2>11. QED
    BY <1>1, <2>8, <2>10, CopyIs DEF new, t
<1>3. CASE t.do = "file"
  <2>1. t \notin WalkRequest /\ t.do \notin {"siblings", "relist", "root"}
    BY <1>3 DEF WalkRequest
  <2>2. Tail(job.todo) \in Seq(FillRequest(DOMAIN job.plan))
    BY <1>1, <2>1, CopyHead
  <2>3. GoesOn(job, Rest(job), more)
    BY <2>2, FillsLeft DEF Rest
  <2>4. new = Rest(job) \/ new = StopsJob(job)
    BY <1>3 DEF Failure
  <2> HIDE DEF new, t
  <2>5. QED
    BY <2>3, <2>4, StopsKeepsTodo DEF new, t
<1>4. CASE ~(t.do = "root" /\ MayRetry(job, refusal)) /\ t.do # "file"
  <2>1. t.do \in {"siblings", "relist", "root", "walk", "file", "sub"}
    BY <1>1, CopyHead DEF WalkRequest, FillRequest
  <2>2. new = StopsJob(job)
    BY <1>4, <2>1 DEF Failure
  <2> HIDE DEF new, t
  <2>3. QED
    BY <2>2, StopsKeepsTodo DEF new, t
<1>5. QED
  BY <1>2, <1>3, <1>4

-----------------------------------------------------------------------------
(* Whatever the command, what it sends first is known well enough to be    *)
(* sent.                                                                   *)
LEMMA HeadKnown ==
    ASSUME NEW job \in Job, NEW copies, TodoFits(job, copies), job.todo # <<>>
    PROVE  LET t == Head(job.todo) IN
           /\ t \in Request /\ job.op # "idle" /\ Sendable(job, t)
           /\ t.do = "root" => job.op = "copy"
           /\ job.made # NoItem => t.do \in {"link", "undo"}
<1> DEFINE t == Head(job.todo)
<1>1. t \in Request
  BY RequestsLeft
<1>2. job.op # "idle" /\ job.op \in ContentOps
  BY DEF TodoFits, Job
<1>3. CASE job.op \in NewFileOps
  <2>1. NewFileTodo(job.todo, job.made)
    BY <1>3 DEF TodoFits
  <2>2. /\ t.do \in {"type", "check", "post", "link", "undo"}
        /\ t.do \in {"link", "undo"} => job.made \in FreshIds
        /\ t.do = "link" => t.into \in Dest
        /\ t.do \notin {"link", "undo"} => job.made = NoItem
    BY <2>1, NewFileHead
  <2> HIDE DEF t
  <2>3. Sendable(job, t)
    BY <2>2 DEF Sendable
  <2>4. QED
    BY <1>1, <1>2, <2>2, <2>3 DEF t
<1>4. CASE job.op \in MoveOps
  <2>1. MoveTodo(job.todo, job.read) /\ job.made = NoItem
    BY <1>4 DEF TodoFits, MoveOps, NewFileOps
  <2>2. /\ t.do \in {"look", "check", "read", "put"}
        /\ t.do = "put" => t.on \in Items /\ t.into \in Dest /\ job.read \in Places \X ItemNames
    BY <2>1, MoveHead
  <2> HIDE DEF t
  <2>3. Sendable(job, t)
    BY <2>2 DEF Sendable
  <2>4. QED
    BY <1>1, <1>2, <2>1, <2>2, <2>3 DEF t
<1>5. CASE job.op \in PlainOps
  <2>1. job.todo \in Seq(PlainRequest) /\ job.made = NoItem
    BY <1>5 DEF TodoFits, PlainOps, NewFileOps
  <2>2. t \in PlainRequest
    BY <2>1
  <2> HIDE DEF t
  <2>3. Sendable(job, t) /\ t.do \notin {"root", "link", "undo"}
    BY <2>2 DEF Sendable, PlainRequest
  <2>4. QED
    BY <1>1, <1>2, <2>1, <2>3 DEF t
<1>6. CASE job.op = "copy"
  <2>1. /\ job.item \in Items /\ CopyTodo(job.todo, job.item, job.plan, Copied(job, copies))
        /\ job.made = NoItem
    BY <1>6, CopyFits
  <2>2. \/ t.do \in {"siblings", "relist", "root"} /\ t.on = job.item /\ t.into \in Dest
        \/ t \in WalkRequest \/ t \in FillRequest(DOMAIN job.plan)
    BY <2>1, CopyHead
  <2> HIDE DEF t
  <2>3. Sendable(job, t)
    BY <2>1, <2>2 DEF Sendable, WalkRequest, FillRequest
  <2>4. QED
    BY <1>1, <1>2, <1>6, <2>1, <2>3 DEF t
<1>7. QED
  BY <1>2, <1>3, <1>4, <1>5, <1>6 DEF ContentOps

LEMMA JobAnswered ==
    ASSUME NEW s \in Service, NEW job \in Job, NEW copies, NEW more, TodoFits(job, copies),
           job.todo # <<>>, NEW n, Makes(Head(job.todo)) => n \in FreshIds,
           Accepts(s, job, Head(job.todo), n), Head(job.todo).do # "root" => more = copies
    PROVE  LET t == Head(job.todo)  new == Answer(s, job, t, n) IN
           /\ GoesOn(job, new, more)
           /\ t.do = "post" => new.made = n /\ new.todo # <<>>
           /\ t.do = "root" => ~Copied(job, copies)
<1> DEFINE t == Head(job.todo)
           new == Answer(s, job, t, n)
<1>1. job.op \in ContentOps /\ job.op # "idle"
  BY DEF TodoFits, Job
<1>2. CASE job.op \in NewFileOps
  BY <1>2, NewFileAnswered
<1>3. CASE job.op \in MoveOps
  <2>1. MoveTodo(job.todo, job.read)
    BY <1>3 DEF TodoFits
  <2>2. t.do \in {"look", "check", "read", "put"}
    BY <2>1, MoveHead
  <2>3. GoesOn(job, new, more)
    BY <1>3, MoveAnswered
  <2>4. QED
    BY <2>2, <2>3
<1>4. CASE job.op \in PlainOps
  <2>1. GoesOn(job, new, more) /\ t \in PlainRequest
    BY <1>4, PlainAnswered
  <2>2. t.do \notin {"root", "post"}
    BY <2>1 DEF PlainRequest
  <2>3. QED
    BY <2>1, <2>2
<1>5. CASE job.op = "copy"
  <2>1. CopyTodo(job.todo, job.item, job.plan, Copied(job, copies))
    BY <1>5, CopyFits
  <2>2. t.do \in {"siblings", "relist", "root", "walk", "file", "sub"}
    BY <2>1, CopyHead DEF WalkRequest, FillRequest
  <2>3. CASE t.do = "root"
    <3>1. n \in FreshIds
      BY <2>3 DEF Makes
    <3>2. QED
      BY <1>5, <2>3, <3>1, RootAnswered
  <2>4. CASE t.do = "siblings"
    BY <1>5, <2>4, SiblingsAnswered
  <2>5. CASE t.do = "relist"
    BY <1>5, <2>5, RelistAnswered
  <2>6. CASE t.do = "walk"
    BY <1>5, <2>6, WalkAnswered
  <2>7. CASE t.do \in {"file", "sub"}
    <3>1. n \in FreshIds
      BY <2>7 DEF Makes
    <3>2. QED
      BY <1>5, <2>7, <3>1, FillAnswered
  <2>8. QED
    BY <2>2, <2>3, <2>4, <2>5, <2>6, <2>7
<1>6. QED
  BY <1>1, <1>2, <1>3, <1>4, <1>5 DEF ContentOps

LEMMA JobFails ==
    ASSUME NEW job \in Job, NEW copies, NEW more, TodoFits(job, copies),
           job.todo # <<>>, NEW refusal, refusal => more = copies
    PROVE  LET t == Head(job.todo)  new == Failure(job, t, refusal) IN
           /\ GoesOn(job, new, more)
           /\ t.do = "link" => new.made = job.made /\ new.todo # <<>>
<1> DEFINE t == Head(job.todo)
           new == Failure(job, t, refusal)
<1>1. job.op \in ContentOps /\ job.op # "idle"
  BY DEF TodoFits, Job
<1>2. CASE job.op \in NewFileOps
  BY <1>2, NewFileFails
<1>3. CASE job.op \in MoveOps
  <2>1. MoveTodo(job.todo, job.read)
    BY <1>3 DEF TodoFits
  <2>2. t.do \in {"look", "check", "read", "put"}
    BY <2>1, MoveHead
  <2>3. GoesOn(job, new, more)
    BY <1>3, MoveFails
  <2>4. QED
    BY <2>2, <2>3
<1>4. CASE job.op \in PlainOps
  <2>1. GoesOn(job, new, more) /\ t \in PlainRequest
    BY <1>4, PlainAnswered, PlainFails
  <2>2. t.do # "link"
    BY <2>1 DEF PlainRequest
  <2>3. QED
    BY <2>1, <2>2
<1>5. CASE job.op = "copy"
  <2>1. CopyTodo(job.todo, job.item, job.plan, Copied(job, copies))
    BY <1>5, CopyFits
  <2>2. t.do \in {"siblings", "relist", "root", "walk", "file", "sub"}
    BY <2>1, CopyHead DEF WalkRequest, FillRequest
  <2>3. GoesOn(job, new, more)
    BY <1>5, CopyFails
  <2>4. QED
    BY <2>2, <2>3
<1>6. QED
  BY <1>1, <1>2, <1>3, <1>4, <1>5 DEF ContentOps

LEMMA PostAnswered ==
    ASSUME NEW s, NEW job \in Job, NEW copies, TodoFits(job, copies), job.todo # <<>>, NEW n \in FreshIds,
           Head(job.todo).do = "post"
    PROVE  LET new == Answer(s, job, Head(job.todo), n) IN
           new \in Job /\ new.made = n /\ new.todo # <<>>
<1> DEFINE t == Head(job.todo)
           rest == Tail(job.todo)
           new == Answer(s, job, t, n)
<1>1. job.op \in NewFileOps
  <2>1. job.op \in ContentOps /\ job.op # "idle"
    BY DEF TodoFits, Job
  <2>2. ASSUME job.op \in MoveOps PROVE FALSE
    <3>1. MoveTodo(job.todo, job.read)
      BY <2>2 DEF TodoFits
    <3>2. QED
      BY <3>1, MoveHead
  <2>3. ASSUME job.op \in PlainOps PROVE FALSE
    <3>1. job.todo \in Seq(PlainRequest)
      BY <2>3 DEF TodoFits
    <3>2. t \in PlainRequest
      BY <3>1
    <3>3. QED
      BY <3>2 DEF PlainRequest
  <2>4. ASSUME job.op = "copy" PROVE FALSE
    <3>1. CopyTodo(job.todo, job.item, job.plan, Copied(job, copies))
      BY <2>4, CopyFits
    <3>2. t.do \in {"siblings", "relist", "root", "walk", "file", "sub"}
      BY <3>1, CopyHead DEF WalkRequest, FillRequest
    <3>3. QED
      BY <3>2
  <2>5. QED
    BY <2>1, <2>2, <2>3, <2>4 DEF ContentOps
<1>2. NewFileTodo(job.todo, job.made) /\ rest \in Seq(Request)
  BY <1>1, RequestsLeft DEF TodoFits
<1>3. rest # <<>>
  BY <1>2, NewFileHead
<1> DEFINE left == [job EXCEPT !.todo = rest]
<1>4. left \in Job /\ left.todo = rest
  BY <1>2, TodoIs
<1>5. new = [left EXCEPT !.made = n]
  BY DEF Answer, Rest
<1> HIDE DEF new, left, rest
<1>6. new \in Job /\ new.made = n /\ new.todo = rest
  BY <1>4, <1>5 DEF Job
<1>7. QED
  BY <1>3, <1>6 DEF new

-----------------------------------------------------------------------------
(* The commands side by side: each is at a request of its kind, those at   *)
(* work have numbers of their own, and one that may still put its cut back *)
(* has cut what was last put in the clipboard.                             *)
JobsFit(js, copies, count, entry) ==
    /\ js \in [Jobs -> Job]
    /\ \A j \in Jobs :
          /\ TodoFits(js[j], copies)
          /\ js[j].op # "idle" => js[j].number \in 1 .. count
          /\ js[j].untouched => js[j].item \in Items /\ entry = [item |-> js[j].item, mode |-> "cut"]
    /\ \A j, k \in Jobs :
          js[j].op # "idle" /\ js[k].op # "idle" /\ js[j].number = js[k].number => j = k

(* The copies made are of commands started so far.                         *)
CopiesFit(copies, count) == \A p \in copies : \E m \in 1 .. count, n \in FreshIds : p = <<m, n>>
Linked(s, js, left) ==
    \A i \in Items : s.place[i] = "unlinked" => i \in left \/ \E j \in Jobs : js[j].made = i
OnceOnly(copies) == \A p, q \in copies : p[1] = q[1] => p = q
Entry(e) == e = NoItem \/ e \in [item : Items, mode : {"cut", "copy"}]

CtInv ==
    /\ service \in Service /\ inTree \in Service /\ started \in 0 .. MaxCommands
    /\ Entry(latest) /\ clipboard \in {NoItem, latest} /\ lost \subseteq FreshIds
    /\ JobsFit(jobs, pasted, started, latest)
    /\ CopiesFit(pasted, started) /\ OnceOnly(pasted)
    /\ Linked(service, jobs, lost)

(* Two states of a command that differ at most in what was cancelled, and  *)
(* in that the first may put nothing back.                                 *)
Alike(a, b) ==
    /\ a.op = b.op /\ a.item = b.item /\ a.todo = b.todo /\ a.made = b.made /\ a.read = b.read
    /\ a.plan = b.plan /\ a.number = b.number /\ (a.untouched => b.untouched)

LEMMA AlikeFits ==
    ASSUME NEW a, NEW b, Alike(a, b), NEW copies, NEW more, TodoFits(b, copies),
           b.op = "copy" => (Copied(b, copies) <=> Copied(b, more))
    PROVE  TodoFits(a, more)
<1>1. a.op = "copy" => Copied(a, more) = Copied(b, copies)
  <2>1. Copied(a, more) = Copied(b, more)
    BY DEF Copied, Alike
  <2>2. Copied(b, more) \in BOOLEAN /\ Copied(b, copies) \in BOOLEAN
    BY DEF Copied
  <2>3. QED
    BY <2>1, <2>2 DEF Alike
<1>2. QED
  BY <1>1 DEF TodoFits, Alike

LEMMA IdleFits ==
    /\ IdleJob \in Job /\ IdleJob.op = "idle" /\ IdleJob.made = NoItem /\ ~IdleJob.untouched
    /\ \A copies : TodoFits(IdleJob, copies)
<1>1. <<>> \in CopyPlans
  <2>1. <<>> \in [{} -> SUBSET Items] /\ {} \in SUBSET Items
    OBVIOUS
  <2>2. QED
    BY <2>1 DEF CopyPlans
<1>2. <<>> \in Seq(Request) /\ 0 \in ItemNames /\ "idle" \in ContentOps
  BY ContentBound DEF ItemNames, ContentOps
<1>3. IdleJob \in Job
  BY <1>1, <1>2 DEF IdleJob, Job
<1>4. /\ IdleJob.op = "idle" /\ IdleJob.made = NoItem /\ ~IdleJob.untouched /\ IdleJob.todo = <<>>
  BY DEF IdleJob
<1>5. "idle" \notin NewFileOps /\ "idle" \notin MoveOps /\ "idle" \notin PlainOps
  BY DEF NewFileOps, MoveOps, PlainOps
<1>6. QED
  BY <1>3, <1>4, <1>5 DEF TodoFits

LEMMA SetAside ==
    ASSUME NEW job \in Job, NEW b \in BOOLEAN
    PROVE  LET aside == [job EXCEPT !.untouched = @ /\ b] IN
           aside \in Job /\ Alike(aside, job) /\ (~b => ~aside.untouched)
BY DEF Job, Alike

LEMMA CancelIs ==
    ASSUME NEW job \in Job
    PROVE  [job EXCEPT !.aborted = TRUE] \in Job /\ Alike([job EXCEPT !.aborted = TRUE], job)
BY DEF Job, Alike

(* One command goes on or is over, having perhaps copied its item, while   *)
(* the others stay as they are.                                            *)
Copies(job, copies, more) ==
    more = copies \/ \E n \in FreshIds : more = copies \cup {<<job.number, n>>} /\ ~Copied(job, copies)

LEMMA OthersFit ==
    ASSUME NEW js, NEW copies, NEW count \in Nat, NEW entry, JobsFit(js, copies, count, entry),
           NEW j \in Jobs, js[j].op # "idle", NEW more, Copies(js[j], copies, more),
           NEW js1 \in [Jobs -> Job],
           GoesOn(js[j], js1[j], more) \/ js1[j] = IdleJob,
           \A k \in Jobs \ {j} : Alike(js1[k], js[k])
    PROVE  JobsFit(js1, more, count, entry)
<1>1. ASSUME NEW k \in Jobs \ {j}, js[k].op = "copy"
      PROVE  Copied(js[k], copies) <=> Copied(js[k], more)
  <2>1. js[k].number # js[j].number
    BY <1>1 DEF JobsFit
  <2>2. \A n, m \in FreshIds : <<js[k].number, n>> # <<js[j].number, m>>
    BY <2>1
  <2>3. QED
    BY <2>2, Zenon DEF Copies, Copied
<1>2. ASSUME NEW k \in Jobs
      PROVE  /\ TodoFits(js1[k], more)
             /\ js1[k].op # "idle" => js1[k].op = js[k].op /\ js1[k].number = js[k].number
             /\ js1[k].untouched => js[k].untouched /\ js1[k].item = js[k].item
  <2>1. CASE k = j
    BY <2>1, IdleFits DEF GoesOn
  <2>2. CASE k # j
    <3>1. Alike(js1[k], js[k]) /\ TodoFits(js[k], copies)
      BY <2>2 DEF JobsFit
    <3>2. TodoFits(js1[k], more)
      BY <1>1, <2>2, <3>1, AlikeFits
    <3>3. QED
      BY <3>1, <3>2 DEF Alike
  <2>3. QED
    BY <2>1, <2>2
<1>3. \A k \in Jobs : /\ js1[k].op # "idle" => js1[k].number \in 1 .. count
                      /\ js1[k].untouched =>
                            js1[k].item \in Items /\ entry = [item |-> js1[k].item, mode |-> "cut"]
  BY <1>2 DEF JobsFit
<1>4. \A k, l \in Jobs :
          js1[k].op # "idle" /\ js1[l].op # "idle" /\ js1[k].number = js1[l].number => k = l
  BY <1>2 DEF JobsFit
<1>5. QED
  BY <1>2, <1>3, <1>4 DEF JobsFit

(* Nothing that differs in no command that matters.                        *)
LEMMA AsideFits ==
    ASSUME NEW js, NEW copies, NEW count, NEW entry, JobsFit(js, copies, count, entry),
           NEW js1 \in [Jobs -> Job], \A k \in Jobs : Alike(js1[k], js[k]), NEW other,
           other = entry \/ \A k \in Jobs : ~js1[k].untouched
    PROVE  JobsFit(js1, copies, count, other)
<1>1. \A k \in Jobs : TodoFits(js1[k], copies)
  BY AlikeFits DEF JobsFit
<1>2. \A k \in Jobs : /\ js1[k].op = js[k].op /\ js1[k].number = js[k].number
                      /\ js1[k].item = js[k].item /\ (js1[k].untouched => js[k].untouched)
  BY DEF Alike
<1>3. QED
  BY <1>1, <1>2 DEF JobsFit

LEMMA ContinuesFits ==
    ASSUME JobsFit(jobs, pasted, started, latest), started \in Nat, NEW j \in Jobs,
           jobs[j].op # "idle", NEW more, Copies(jobs[j], pasted, more), NEW new,
           GoesOn(jobs[j], new, more), NEW failed, Continues(j, new, failed)
    PROVE  /\ JobsFit(jobs', more, started, latest)
           /\ clipboard' = clipboard \/ clipboard' = latest
           /\ \A k \in Jobs \ {j} : jobs'[k].made = jobs[k].made
           /\ new.todo # <<>> => jobs'[j] = new
<1>1. jobs \in [Jobs -> Job] /\ new \in Job
  BY DEF JobsFit, GoesOn
<1>2. CASE new.todo # <<>>
  <2>1. jobs' = [jobs EXCEPT ![j] = new] /\ clipboard' = clipboard
    BY <1>2 DEF Continues
  <2>2. jobs' \in [Jobs -> Job] /\ jobs'[j] = new /\ \A k \in Jobs \ {j} : jobs'[k] = jobs[k]
    BY <1>1, <2>1
  <2>3. \A k \in Jobs \ {j} : Alike(jobs'[k], jobs[k])
    BY <2>2 DEF Alike
  <2>4. JobsFit(jobs', more, started, latest)
    BY <2>2, <2>3, OthersFit
  <2>5. QED
    BY <2>1, <2>2, <2>4
<1>3. CASE new.todo = <<>>
  <2> DEFINE back == new.op = "cut" /\ failed /\ PutsBack(new)
  <2>1. /\ clipboard' = IF back THEN [item |-> new.item, mode |-> "cut"] ELSE clipboard
        /\ jobs' = [k \in Jobs |-> IF k = j THEN IdleJob
                      ELSE [jobs[k] EXCEPT !.untouched = @ /\ ~back]]
    BY <1>3, Zenon DEF Continues
  <2>2. back => clipboard' = latest
    <3>1. back => jobs[j].untouched /\ new.item = jobs[j].item
      BY DEF PutsBack, GoesOn
    <3> HIDE DEF back
    <3>2. QED
      BY <2>1, <3>1 DEF JobsFit
  <2>3. (~back) \in BOOLEAN
    OBVIOUS
  <2> HIDE DEF back
  <2>4. ASSUME NEW k \in Jobs \ {j} PROVE jobs'[k] \in Job /\ Alike(jobs'[k], jobs[k])
    <3>1. jobs'[k] = [jobs[k] EXCEPT !.untouched = @ /\ ~back] /\ jobs[k] \in Job
      BY <1>1, <2>1
    <3>2. QED
      BY <2>3, <3>1, SetAside
  <2>5. jobs'[j] = IdleJob /\ jobs' \in [Jobs -> Job]
    <3>1. \A k \in Jobs : (IF k = j THEN IdleJob ELSE [jobs[k] EXCEPT !.untouched = @ /\ ~back]) \in Job
      BY <2>1, <2>4, IdleFits
    <3>2. QED
      BY <2>1, <3>1
  <2>6. JobsFit(jobs', more, started, latest)
    BY <2>4, <2>5, OthersFit
  <2>7. \A k \in Jobs \ {j} : jobs'[k].made = jobs[k].made
    BY <2>4 DEF Alike
  <2>8. QED
    BY <1>3, <2>1, <2>2, <2>6, <2>7
<1>4. QED
  BY <1>2, <1>3

-----------------------------------------------------------------------------
(* The steps of a command under way.                                       *)
LEMMA AtItsRequest ==
    ASSUME CtInv, NEW j \in Jobs, jobs[j].todo # <<>>
    PROVE  LET job == jobs[j]  t == Head(job.todo) IN
           /\ job \in Job /\ TodoFits(job, pasted) /\ started \in Nat /\ job.op # "idle"
           /\ NextRequest(j) = t /\ t \in Request /\ Sendable(job, t)
           /\ job.number \in 1 .. started
           /\ job.made # NoItem => t.do \in {"link", "undo"}
<1>1. jobs[j] \in Job /\ TodoFits(jobs[j], pasted)
  BY DEF CtInv, JobsFit
<1>2. started \in Nat
  BY ContentBound DEF CtInv
<1>3. NextRequest(j) = Head(jobs[j].todo)
  BY DEF NextRequest
<1>4. jobs[j].op # "idle" => jobs[j].number \in 1 .. started
  BY DEF CtInv, JobsFit
<1>5. QED
  BY <1>1, <1>2, <1>3, <1>4, HeadKnown

LEMMA PastedFits ==
    ASSUME NEW copies, NEW count \in Nat, CopiesFit(copies, count), OnceOnly(copies),
           NEW job, job.number \in 1 .. count, NEW n \in FreshIds, ~Copied(job, copies)
    PROVE  LET more == copies \cup {<<job.number, n>>} IN
           CopiesFit(more, count) /\ OnceOnly(more) /\ Copies(job, copies, more)
<1> DEFINE m == job.number
           more == copies \cup {<<m, n>>}
<1>1. \A p \in copies : p[1] # m
  <2> SUFFICES ASSUME NEW p \in copies, p[1] = m PROVE FALSE
    OBVIOUS
  <2>1. PICK k \in 1 .. count, i \in FreshIds : p = <<k, i>>
    BY DEF CopiesFit
  <2>2. p = <<m, i>>
    BY <2>1
  <2>3. QED
    BY <2>2 DEF Copied
<1>2. Copies(job, copies, more)
  BY DEF Copies
<1> HIDE DEF m
<1>3. CopiesFit(more, count)
  <2>1. \E k \in 1 .. count, i \in FreshIds : <<m, n>> = <<k, i>>
    BY DEF m
  <2>2. QED
    BY <2>1 DEF CopiesFit
<1>4. OnceOnly(more)
  <2>1. <<m, n>>[1] = m
    OBVIOUS
  <2>2. QED
    BY <1>1, <2>1 DEF OnceOnly
<1>5. QED
  BY <1>2, <1>3, <1>4 DEF m

LEMMA UnmadeIs == Unmade \subseteq FreshIds
BY DEF Unmade

LEMMA ContentDone ==
    ASSUME CtInv, NEW j \in Jobs, NEW answered \in BOOLEAN, Done(j, answered)
    PROVE  CtInv'
<1> DEFINE job == jobs[j]
           t == Head(job.todo)
<1>1. job.todo # <<>>
  BY DEF Done
<1>2. /\ job \in Job /\ TodoFits(job, pasted) /\ started \in Nat /\ job.op # "idle"
      /\ NextRequest(j) = t /\ t \in Request /\ Sendable(job, t) /\ job.number \in 1 .. started
      /\ job.made # NoItem => t.do \in {"link", "undo"}
  BY <1>1, AtItsRequest
<1>3. PICK n \in IF Makes(t) THEN Unmade ELSE {NoItem} :
          /\ Accepts(service, job, t, n)
          /\ service' = Effect(service, job, t, n)
          /\ pasted' = IF t.do = "root" THEN pasted \cup {<<job.number, n>>} ELSE pasted
          /\ IF answered
             THEN /\ Continues(j, Answer(service, job, t, n),
                               t.do = "check" /\ NameTaken(service, job, t))
                  /\ UNCHANGED lost
             ELSE /\ lost' = lost \cup ({n} \ {NoItem})
                  /\ Continues(j, Failure(job, t, FALSE), TRUE)
  BY DEF Done, NextRequest
<1>4. UNCHANGED <<inTree, started, latest>>
  BY DEF Done
<1>5. Makes(t) => n \in FreshIds
  BY <1>3, UnmadeIs
<1>6. service \in Service
  BY DEF CtInv
<1>7. EffectFits(service, job, t, n)
  BY <1>2, <1>3, <1>5, <1>6, EffectIs
<1> DEFINE new == IF answered THEN Answer(service, job, t, n) ELSE Failure(job, t, FALSE)
           failed == IF answered THEN t.do = "check" /\ NameTaken(service, job, t) ELSE TRUE
           more == pasted'
<1>8. t.do # "root" => more = pasted
  BY <1>3
<1>9. /\ GoesOn(job, new, more)
      /\ answered /\ t.do = "post" => new.made = n /\ new.todo # <<>>
  <2>1. CASE answered
    <3> DEFINE next == Answer(service, job, t, n)
    <3>1. GoesOn(job, next, more) /\ (t.do = "post" => next.made = n /\ next.todo # <<>>)
      <4> HIDE DEF more
      <4>1. Accepts(service, job, t, n)
        BY <1>3
      <4> HIDE DEF job
      <4>2. GoesOn(job, Answer(service, job, Head(job.todo), n), more)
        BY <1>1, <1>2, <1>5, <1>6, <1>8, <4>1, JobAnswered
      <4>3. Head(job.todo).do = "post" => n \in FreshIds
        BY <1>5 DEF Makes
      <4>4. QED
        BY <1>1, <1>2, <4>2, <4>3, PostAnswered
    <3>2. new = next
      BY <2>1
    <3> HIDE DEF new, next, more, t, job
    <3>3. QED
      BY <3>1, <3>2
  <2>2. CASE ~answered
    BY <1>1, <1>2, <2>2, JobFails
  <2>3. QED
    BY <2>1, <2>2
<1>10. t.do = "root" => ~Copied(job, pasted)
  BY <1>1, <1>2, <1>3, <1>5, <1>6, <1>8, JobAnswered
<1>11. Continues(j, new, failed) /\ lost' = IF answered THEN lost ELSE lost \cup ({n} \ {NoItem})
  BY <1>3
<1>12. /\ CopiesFit(more, started) /\ OnceOnly(more) /\ Copies(job, pasted, more)
  <2>1. CopiesFit(pasted, started) /\ OnceOnly(pasted)
    BY DEF CtInv
  <2>2. CASE t.do = "root"
    <3>1. n \in FreshIds /\ more = pasted \cup {<<job.number, n>>}
      BY <1>3, <1>5, <2>2 DEF Makes
    <3>2. QED
      BY <1>2, <1>10, <2>1, <2>2, <3>1, PastedFits
  <2>3. CASE t.do # "root"
    BY <1>8, <2>1, <2>3 DEF Copies
  <2>4. QED
    BY <2>2, <2>3
<1> HIDE DEF new, failed
<1>13. /\ JobsFit(jobs', more, started, latest)
       /\ clipboard' = clipboard \/ clipboard' = latest
       /\ \A k \in Jobs \ {j} : jobs'[k].made = jobs[k].made
       /\ new.todo # <<>> => jobs'[j] = new
  <2>1. JobsFit(jobs, pasted, started, latest)
    BY DEF CtInv
  <2> HIDE DEF more
  <2>2. QED
    BY <1>2, <1>9, <1>11, <1>12, <2>1, ContinuesFits
<1>14. lost' \subseteq FreshIds
  BY <1>5, <1>3, <1>11 DEF CtInv
<1>15. Linked(service', jobs', lost')
  <2> SUFFICES ASSUME NEW i \in Items, service'.place[i] = "unlinked"
               PROVE  i \in lost' \/ \E k \in Jobs : jobs'[k].made = i
    BY DEF Linked
  <2>1. /\ service.place[i] = "unlinked" \/ (t.do = "post" /\ i = n)
        /\ ~(t.do \in {"link", "undo"} /\ i = job.made)
    BY <1>3, <1>7 DEF EffectFits
  <2>2. i # NoItem
    BY ContentBound
  <2>3. CASE t.do = "post" /\ i = n
    <3>1. CASE answered
      BY <1>9, <1>13, <2>3, <3>1
    <3>2. CASE ~answered
      BY <1>11, <2>2, <2>3, <3>2
    <3>3. QED
      BY <3>1, <3>2
  <2>4. CASE service.place[i] = "unlinked"
    <3>1. i \in lost \/ \E k \in Jobs : jobs[k].made = i
      BY <2>4 DEF CtInv, Linked
    <3>2. i \in lost => i \in lost'
      BY <1>11
    <3>3. ASSUME NEW k \in Jobs, jobs[k].made = i PROVE jobs'[k].made = i
      <4>1. k # j
        BY <1>2, <2>1, <2>2, <3>3
      <4>2. QED
        BY <1>13, <3>3, <4>1
    <3>4. QED
      BY <3>1, <3>2, <3>3
  <2>5. QED
    BY <2>1, <2>3, <2>4
<1>16. service' \in Service
  BY <1>3, <1>7 DEF EffectFits
<1>17. QED
  BY <1>4, <1>12, <1>13, <1>14, <1>15, <1>16 DEF CtInv

LEMMA ContentNotDone ==
    ASSUME CtInv, NEW j \in Jobs, NotDone(j)
    PROVE  CtInv'
<1> DEFINE job == jobs[j]
           t == Head(job.todo)
<1>1. job.todo # <<>> /\ UNCHANGED <<service, inTree, started, latest, pasted>>
  BY DEF NotDone
<1>2. PICK refusal \in BOOLEAN :
          /\ Continues(j, Failure(job, t, refusal /\ Sent(job, t)), TRUE)
          /\ lost' = IF t.do = "undo" /\ Sent(job, t) THEN lost \cup {job.made} ELSE lost
  BY DEF NotDone, NextRequest
<1>3. /\ job \in Job /\ TodoFits(job, pasted) /\ started \in Nat /\ job.op # "idle"
      /\ NextRequest(j) = t /\ t \in Request /\ Sendable(job, t)
      /\ job.made # NoItem => t.do \in {"link", "undo"}
  BY <1>1, AtItsRequest
<1> DEFINE new == Failure(job, t, refusal /\ Sent(job, t))
<1>4. GoesOn(job, new, pasted) /\ (t.do = "link" => new.made = job.made /\ new.todo # <<>>)
  BY <1>1, <1>3, JobFails
<1> HIDE DEF new
<1>5. /\ JobsFit(jobs', pasted, started, latest)
      /\ clipboard' = clipboard \/ clipboard' = latest
      /\ \A k \in Jobs \ {j} : jobs'[k].made = jobs[k].made
      /\ new.todo # <<>> => jobs'[j] = new
  <2>1. JobsFit(jobs, pasted, started, latest) /\ Copies(job, pasted, pasted)
    BY DEF CtInv, Copies
  <2>2. Continues(j, new, TRUE)
    BY <1>2 DEF new
  <2>3. QED
    BY <1>3, <1>4, <2>1, <2>2, ContinuesFits
<1>6. Sent(job, t) <=> (job.aborted => ~Signalled(t))
  BY DEF Sent
<1>7. t.do = "undo" => lost' = lost \cup {job.made} /\ job.made \in FreshIds
  BY <1>2, <1>3, <1>6 DEF Signalled, Sendable
<1>8. t.do # "undo" => lost' = lost
  BY <1>2
<1>9. lost' \subseteq FreshIds
  BY <1>7, <1>8 DEF CtInv
<1>10. Linked(service', jobs', lost')
  <2> SUFFICES ASSUME NEW i \in Items, service.place[i] = "unlinked"
               PROVE  i \in lost' \/ \E k \in Jobs : jobs'[k].made = i
    BY <1>1 DEF Linked
  <2>1. i \in lost \/ \E k \in Jobs : jobs[k].made = i
    BY DEF CtInv, Linked
  <2>2. i # NoItem
    BY ContentBound
  <2>3. i \in lost => i \in lost'
    BY <1>7, <1>8
  <2>4. ASSUME NEW k \in Jobs, jobs[k].made = i PROVE i \in lost' \/ jobs'[k].made = i
    <3>1. CASE k # j
      BY <1>5, <2>4, <3>1
    <3>2. CASE k = j
      <4>1. t.do \in {"link", "undo"}
        BY <1>3, <2>2, <2>4, <3>2
      <4>2. QED
        BY <1>4, <1>5, <1>7, <2>4, <3>2, <4>1
    <3>3. QED
      BY <3>1, <3>2
  <2>5. QED
    BY <2>1, <2>3, <2>4
<1>11. QED
  BY <1>1, <1>5, <1>9, <1>10 DEF CtInv

LEMMA ContentCancels ==
    ASSUME CtInv, NEW j \in Jobs, Cancels(j)
    PROVE  CtInv'
<1>1. /\ jobs' = [jobs EXCEPT ![j].aborted = TRUE]
      /\ UNCHANGED <<service, inTree, clipboard, started, latest, lost, pasted>>
  BY DEF Cancels
<1>2. jobs \in [Jobs -> Job] /\ JobsFit(jobs, pasted, started, latest)
  BY DEF CtInv, JobsFit
<1>3. \A k \in Jobs : jobs'[k] \in Job /\ Alike(jobs'[k], jobs[k])
  <2>1. jobs'[j] = [jobs[j] EXCEPT !.aborted = TRUE]
    BY <1>1, <1>2
  <2>2. jobs'[j] \in Job /\ Alike(jobs'[j], jobs[j])
    BY <1>2, <2>1, CancelIs
  <2>3. \A k \in Jobs \ {j} : jobs'[k] = jobs[k]
    BY <1>1, <1>2
  <2>4. QED
    BY <1>2, <2>2, <2>3 DEF Alike
<1>4. jobs' \in [Jobs -> Job]
  BY <1>1, <1>2, <1>3
<1>5. JobsFit(jobs', pasted, started, latest)
  BY <1>2, <1>3, <1>4, AsideFits
<1>6. Linked(service, jobs', lost)
  BY <1>3 DEF CtInv, Linked, Alike
<1>7. QED
  BY <1>1, <1>5, <1>6 DEF CtInv

LEMMA ContentSets ==
    ASSUME CtInv, NEW entry, Entry(entry), SetsClipboard(entry)
    PROVE  CtInv'
<1>1. /\ clipboard' = entry /\ latest' = entry
      /\ jobs' = [j \in Jobs |-> [jobs[j] EXCEPT !.untouched = FALSE]]
      /\ UNCHANGED <<service, inTree, started, lost, pasted>>
  BY DEF SetsClipboard
<1>2. jobs \in [Jobs -> Job] /\ JobsFit(jobs, pasted, started, latest)
  BY DEF CtInv, JobsFit
<1>3. ASSUME NEW k \in Jobs
      PROVE jobs'[k] \in Job /\ Alike(jobs'[k], jobs[k]) /\ ~jobs'[k].untouched
  <2>1. jobs'[k] = [jobs[k] EXCEPT !.untouched = FALSE] /\ jobs[k] \in Job
    BY <1>1, <1>2
  <2>2. QED
    BY <2>1 DEF Job, Alike
<1>4. jobs' \in [Jobs -> Job]
  BY <1>1, <1>3
<1>5. JobsFit(jobs', pasted, started, entry)
  BY <1>2, <1>3, <1>4, AsideFits
<1>6. Linked(service, jobs', lost)
  BY <1>3 DEF CtInv, Linked, Alike
<1>7. QED
  BY <1>1, <1>5, <1>6 DEF CtInv

-----------------------------------------------------------------------------
(* What a command begins with is of its kind.                              *)
BeginFits(op, i, f) ==
    LET todo == Requests(op, i, f) IN
    /\ op \in ContentOps \ {"idle"} /\ i \in Items \cup {NoItem} /\ f \in Items \cup {Home, Bin, NoItem}
    /\ todo \in Seq(Request)
    /\ op \in NewFileOps => NewFileTodo(todo, NoItem)
    /\ op \in MoveOps => MoveTodo(todo, NoItem)
    /\ op \in PlainOps => todo \in Seq(PlainRequest)
    /\ op = "copy" => i \in Items /\ \E g \in Dest : todo = <<Do("siblings", i, g)>>

LEMMA TargetsAre == Targets \subseteq Dest /\ Targets \subseteq Items \cup {Home}
BY DEF Targets, Dest, Items

LEMMA MoveItemIs ==
    ASSUME NEW i \in Items, NEW f \in Dest
    PROVE  /\ MoveItem(i, f) \in Seq(Request) /\ MoveTodo(MoveItem(i, f), NoItem)
           /\ Do("read", i, NoItem) \in Request /\ Do("put", i, f) \in Request
<1>1. Do("read", i, NoItem) \in Request /\ Do("put", i, f) \in Request
  BY DoIs, DestIs
<1>2. MoveItem(i, f) = <<Do("read", i, NoItem), Do("put", i, f)>>
  BY DEF MoveItem
<1>3. <<Do("read", i, NoItem), Do("put", i, f)>> \in Seq(Request)
  BY <1>1
<1>4. MoveTodo(MoveItem(i, f), NoItem)
  BY <1>2 DEF MoveTodo
<1>5. QED
  BY <1>1, <1>2, <1>3, <1>4

LEMMA MovesBegin ==
    ASSUME NEW i \in Items, NEW f \in Dest, NEW op \in {"drag", "cut", "restore"}
    PROVE  BeginFits(op, i, f)
<1>1. Requests(op, i, f) = MoveItem(i, f)
  BY DEF Requests, RestoreItem
<1>2. op \in ContentOps \ {"idle"} /\ op \notin NewFileOps /\ op \notin PlainOps /\ op # "copy"
  BY DEF ContentOps, NewFileOps, PlainOps, MoveOps
<1>3. QED
  BY <1>1, <1>2, MoveItemIs, DestIs DEF BeginFits

LEMMA RecycleBegins ==
    ASSUME NEW i \in Items
    PROVE  BeginFits("recycle", i, NoItem)
<1> DEFINE a == Do("look", Bin, NoItem)
           b == Do("read", i, NoItem)
           c == Do("put", i, Bin)
<1>1. Bin \in Dest
  BY DEF Dest
<1>2. /\ a \in Request /\ a.do = "look" /\ b \in Request /\ c \in Request
  BY <1>1, DoIs, DestIs
<1>3. RecycleItem(i) = <<a>> \o <<b, c>>
  BY DEF RecycleItem, MoveItem
<1>4. Requests("recycle", i, NoItem) = <<a>> \o <<b, c>>
  BY <1>3 DEF Requests
<1>5. MoveTodo(<<a, b, c>>, NoItem)
  BY <1>1, <1>2 DEF MoveTodo
<1> HIDE DEF a, b, c
<1>6. <<a>> \o <<b, c>> = <<a, b, c>> /\ <<a, b, c>> \in Seq(Request)
  <2>1. ASSUME NEW x \in Request, NEW y \in Request, NEW z \in Request
        PROVE  <<x>> \o <<y, z>> = <<x, y, z>> /\ <<x, y, z>> \in Seq(Request)
    <3>1. /\ <<x>> \o <<y, z>> \in Seq(Request) /\ <<x, y, z>> \in Seq(Request)
          /\ Len(<<x>> \o <<y, z>>) = 3 /\ Len(<<x, y, z>>) = 3
      OBVIOUS
    <3>2. \A k \in 1 .. 3 : k = 1 \/ k = 2 \/ k = 3
      OBVIOUS
    <3>3. \A k \in 1 .. 3 : (<<x>> \o <<y, z>>)[k] = <<x, y, z>>[k]
      BY <3>2
    <3>4. QED
      BY <3>1, <3>3, SeqEqual
  <2>2. QED
    BY <1>2, <2>1
<1>7. "recycle" \in ContentOps \ {"idle"} /\ "recycle" \notin NewFileOps /\ "recycle" \notin PlainOps
  BY DEF ContentOps, NewFileOps, PlainOps, MoveOps
<1>8. QED
  BY <1>4, <1>5, <1>6, <1>7 DEF BeginFits

LEMMA RenameBegins ==
    ASSUME inTree \in Service, NEW i \in Items, There(inTree, i)
    PROVE  BeginFits("rename", i, NoItem)
<1> DEFINE a == Do("check", i, inTree.place[i])
           b == Do("read", i, NoItem)
           c == Do("put", i, NoItem)
<1>1. inTree.place[i] \in Items \cup {Home, Bin, NoItem}
  BY ThereIs DEF Items
<1>2. /\ a \in Request /\ a.do = "check" /\ b \in Request /\ c \in Request
  BY <1>1, DoIs
<1>3. Requests("rename", i, NoItem) = <<a, b, c>>
  BY DEF Requests, RenameItem
<1>4. MoveTodo(<<a, b, c>>, NoItem)
  BY <1>2, DestIs DEF MoveTodo
<1> HIDE DEF a, b, c
<1>5. <<a, b, c>> \in Seq(Request)
  BY <1>2
<1>6. "rename" \in ContentOps \ {"idle"} /\ "rename" \notin NewFileOps /\ "rename" \notin PlainOps
  BY DEF ContentOps, NewFileOps, PlainOps, MoveOps
<1>7. QED
  BY <1>3, <1>4, <1>5, <1>6 DEF BeginFits

LEMMA NewFileBegins ==
    ASSUME NEW f \in Targets
    PROVE  BeginFits("newFile", NoItem, f)
<1> DEFINE a == Do("type", NoItem, f)
           b == Do("check", NoItem, f)
           c == Do("post", NoItem, f)
           d == Do("link", NoItem, f)
<1>1. f \in Dest /\ f \in Items \cup {Home, Bin, NoItem}
  BY TargetsAre
<1>2. a \in Request /\ b \in Request /\ c \in Request /\ d \in Request
  BY <1>1, DoIs
<1>3. Requests("newFile", NoItem, f) = <<a, b, c, d>>
  BY DEF Requests, CreateFile
<1>4. NewFileTodo(<<a, b, c, d>>, NoItem)
  BY <1>1 DEF NewFileTodo
<1> HIDE DEF a, b, c, d
<1>5. <<a, b, c, d>> \in Seq(Request)
  BY <1>2
<1>6. "newFile" \in ContentOps \ {"idle"} /\ "newFile" \notin MoveOps /\ "newFile" \notin PlainOps
  BY DEF ContentOps, NewFileOps, PlainOps, MoveOps
<1>7. QED
  BY <1>1, <1>3, <1>4, <1>5, <1>6 DEF BeginFits

LEMMA CopyBegins ==
    ASSUME NEW i \in Items, NEW f \in Dest
    PROVE  BeginFits("copy", i, f)
<1>1. Do("siblings", i, f) \in Request /\ f \in Items \cup {Home, Bin, NoItem}
  BY DoIs, DestIs
<1>2. Requests("copy", i, f) = <<Do("siblings", i, f)>>
  BY DEF Requests, CopyItem
<1>3. <<Do("siblings", i, f)>> \in Seq(Request)
  BY <1>1
<1>4. "copy" \in ContentOps \ {"idle"} /\ "copy" \notin MoveOps /\ "copy" \notin PlainOps
      /\ "copy" \notin NewFileOps
  BY DEF ContentOps, NewFileOps, PlainOps, MoveOps
<1>5. QED
  BY <1>1, <1>2, <1>3, <1>4 DEF BeginFits

LEMMA PlainIs == PlainRequest \subseteq Request
BY DEF PlainRequest

LEMMA PlainDo ==
    ASSUME NEW d \in {"check", "folder", "look", "list", "drop", "tidy", "add", "remove"},
           NEW i \in Items \cup {Home, Bin, NoItem}, NEW f \in Items \cup {Home, Bin, NoItem},
           d = "add" => i \in Items, d = "folder" => f \in Dest
    PROVE  Do(d, i, f) \in PlainRequest
<1> DEFINE t == Do(d, i, f)
<1>1. t \in Request /\ t.do = d /\ t.on = i /\ t.into = f
  BY DEF Do, Request
<1> HIDE DEF t
<1>2. t \in PlainRequest
  BY <1>1 DEF PlainRequest
<1>3. QED
  BY <1>2 DEF t

LEMMA PlainBegins ==
    ASSUME NEW op \in PlainOps, NEW i \in Items \cup {NoItem}, NEW f \in Items \cup {Home, NoItem},
           op = "newFolder" => f \in Targets, op \in {"delete", "favorite"} => i \in Items
    PROVE  BeginFits(op, i, f)
<1> DEFINE todo == Requests(op, i, f)
<1>1. todo \in Seq(PlainRequest)
  <2>1. CASE op = "newFolder"
    <3>1. f \in Dest /\ todo = <<Do("check", NoItem, f), Do("folder", NoItem, f)>>
      BY <2>1, TargetsAre DEF Requests, CreateFolder
    <3>2. Do("check", NoItem, f) \in PlainRequest /\ Do("folder", NoItem, f) \in PlainRequest
      BY <3>1, PlainDo, DestIs
    <3>3. QED
      BY <3>1, <3>2
  <2>2. CASE op = "delete"
    BY <2>2, DeletesFit DEF Requests
  <2>3. CASE op = "empty"
    <3>1. todo = <<Do("look", Bin, NoItem), Do("list", Bin, NoItem)>>
      BY <2>3 DEF Requests, EmptyRecycleBin
    <3>2. Do("look", Bin, NoItem) \in PlainRequest /\ Do("list", Bin, NoItem) \in PlainRequest
      BY PlainDo
    <3>3. QED
      BY <3>1, <3>2
  <2>4. CASE op = "favorite"
    <3>1. todo = <<Do("look", NoItem, NoItem), Do("add", i, NoItem)>>
      BY <2>4 DEF Requests, AddToFavorites
    <3>2. Do("look", NoItem, NoItem) \in PlainRequest /\ Do("add", i, NoItem) \in PlainRequest
      BY <2>4, PlainDo
    <3>3. QED
      BY <3>1, <3>2
  <2>5. CASE op = "unfavorite"
    <3>1. todo = <<Do("remove", i, NoItem)>>
      BY <2>5 DEF Requests, RemoveFromFavorites
    <3>2. Do("remove", i, NoItem) \in PlainRequest
      BY PlainDo
    <3>3. QED
      BY <3>1, <3>2
  <2>6. QED
    BY <2>1, <2>2, <2>3, <2>4, <2>5 DEF PlainOps
<1>2. op \in ContentOps \ {"idle"} /\ op \notin MoveOps /\ op # "copy" /\ op \notin NewFileOps
  BY DEF ContentOps, NewFileOps, PlainOps, MoveOps
<1> HIDE DEF todo
<1>3. todo \in Seq(Request)
  BY <1>1, PlainIs, SeqWithin
<1>4. QED
  BY <1>1, <1>2, <1>3 DEF BeginFits, todo

LEMMA CommandsBegin ==
    ASSUME inTree \in Service, NEW op \in Ops \ {"paste"}, NEW i \in Items \cup {NoItem},
           NEW f \in Items \cup {Home, NoItem}, NEW n \in ItemNames,
           i # NoItem => There(inTree, i), Command(op, i, f, n)
    PROVE  BeginFits(op, i, f) /\ op # "cut"
<1>1. op \in {"newFolder", "newFile", "rename", "drag", "recycle", "restore", "delete", "empty",
              "favorite", "unfavorite"}
  BY ContentAssumption
<1>2. CASE op \in {"newFolder", "newFile"}
  <2>1. i = NoItem /\ f \in Targets
    BY <1>2 DEF Command, CreateChild
  <2>2. QED
    BY <1>2, <2>1, NewFileBegins, PlainBegins DEF PlainOps
<1>3. CASE op = "rename"
  <2>1. i # NoItem /\ f = NoItem
    BY <1>3 DEF Command, Rename
  <2>2. QED
    BY <1>3, <2>1, RenameBegins
<1>4. CASE op = "drag"
  <2>1. i # NoItem /\ f \in Targets
    BY <1>4 DEF Command, Drop, MayMove
  <2>2. QED
    BY <1>4, <2>1, TargetsAre, MovesBegin
<1>5. CASE op = "recycle"
  <2>1. i # NoItem /\ f = NoItem
    BY <1>5 DEF Command, Recycle, Alone
  <2>2. QED
    BY <1>5, <2>1, RecycleBegins
<1>6. CASE op = "restore"
  <2>1. i # NoItem /\ inTree.before[i] # NoItem /\ f = inTree.before[i]
    BY <1>6 DEF Command, Restore
  <2>2. f \in Places
    BY <2>1 DEF Service
  <2>3. f \in Dest
    BY <2>1, <2>2, ContentBound DEF Places, Dest
  <2>4. QED
    BY <1>6, <2>1, <2>3, MovesBegin
<1>7. CASE op \in {"delete", "favorite", "unfavorite", "empty"}
  <2>1. op \in {"delete", "favorite"} => i # NoItem
    BY <1>7 DEF Command, Delete, Favorite, Alone
  <2>2. QED
    BY <1>7, <2>1, PlainBegins DEF PlainOps
<1>8. QED
  BY <1>1, <1>2, <1>3, <1>4, <1>5, <1>6, <1>7

(* A command begins in a slot that is free, with a number of its own.      *)
LEMMA BeginsIs ==
    ASSUME CtInv, NEW j \in Jobs, jobs[j].op = "idle", NEW op, NEW i, NEW f, NEW n \in ItemNames,
           BeginFits(op, i, f), Begins(j, op, i, f, n),
           op = "cut" => i \in Items /\ latest = [item |-> i, mode |-> "cut"]
    PROVE  /\ JobsFit(jobs', pasted, started + 1, latest) /\ CopiesFit(pasted, started + 1)
           /\ Linked(service, jobs', lost)
<1> DEFINE todo == Requests(op, i, f)
           b == op = "cut"
           new == [IdleJob EXCEPT !.op = op, !.item = i, !.into = f, !.name = n,
                                  !.todo = todo, !.untouched = b, !.number = started + 1]
<1>1. /\ jobs \in [Jobs -> Job] /\ started \in Nat /\ JobsFit(jobs, pasted, started, latest)
      /\ CopiesFit(pasted, started)
  BY ContentBound DEF CtInv, JobsFit
<1>2. /\ op \in ContentOps \ {"idle"} /\ i \in Items \cup {NoItem} /\ f \in Items \cup {Home, Bin, NoItem}
      /\ todo \in Seq(Request)
      /\ op \in NewFileOps => NewFileTodo(todo, NoItem)
      /\ op \in MoveOps => MoveTodo(todo, NoItem)
      /\ op \in PlainOps => todo \in Seq(PlainRequest)
      /\ op = "copy" => i \in Items /\ \E g \in Dest : todo = <<Do("siblings", i, g)>>
  BY DEF BeginFits
<1>3. jobs' = [k \in Jobs |-> IF k = j THEN new ELSE [jobs[k] EXCEPT !.untouched = @ /\ op # "cut"]]
  BY DEF Begins
<1> HIDE DEF todo
<1>4. /\ new.op = op /\ new.item = i /\ new.into = f /\ new.name = n /\ new.todo = todo
      /\ new.made = NoItem /\ new.read = NoItem /\ new.plan = <<>> /\ new.number = started + 1
      /\ new.untouched = (op = "cut") /\ new.aborted = FALSE /\ new.again = FALSE
  BY DEF IdleJob
<1>5. b \in BOOLEAN /\ (b <=> op = "cut")
  OBVIOUS
<1>6. new \in Job
  <2>1. started + 1 \in Nat /\ op \in ContentOps
    BY <1>1, <1>2
  <2> HIDE DEF b
  <2> DEFINE one == [IdleJob EXCEPT !.op = op, !.item = i, !.into = f]
             two == [one EXCEPT !.name = n, !.todo = todo]
  <2>2. one \in Job
    BY <1>2, <2>1, IdleFits DEF Job
  <2>3. new = [two EXCEPT !.untouched = b, !.number = started + 1]
    OBVIOUS
  <2> HIDE DEF one
  <2>4. two \in Job
    BY <1>2, <2>2 DEF Job
  <2> HIDE DEF two, new
  <2>5. QED
    BY <1>5, <2>1, <2>3, <2>4 DEF Job
<1> HIDE DEF new
<1>7. ~Copied(new, pasted)
  <2> SUFFICES ASSUME NEW m \in FreshIds, <<started + 1, m>> \in pasted PROVE FALSE
    BY <1>4 DEF Copied
  <2>1. PICK k \in 1 .. started, l \in FreshIds : <<started + 1, m>> = <<k, l>>
    BY <1>1 DEF CopiesFit
  <2>2. k = started + 1
    BY <2>1
  <2>3. QED
    BY <1>1, <2>2
<1>8. TodoFits(new, pasted)
  <2>1. op = "copy" => CopyTodo(todo, i, new.plan, Copied(new, pasted))
    <3>1. DOMAIN new.plan = {}
      BY <1>4
    <3>2. QED
      BY <1>2, <1>7, <3>1 DEF CopyTodo
  <2>2. op \in MoveOps => MoveTodo(todo, NoItem)
    BY <1>2
  <2>3. QED
    BY <1>2, <1>4, <2>1 DEF TodoFits
<1>9. jobs'[j] = new
  BY <1>3
<1>10. ASSUME NEW k \in Jobs \ {j}
       PROVE  jobs'[k] \in Job /\ Alike(jobs'[k], jobs[k]) /\ (op = "cut" => ~jobs'[k].untouched)
  <2> DEFINE c == op # "cut"
  <2>1. jobs'[k] = [jobs[k] EXCEPT !.untouched = @ /\ c] /\ jobs[k] \in Job /\ c \in BOOLEAN
    BY <1>1, <1>3
  <2>2. (~c) <=> op = "cut"
    OBVIOUS
  <2> HIDE DEF c
  <2>3. QED
    BY <2>1, <2>2, SetAside
<1>11. jobs' \in [Jobs -> Job]
  <2>1. \A k \in Jobs : jobs'[k] \in Job
    BY <1>6, <1>9, <1>10
  <2> DEFINE F(k) == IF k = j THEN new ELSE [jobs[k] EXCEPT !.untouched = @ /\ op # "cut"]
  <2>2. jobs' = [k \in Jobs |-> F(k)]
    BY <1>3
  <2> HIDE DEF F
  <2>3. QED
    BY <2>1, <2>2
<1>12. \A k \in Jobs : TodoFits(jobs'[k], pasted)
  <2>1. ASSUME NEW k \in Jobs \ {j} PROVE TodoFits(jobs'[k], pasted)
    BY <1>1, <1>10, AlikeFits DEF JobsFit
  <2>2. QED
    BY <1>8, <1>9, <2>1
<1>13. ASSUME NEW k \in Jobs \ {j}
       PROVE  /\ jobs'[k].op = jobs[k].op /\ jobs'[k].number = jobs[k].number
              /\ jobs'[k].item = jobs[k].item /\ (jobs'[k].untouched => jobs[k].untouched)
              /\ jobs'[k].op # "idle" => jobs'[k].number \in 1 .. started
  <2>1. Alike(jobs'[k], jobs[k]) /\ (jobs[k].op # "idle" => jobs[k].number \in 1 .. started)
    BY <1>1, <1>10 DEF JobsFit
  <2>2. QED
    BY <2>1 DEF Alike
<1>14. started + 1 \in 1 .. started + 1 /\ \A m \in 1 .. started : m \in 1 .. started + 1 /\ m # started + 1
  BY <1>1
<1>15. \A k \in Jobs :
          /\ jobs'[k].op # "idle" => jobs'[k].number \in 1 .. started + 1
          /\ jobs'[k].untouched => jobs'[k].item \in Items /\ latest = [item |-> jobs'[k].item, mode |-> "cut"]
  <2>1. ASSUME NEW k \in Jobs \ {j}
        PROVE  /\ jobs'[k].op # "idle" => jobs'[k].number \in 1 .. started + 1
               /\ jobs'[k].untouched => jobs'[k].item \in Items /\ latest = [item |-> jobs'[k].item, mode |-> "cut"]
    BY <1>1, <1>13, <1>14 DEF JobsFit
  <2>2. QED
    BY <1>4, <1>9, <1>14, <2>1
<1>16. \A k, l \in Jobs : jobs'[k].op # "idle" /\ jobs'[l].op # "idle" /\ jobs'[k].number = jobs'[l].number
                            => k = l
  <2> SUFFICES ASSUME NEW k \in Jobs, NEW l \in Jobs, jobs'[k].op # "idle", jobs'[l].op # "idle",
                      jobs'[k].number = jobs'[l].number, k # l
               PROVE  FALSE
    OBVIOUS
  <2>1. CASE k = j
    BY <1>4, <1>9, <1>13, <1>14, <2>1
  <2>2. CASE l = j
    BY <1>4, <1>9, <1>13, <1>14, <2>2
  <2>3. CASE k # j /\ l # j
    BY <1>1, <1>13, <2>3 DEF JobsFit
  <2>4. QED
    BY <2>1, <2>2, <2>3
<1>17. JobsFit(jobs', pasted, started + 1, latest)
  BY <1>11, <1>12, <1>15, <1>16 DEF JobsFit
<1>18. CopiesFit(pasted, started + 1)
  BY <1>1, <1>14 DEF CopiesFit
<1>19. Linked(service, jobs', lost)
  <2> SUFFICES ASSUME NEW x \in Items, service.place[x] = "unlinked"
               PROVE  x \in lost \/ \E k \in Jobs : jobs'[k].made = x
    BY DEF Linked
  <2>1. x \in lost \/ \E k \in Jobs : jobs[k].made = x
    BY DEF CtInv, Linked
  <2>2. ASSUME NEW k \in Jobs, jobs[k].made = x PROVE jobs'[k].made = x
    <3>1. k # j
      <4>1. jobs[j].made = NoItem
        BY <1>1 DEF JobsFit, TodoFits, NewFileOps
      <4>2. QED
        BY <2>2, <4>1, ContentBound
    <3>2. QED
      BY <1>10, <2>2, <3>1 DEF Alike
  <2>3. QED
    BY <2>1, <2>2
<1>20. QED
  BY <1>17, <1>18, <1>19

LEMMA ContentStarts ==
    ASSUME CtInv, NEW j \in Jobs, Start(j)
    PROVE  CtInv'
<1>1. /\ jobs[j].op = "idle" /\ started < MaxCommands /\ started' = started + 1
      /\ UNCHANGED <<service, inTree, clipboard, latest, lost, pasted>>
  BY DEF Start, MayBegin
<1>2. PICK op \in Ops \ {"paste"}, i \in Items \cup {NoItem}, f \in Items \cup {Home, NoItem},
           n \in ItemNames :
          /\ i # NoItem => There(inTree, i)
          /\ Command(op, i, f, n)
          /\ Begins(j, op, i, f, n)
  BY DEF Start
<1>3. BeginFits(op, i, f) /\ op # "cut"
  BY <1>2, CommandsBegin DEF CtInv
<1>4. /\ JobsFit(jobs', pasted, started + 1, latest) /\ CopiesFit(pasted, started + 1)
      /\ Linked(service, jobs', lost)
  BY <1>1, <1>2, <1>3, BeginsIs
<1>5. started' \in 0 .. MaxCommands
  BY <1>1, ContentBound DEF CtInv
<1>6. QED
  BY <1>1, <1>4, <1>5 DEF CtInv

LEMMA ContentPastes ==
    ASSUME CtInv, NEW j \in Jobs, Paste(j)
    PROVE  CtInv'
<1>1. /\ jobs[j].op = "idle" /\ started < MaxCommands /\ started' = started + 1
      /\ clipboard # NoItem
      /\ UNCHANGED <<service, inTree, latest, lost, pasted>>
  BY DEF Paste, MayBegin
<1>2. PICK f \in Targets :
          /\ Begins(j, clipboard.mode, clipboard.item, f, 0)
          /\ clipboard' = IF clipboard.mode = "cut" THEN NoItem ELSE clipboard
  BY DEF Paste
<1>3. clipboard = latest /\ clipboard \in [item : Items, mode : {"cut", "copy"}]
  BY <1>1 DEF CtInv, Entry
<1>4. clipboard.item \in Items /\ clipboard.mode \in {"cut", "copy"}
      /\ clipboard = [item |-> clipboard.item, mode |-> clipboard.mode]
  BY <1>3
<1>5. f \in Dest /\ 0 \in ItemNames
  BY TargetsAre, ContentBound DEF ItemNames
<1>6. BeginFits(clipboard.mode, clipboard.item, f)
  <2> DEFINE m == clipboard.mode
             i == clipboard.item
  <2>1. m = "cut" \/ m = "copy"
    BY <1>4
  <2>2. i \in Items
    BY <1>4
  <2> HIDE DEF m, i
  <2>3. BeginFits(m, i, f)
    BY <1>5, <2>1, <2>2, MovesBegin, CopyBegins
  <2>4. QED
    BY <2>3 DEF m, i
<1>7. /\ JobsFit(jobs', pasted, started + 1, latest) /\ CopiesFit(pasted, started + 1)
      /\ Linked(service, jobs', lost)
  BY <1>1, <1>2, <1>3, <1>4, <1>5, <1>6, BeginsIs
<1>8. started' \in 0 .. MaxCommands
  BY <1>1, ContentBound DEF CtInv
<1>9. clipboard' \in {NoItem, latest}
  BY <1>2, <1>3
<1>10. QED
  BY <1>1, <1>7, <1>8, <1>9 DEF CtInv

LEMMA CtBegins == ContentInit => CtInv
<1> SUFFICES ASSUME ContentInit PROVE CtInv
  OBVIOUS
<1>1. PICK first \in FolderIds : service =
          [place |-> [i \in Items |-> IF i \in FolderIds THEN Home
                                      ELSE IF i \in FileIds THEN first ELSE "unmade"],
           name |-> [i \in Items |-> IF i \in FolderIds \ {first} THEN 1 ELSE 0],
           kind |-> [i \in Items |-> IF i \in FolderIds THEN "folder" ELSE "file"],
           before |-> [i \in Items |-> NoItem], favorites |-> {}]
  BY DEF ContentInit
<1>2. /\ inTree = service /\ jobs = [j \in Jobs |-> IdleJob] /\ clipboard = NoItem /\ latest = NoItem
      /\ started = 0 /\ lost = {} /\ pasted = {}
  BY DEF ContentInit
<1>3. 0 \in ItemNames /\ 1 \in ItemNames /\ 0 \in 0 .. MaxCommands
  BY ContentBound DEF ItemNames
<1>4. /\ Home \in Places /\ "unmade" \in Places /\ \A i \in FolderIds : i \in Places
      /\ "unlinked" \notin FolderIds /\ Home # "unlinked"
  BY ContentBound DEF Places
<1>5. service \in Service
  BY <1>1, <1>3, <1>4 DEF Service
<1>6. \A i \in Items : service.place[i] # "unlinked"
  BY <1>1, <1>4
<1>7. JobsFit(jobs, pasted, started, latest)
  BY <1>2, IdleFits DEF JobsFit
<1>8. CopiesFit(pasted, started) /\ OnceOnly(pasted) /\ Linked(service, jobs, lost)
  BY <1>2, <1>6 DEF CopiesFit, OnceOnly, Linked
<1>9. QED
  BY <1>2, <1>3, <1>5, <1>7, <1>8 DEF CtInv, Entry

LEMMA CtKept == CtInv /\ [ContentNext]_contentVars => CtInv'
<1> SUFFICES ASSUME CtInv, [ContentNext]_contentVars PROVE CtInv'
  OBVIOUS
<1>1. CASE UNCHANGED contentVars
  BY <1>1 DEF contentVars, CtInv
<1>2. ASSUME NEW j \in Jobs, Start(j) PROVE CtInv'
  BY <1>2, ContentStarts
<1>3. ASSUME NEW j \in Jobs, Paste(j) PROVE CtInv'
  BY <1>3, ContentPastes
<1>4. ASSUME NEW j \in Jobs, Answered(j) PROVE CtInv'
  BY <1>4, ContentDone DEF Answered
<1>5. ASSUME NEW j \in Jobs, Unanswered(j) PROVE CtInv'
  BY <1>5, ContentDone DEF Unanswered
<1>6. ASSUME NEW j \in Jobs, NotDone(j) PROVE CtInv'
  BY <1>6, ContentNotDone
<1>7. ASSUME NEW j \in Jobs, Cancels(j) PROVE CtInv'
  BY <1>7, ContentCancels
<1>8. ASSUME NEW i \in Items, Cut(i) \/ Copy(i) PROVE CtInv'
  <2>1. Entry([item |-> i, mode |-> "cut"]) /\ Entry([item |-> i, mode |-> "copy"])
    BY DEF Entry
  <2>2. QED
    BY <1>8, <2>1, ContentSets DEF Cut, Copy
<1>9. CASE ClearsClipboard
  BY <1>9, ContentSets DEF ClearsClipboard, Entry
<1>10. CASE TreeReads
  BY <1>10 DEF TreeReads, CtInv
<1>11. QED
  BY <1>1, <1>2, <1>3, <1>4, <1>5, <1>6, <1>7, <1>8, <1>9, <1>10 DEF ContentNext

LEMMA CtShows == CtInv => ContentTypeOK /\ NothingUnlinked /\ CopiedOnce /\ ClipboardIsLatest
<1> SUFFICES ASSUME CtInv PROVE ContentTypeOK /\ NothingUnlinked /\ CopiedOnce /\ ClipboardIsLatest
  OBVIOUS
<1>1. clipboard = NoItem \/ clipboard \in [item : Items, mode : {"cut", "copy"}]
  BY DEF CtInv, Entry
<1>2. \A j \in Jobs : jobs[j].todo \in Seq(Request) /\ jobs[j].name \in ItemNames
                      /\ jobs[j].made \in FreshIds \cup {NoItem}
  BY DEF CtInv, JobsFit, Job
<1>3. ContentTypeOK
  BY <1>1, <1>2 DEF CtInv, ContentTypeOK
<1>4. QED
  BY <1>3 DEF CtInv, Linked, OnceOnly, NothingUnlinked, CopiedOnce, ClipboardIsLatest

(* Whatever is answered, refused, lost or cancelled, and in whatever order *)
(* the commands of the SAS Content tree are at work: a file that is in no  *)
(* folder is one a command is at work on, or its making or removal went    *)
(* unanswered (createFile); a paste copies its item once (copy.ts); the    *)
(* clipboard holds what was last put there, or nothing (contentMove.ts).   *)
THEOREM NothingIsStranded ==
    WorkbenchSpec => [](NothingUnlinked /\ CopiedOnce /\ ClipboardIsLatest)
<1>1. WorkbenchInit => CtInv
  BY CtBegins DEF WorkbenchInit
<1>2. CtInv /\ [WorkbenchNext]_workbenchVars => CtInv'
  BY CtKept, PartsStep
<1>3. CtInv => NothingUnlinked /\ CopiedOnce /\ ClipboardIsLatest
  BY CtShows
<1>4. QED
  BY <1>1, <1>2, <1>3, PTL DEF WorkbenchSpec

-----------------------------------------------------------------------------
(* Downloads.  Paths are compared as a disk that tells no case apart does; *)
(* each is that of a listed folder and a name, but for the first.          *)
Letters == {"a", "A", "..", "b"}
Way == Seq(Letters)
Walked == [item : Nodes, path : Way]
Reasons == {"unsafe-name", "duplicate-name", "too-deep", "already-listed",
            "listing-truncated", "not-a-file"}
Skipping == [path : Way, item : Nodes, reason : Reasons]

Reached(q) == {LowerPath(q[i].path) : i \in 1 .. Len(q)}
LowersOf(fs) == {LowerPath(fs[i]) : i \in 1 .. Len(fs)}
EachOnce(q) == \A i, j \in 1 .. Len(q) : LowerPath(q[i].path) = LowerPath(q[j].path) => i = j
HangsOn(F, l) == Len(l) >= 1 /\ (Len(l) > 1 => \E g \in F, c \in Letters : l = Append(g, c))

TreeFits ==
    /\ keyed \in BOOLEAN /\ members \in [TreeFolders -> SUBSET Nodes]
    /\ name \in [Nodes -> Letters]
FoundFits ==
    /\ agenda \in Seq(Walked)
    /\ plan \in [folders : Seq(Way), files : Seq(Walked), skipped : SUBSET Skipping]
    /\ \A i \in 1 .. Len(plan.files) : plan.files[i].item \in TreeFiles
PathsApart ==
    /\ EachOnce(agenda) /\ EachOnce(plan.files)
    /\ Reached(agenda) \cap (Reached(plan.files) \cup LowersOf(plan.folders)) = {}
    /\ Reached(plan.files) \cap LowersOf(plan.folders) = {}
    /\ \A l \in Reached(agenda) \cup Reached(plan.files) \cup LowersOf(plan.folders) :
          HangsOn(LowersOf(plan.folders), l)

VisitedFits ==
    /\ IsFiniteSet(visited) /\ Cardinality(visited) = Len(plan.folders)
    /\ visited \subseteq {KeyOf(Visit(f, p)) : f \in TreeFolders, p \in ToSet(plan.folders)}
    /\ keyed \/ \A p \in ToSet(plan.folders) : Len(p) <= MaxDepth
Known(f) == \E p \in ToSet(plan.folders) : KeyOf(Visit(f, p)) \in visited
Met(i) ==
    \/ \E k \in 1 .. Len(agenda) : agenda[k].item = i
    \/ i \in TreeFiles /\ \E k \in 1 .. Len(plan.files) : plan.files[k].item = i
    \/ i \in TreeFolders /\ Known(i)
    \/ \E s \in plan.skipped : s.item = i
MembersMet == \A f \in TreeFolders : Known(f) => \A i \in members[f] : Met(i)

Handled == Cardinality(saved) + Cardinality(failures)
WritingFits ==
    /\ phase \in {"planning", "writing", "cancelled", "failed", "finished"}
    /\ IsFiniteSet(saved) /\ IsFiniteSet(failures)
    /\ Handled <= Len(plan.files)
    /\ saved \cup failures = {plan.files[k] : k \in 1 .. Handled}
    /\ phase = "planning" => saved = {} /\ failures = {}
    /\ phase \in {"writing", "finished"} => agenda = <<>>
    /\ phase = "finished" => Handled = Len(plan.files)

TrInv == TreeFits /\ FoundFits /\ PathsApart /\ VisitedFits /\ MembersMet /\ WritingFits

LEMMA TrBound == MaxDepth \in Nat \ {0} /\ Top \in TreeFolders /\ IsFiniteSet(Nodes)
BY TransfersAssumption DEF Nodes

LEMMA LowerIs ==
    ASSUME NEW p \in Way
    PROVE  LowerPath(p) \in Way /\ Len(LowerPath(p)) = Len(p)
<1>1. \A k \in DOMAIN p : Lower(p[k]) \in Letters
  BY DEF Lower, Way, Letters
<1>2. DOMAIN p = 1 .. Len(p) /\ Len(p) \in Nat
  BY DEF Way
<1>3. LowerPath(p) \in [1 .. Len(p) -> Letters]
  BY <1>1, <1>2 DEF LowerPath
<1>4. QED
  BY <1>2, <1>3 DEF Way

LEMMA LowerAppend ==
    ASSUME NEW p \in Way, NEW c \in Letters
    PROVE  LowerPath(Append(p, c)) = Append(LowerPath(p), Lower(c))
<1>1. Append(p, c) \in Way /\ Len(Append(p, c)) = Len(p) + 1
  BY DEF Way
<1>2. LowerPath(Append(p, c)) \in Way /\ Len(LowerPath(Append(p, c))) = Len(p) + 1
  BY <1>1, LowerIs
<1>3. LowerPath(p) \in Way /\ Len(LowerPath(p)) = Len(p) /\ Lower(c) \in Letters
  BY LowerIs DEF Lower, Letters
<1>4. Append(LowerPath(p), Lower(c)) \in Way /\ Len(Append(LowerPath(p), Lower(c))) = Len(p) + 1
  BY <1>3 DEF Way
<1>5. \A k \in 1 .. Len(p) + 1 : LowerPath(Append(p, c))[k] = Append(LowerPath(p), Lower(c))[k]
  <2> TAKE k \in 1 .. Len(p) + 1
  <2>1. DOMAIN Append(p, c) = 1 .. Len(p) + 1 /\ DOMAIN p = 1 .. Len(p) /\ Len(p) \in Nat
    BY <1>1 DEF Way
  <2>2. LowerPath(Append(p, c))[k] = Lower(Append(p, c)[k])
    BY <2>1 DEF LowerPath
  <2>3. CASE k = Len(p) + 1
    BY <1>3, <2>2, <2>3 DEF Way
  <2>4. CASE k # Len(p) + 1
    <3>1. k \in 1 .. Len(p) /\ Append(p, c)[k] = p[k] /\ Append(LowerPath(p), Lower(c))[k] = LowerPath(p)[k]
      BY <1>3, <2>1, <2>4 DEF Way
    <3>2. QED
      BY <2>1, <2>2, <3>1 DEF LowerPath
  <2>5. QED
    BY <2>3, <2>4
<1>6. QED
  BY <1>2, <1>4, <1>5, SeqEqual DEF Way

LEMMA TakesHead ==
    ASSUME NEW q \in Seq(Walked), q # <<>>, EachOnce(q)
    PROVE  /\ Head(q) \in Walked /\ Tail(q) \in Seq(Walked) /\ EachOnce(Tail(q))
           /\ LowerPath(Head(q).path) \notin Reached(Tail(q))
           /\ Reached(q) = Reached(Tail(q)) \cup {LowerPath(Head(q).path)}
<1>1. /\ Head(q) = q[1] /\ Len(q) \in Nat /\ Len(q) >= 1 /\ Tail(q) \in Seq(Walked)
      /\ Len(Tail(q)) = Len(q) - 1 /\ Head(q) \in Walked
      /\ \A i \in 1 .. Len(q) - 1 : Tail(q)[i] = q[i + 1]
  OBVIOUS
<1>2. \A i \in 1 .. Len(q) - 1 : i + 1 \in 1 .. Len(q) /\ i + 1 # 1
  BY <1>1
<1>3. \A i \in 1 .. Len(q) : i = 1 \/ (i - 1 \in 1 .. Len(q) - 1 /\ q[i] = Tail(q)[i - 1])
  BY <1>1
<1>4. EachOnce(Tail(q))
  BY <1>1, <1>2 DEF EachOnce
<1>5. LowerPath(Head(q).path) \notin Reached(Tail(q))
  BY <1>1, <1>2 DEF EachOnce, Reached
<1>6. Reached(q) \subseteq Reached(Tail(q)) \cup {LowerPath(Head(q).path)}
  BY <1>1, <1>3 DEF Reached
<1>7. Reached(Tail(q)) \cup {LowerPath(Head(q).path)} \subseteq Reached(q)
  BY <1>1, <1>2 DEF Reached
<1>8. QED
  BY <1>1, <1>4, <1>5, <1>6, <1>7

LEMMA JoinsApart ==
    ASSUME NEW a \in Seq(Walked), NEW b \in Seq(Walked), EachOnce(a), EachOnce(b),
           Reached(a) \cap Reached(b) = {}
    PROVE  /\ a \o b \in Seq(Walked) /\ EachOnce(a \o b)
           /\ Reached(a \o b) = Reached(a) \cup Reached(b)
<1>1. /\ a \o b \in Seq(Walked) /\ Len(a \o b) = Len(a) + Len(b) /\ Len(a) \in Nat /\ Len(b) \in Nat
      /\ \A i \in 1 .. Len(a) + Len(b) : (a \o b)[i] = IF i <= Len(a) THEN a[i] ELSE b[i - Len(a)]
  OBVIOUS
<1> DEFINE c == a \o b
<1>2. \A i \in 1 .. Len(c) :
         \/ i \in 1 .. Len(a) /\ c[i] = a[i]
         \/ i - Len(a) \in 1 .. Len(b) /\ c[i] = b[i - Len(a)]
  BY <1>1
<1>3. \A i \in 1 .. Len(a) : i \in 1 .. Len(c) /\ c[i] = a[i]
  BY <1>1
<1>4. \A i \in 1 .. Len(b) : i + Len(a) \in 1 .. Len(c) /\ c[i + Len(a)] = b[i]
  BY <1>1
<1>5. Len(c) \in Nat /\ Len(a) \in Nat
  BY <1>1
<1> HIDE DEF c
<1>6. Reached(c) \subseteq Reached(a) \cup Reached(b)
  BY <1>2 DEF Reached
<1>7. Reached(a) \cup Reached(b) \subseteq Reached(c)
  BY <1>3, <1>4 DEF Reached
<1>8. EachOnce(c)
  <2> SUFFICES ASSUME NEW i \in 1 .. Len(c), NEW j \in 1 .. Len(c),
                      LowerPath(c[i].path) = LowerPath(c[j].path)
               PROVE  i = j
    BY DEF EachOnce
  <2>1. CASE i \in 1 .. Len(a) /\ c[i] = a[i] /\ j \in 1 .. Len(a) /\ c[j] = a[j]
    BY <2>1 DEF EachOnce
  <2>2. CASE i - Len(a) \in 1 .. Len(b) /\ c[i] = b[i - Len(a)]
             /\ j - Len(a) \in 1 .. Len(b) /\ c[j] = b[j - Len(a)]
    <3>1. i - Len(a) = j - Len(a)
      BY <2>2 DEF EachOnce
    <3>2. QED
      BY <1>5, <3>1
  <2>3. CASE i \in 1 .. Len(a) /\ c[i] = a[i] /\ j - Len(a) \in 1 .. Len(b) /\ c[j] = b[j - Len(a)]
    <3>1. LowerPath(c[i].path) \in Reached(a) /\ LowerPath(c[j].path) \in Reached(b)
      BY <2>3 DEF Reached
    <3>2. QED
      BY <3>1
  <2>4. CASE j \in 1 .. Len(a) /\ c[j] = a[j] /\ i - Len(a) \in 1 .. Len(b) /\ c[i] = b[i - Len(a)]
    <3>1. LowerPath(c[j].path) \in Reached(a) /\ LowerPath(c[i].path) \in Reached(b)
      BY <2>4 DEF Reached
    <3>2. QED
      BY <3>1
  <2>5. QED
    BY <1>2, <2>1, <2>2, <2>3, <2>4
<1>9. QED
  BY <1>1, <1>6, <1>7, <1>8 DEF c

LEMMA AppendsApart ==
    ASSUME NEW q \in Seq(Walked), NEW v \in Walked, EachOnce(q), LowerPath(v.path) \notin Reached(q)
    PROVE  /\ Append(q, v) \in Seq(Walked) /\ EachOnce(Append(q, v))
           /\ Reached(Append(q, v)) = Reached(q) \cup {LowerPath(v.path)}
<1>1. <<v>> \in Seq(Walked) /\ Len(<<v>>) = 1 /\ <<v>>[1] = v /\ Append(q, v) = q \o <<v>>
  OBVIOUS
<1>2. 1 .. 1 = {1}
  OBVIOUS
<1> DEFINE one == <<v>>
<1> HIDE DEF one
<1>3. one \in Seq(Walked) /\ Len(one) = 1 /\ one[1] = v /\ Append(q, v) = q \o one
  BY <1>1 DEF one
<1>4. EachOnce(one) /\ Reached(one) = {LowerPath(v.path)}
  BY <1>2, <1>3 DEF EachOnce, Reached
<1>5. QED
  BY <1>3, <1>4, JoinsApart
(* Where the n-th of some places is.                                       *)
LEMMA RankIs ==
    ASSUME NEW K, K \subseteq Nat, IsFiniteSet(K)
    PROVE  \A m \in 1 .. Cardinality(K) : \E k \in K : Cardinality({l \in K : l <= k}) = m
<1> DEFINE Below(k) == {l \in K : l <= k}
           n == Cardinality(K)
           r == [k \in K |-> Cardinality(Below(k))]
<1>1. n \in Nat /\ n = Cardinality(K)
  BY FS_CardinalityType
<1>2. ASSUME NEW k \in K
      PROVE  IsFiniteSet(Below(k)) /\ Cardinality(Below(k)) \in 1 .. n
  <2>1. Below(k) \in SUBSET K /\ k \in Below(k)
    BY <1>2
  <2> HIDE DEF Below
  <2>2. IsFiniteSet(Below(k)) /\ Cardinality(Below(k)) <= n
    BY <2>1, FS_Subset
  <2>3. Cardinality(Below(k)) \in Nat /\ Cardinality(Below(k)) # 0
    BY <2>1, <2>2, FS_CardinalityType, FS_EmptySet
  <2> HIDE DEF n
  <2>4. QED
    BY <1>1, <2>2, <2>3
<1>3. ASSUME NEW j \in K, NEW k \in K, j < k
      PROVE  Cardinality(Below(j)) < Cardinality(Below(k))
  <2>0. j \in Nat /\ k \in Nat /\ ~(k <= j) /\ k <= k /\ \A l \in K : l <= j => l <= k
    BY <1>3
  <2>1. k \notin Below(j) /\ Below(j) \cup {k} \in SUBSET Below(k)
    BY <2>0, Zenon
  <2> HIDE DEF Below, n
  <2>2. Cardinality(Below(j) \cup {k}) = Cardinality(Below(j)) + 1
    BY <1>2, <2>1, FS_AddElement
  <2>3. Cardinality(Below(j) \cup {k}) <= Cardinality(Below(k))
    BY <1>2, <2>1, FS_Subset
  <2>4. Cardinality(Below(j)) \in Nat /\ Cardinality(Below(k)) \in Nat
    BY <1>1, <1>2
  <2>5. QED
    BY <2>2, <2>3, <2>4
<1> HIDE DEF n, Below
<1>4. r \in [K -> 1 .. n]
  BY <1>2
<1>5. \A j, k \in K : r[j] = r[k] => j = k
  <2> SUFFICES ASSUME NEW j \in K, NEW k \in K, r[j] = r[k], j # k PROVE FALSE
    OBVIOUS
  <2>1. j \in Nat /\ k \in Nat /\ r[j] \in 1 .. n
    BY <1>4
  <2>2. j < k \/ k < j
    BY <2>1
  <2>3. r[j] < r[k] \/ r[k] < r[j]
    BY <1>3, <2>2
  <2>4. QED
    BY <1>1, <2>1, <2>3
<1>6. r \in Injection(K, 1 .. n)
  BY <1>4, <1>5 DEF Injection, IsInjective
<1>7. IsFiniteSet(1 .. n) /\ Cardinality(1 .. n) = n
  <2>1. n \in Int /\ 1 \in Int
    BY <1>1
  <2>2. IsFiniteSet(1 .. n) /\ Cardinality(1 .. n) = IF 1 > n THEN 0 ELSE n - 1 + 1
    BY <2>1, FS_Interval
  <2>3. QED
    BY <1>1, <2>2
<1>8. r \in Surjection(K, 1 .. n)
  BY <1>1, <1>6, <1>7, FS_Injection
<1>9. \A m \in 1 .. n : \E k \in K : r[k] = m
  BY <1>8 DEF Surjection
<1>10. \A k \in K : r[k] = Cardinality({l \in K : l <= k})
  BY DEF Below
<1>11. QED
  BY <1>1, <1>9, <1>10

LEMMA AtPlacesIs ==
    ASSUME NEW S, NEW q \in Seq(S), NEW K, K \subseteq DOMAIN q
    PROVE  /\ AtPlaces(q, K) \in Seq(S)
           /\ \A i, j \in 1 .. Len(AtPlaces(q, K)) : i # j =>
                 \E k, l \in K : k # l /\ AtPlaces(q, K)[i] = q[k] /\ AtPlaces(q, K)[j] = q[l]
           /\ \A i \in 1 .. Len(AtPlaces(q, K)) : \E k \in K : AtPlaces(q, K)[i] = q[k]
<1> DEFINE n == Cardinality(K)
           At1(m) == CHOOSE k \in K : Cardinality({l \in K : l <= k}) = m
<1>1. DOMAIN q = 1 .. Len(q) /\ Len(q) \in Nat /\ \A k \in DOMAIN q : q[k] \in S
  OBVIOUS
<1>2. K \subseteq Nat /\ IsFiniteSet(K)
  <2>1. IsFiniteSet(1 .. Len(q))
    BY <1>1, FS_Interval
  <2>2. QED
    BY <1>1, <2>1, FS_Subset
<1>3. n \in Nat
  BY <1>2, FS_CardinalityType
<1>4. \A m \in 1 .. n : \E k \in K : Cardinality({l \in K : l <= k}) = m
  BY <1>2, RankIs
<1>5. \A m \in 1 .. n : At1(m) \in K /\ Cardinality({l \in K : l <= At1(m)}) = m
  BY <1>4, Zenon
<1>6. AtPlaces(q, K) = [m \in 1 .. n |-> q[At1(m)]]
  BY DEF AtPlaces
<1> HIDE DEF At1, n
<1>7. \A i, j \in 1 .. n : i # j => At1(i) # At1(j)
  BY <1>5
<1>8. AtPlaces(q, K) \in [1 .. n -> S]
  BY <1>1, <1>5, <1>6
<1>9. AtPlaces(q, K) \in Seq(S) /\ Len(AtPlaces(q, K)) = n
  BY <1>3, <1>8
<1>10. \A i \in 1 .. n : AtPlaces(q, K)[i] = q[At1(i)]
  BY <1>6
<1>11. QED
  BY <1>5, <1>7, <1>9, <1>10

LEMMA KeptIs ==
    ASSUME TreeFits, NEW f \in TreeFolders
    PROVE  /\ KeepsName(f) \in Seq(members[f]) /\ members[f] \subseteq Nodes
           /\ \A i, j \in 1 .. Len(KeepsName(f)) :
                 Lower(name[KeepsName(f)[i]]) = Lower(name[KeepsName(f)[j]]) => i = j
<1> DEFINE listed == Listed(f)
           K == {k \in DOMAIN listed :
                   /\ IsSafe(name[listed[k]])
                   /\ \A l \in 1 .. k - 1 : ~SameName(name[listed[l]], name[listed[k]])}
<1>1. members[f] \subseteq Nodes /\ IsFiniteSet(members[f])
  BY TrBound, FS_Subset DEF TreeFits
<1>2. listed \in Seq(members[f])
  BY <1>1, SetListed DEF Listed
<1>3. KeepsName(f) = AtPlaces(listed, K)
  BY DEF KeepsName
<1>4. K \subseteq DOMAIN listed
  OBVIOUS
<1>5. \A k, l \in K : Lower(name[listed[k]]) = Lower(name[listed[l]]) => k = l
  <2> SUFFICES ASSUME NEW k \in K, NEW l \in K,
                      Lower(name[listed[k]]) = Lower(name[listed[l]]), k # l
               PROVE  FALSE
    OBVIOUS
  <2>1. k \in Nat /\ l \in Nat /\ k >= 1 /\ l >= 1
    BY <1>2
  <2>2. k \in 1 .. l - 1 \/ l \in 1 .. k - 1
    BY <2>1
  <2>3. QED
    BY <2>2 DEF SameName
<1> HIDE DEF listed, K
<1>6. AtPlaces(listed, K) \in Seq(members[f])
  BY <1>2, <1>4, AtPlacesIs
<1>7. \A i, j \in 1 .. Len(AtPlaces(listed, K)) : i # j =>
         \E k, l \in K : k # l /\ AtPlaces(listed, K)[i] = listed[k] /\ AtPlaces(listed, K)[j] = listed[l]
  BY <1>2, <1>4, AtPlacesIs
<1>8. QED
  BY <1>1, <1>3, <1>5, <1>6, <1>7

LEMMA VisitIs ==
    ASSUME NEW i, NEW p
    PROVE  /\ Visit(i, p).item = i /\ Visit(i, p).path = p
           /\ i \in Nodes /\ p \in Way => Visit(i, p) \in Walked
BY DEF Visit, Walked

(* The members that are to be visited.                                     *)
NewVisits(v) ==
    [k \in DOMAIN KeepsName(v.item) |->
        Visit(KeepsName(v.item)[k], Append(v.path, name[KeepsName(v.item)[k]]))]

LEMMA NewIs ==
    ASSUME TreeFits, NEW v \in Walked, v.item \in TreeFolders
    PROVE  /\ NewVisits(v) \in Seq(Walked) /\ EachOnce(NewVisits(v))
           /\ \A l \in Reached(NewVisits(v)) : \E c \in Letters : l = Append(LowerPath(v.path), c)
           /\ \A i \in ToSet(KeepsName(v.item)) : \E k \in 1 .. Len(NewVisits(v)) : NewVisits(v)[k].item = i
<1> DEFINE kept == KeepsName(v.item)
           low == LowerPath(v.path)
           new == NewVisits(v)
<1>1. kept \in Seq(members[v.item]) /\ members[v.item] \subseteq Nodes
  BY KeptIs
<1>2. \A i, j \in 1 .. Len(kept) : Lower(name[kept[i]]) = Lower(name[kept[j]]) => i = j
  BY KeptIs
<1>3. v.path \in Way /\ low \in Way
  BY LowerIs DEF Walked
<1>4. new = [k \in DOMAIN kept |-> Visit(kept[k], Append(v.path, name[kept[k]]))]
  BY DEF NewVisits
<1> HIDE DEF kept, new
<1>5. DOMAIN kept = 1 .. Len(kept) /\ Len(kept) \in Nat /\ \A k \in 1 .. Len(kept) : kept[k] \in Nodes
  BY <1>1
<1>6. \A k \in 1 .. Len(kept) : name[kept[k]] \in Letters /\ Lower(name[kept[k]]) \in Letters
  BY <1>5 DEF TreeFits, Lower, Letters
<1>7. \A k \in 1 .. Len(kept) :
         /\ new[k].item = kept[k] /\ new[k].path = Append(v.path, name[kept[k]])
         /\ new[k] \in Walked
  <2> TAKE k \in 1 .. Len(kept)
  <2>1. new[k] = Visit(kept[k], Append(v.path, name[kept[k]]))
    BY <1>4, <1>5
  <2>2. Append(v.path, name[kept[k]]) \in Way
    BY <1>3, <1>6 DEF Way
  <2> DEFINE i == kept[k]
             p == Append(v.path, name[kept[k]])
  <2>3. i \in Nodes /\ p \in Way /\ new[k] = Visit(i, p)
    BY <1>5, <2>1, <2>2
  <2> HIDE DEF i, p
  <2>4. Visit(i, p).item = i /\ Visit(i, p).path = p /\ Visit(i, p) \in Walked
    BY <2>3, VisitIs, Zenon
  <2>5. QED
    BY <2>3, <2>4 DEF i, p
<1>8. DOMAIN new = 1 .. Len(kept)
  BY <1>4, <1>5
<1>9. new \in [1 .. Len(kept) -> Walked]
  BY <1>4, <1>7, <1>8
<1>10. new \in Seq(Walked) /\ Len(new) = Len(kept)
  BY <1>5, <1>9
<1>11. \A k \in 1 .. Len(kept) : LowerPath(new[k].path) = Append(low, Lower(name[kept[k]]))
  BY <1>3, <1>6, <1>7, LowerAppend
<1> HIDE DEF low
<1>12. EachOnce(new)
  <2> SUFFICES ASSUME NEW i \in 1 .. Len(kept), NEW j \in 1 .. Len(kept),
                      LowerPath(new[i].path) = LowerPath(new[j].path)
               PROVE  i = j
    BY <1>10 DEF EachOnce
  <2>1. Append(low, Lower(name[kept[i]])) = Append(low, Lower(name[kept[j]]))
    BY <1>11
  <2>2. Lower(name[kept[i]]) = Lower(name[kept[j]])
    BY <1>3, <1>6, <2>1, AppendInjective DEF Way
  <2>3. QED
    BY <1>2, <2>2
<1>13. \A l \in Reached(new) : \E c \in Letters : l = Append(low, c)
  BY <1>6, <1>10, <1>11 DEF Reached
<1>14. \A i \in ToSet(kept) : \E k \in 1 .. Len(new) : new[k].item = i
  BY <1>5, <1>7, <1>10 DEF ToSet
<1>15. QED
  BY <1>10, <1>12, <1>13, <1>14 DEF kept, low, new

LEMMA NoneHandled ==
    phase = "planning" /\ saved = {} /\ failures = {} /\ Len(plan.files) \in Nat => WritingFits
<1> SUFFICES ASSUME phase = "planning", saved = {}, failures = {}, Len(plan.files) \in Nat
             PROVE  WritingFits
  OBVIOUS
<1>1. IsFiniteSet(saved) /\ IsFiniteSet(failures) /\ Cardinality(saved) = 0 /\ Cardinality(failures) = 0
  BY FS_EmptySet
<1>2. Handled = 0 /\ Handled <= Len(plan.files)
  BY <1>1 DEF Handled
<1>3. 1 .. 0 = {}
  OBVIOUS
<1>4. saved \cup failures = {plan.files[k] : k \in 1 .. Handled}
  BY <1>2, <1>3
<1>5. QED
  BY <1>1, <1>2, <1>4 DEF WritingFits

LEMMA TrBegins == TrInit => TrInv
<1> SUFFICES ASSUME TrInit PROVE TrInv
  OBVIOUS
<1>1. TreeFits
  BY TransfersAssumption DEF TrInit, TreeFits, Nodes, Letters
<1> DEFINE way == <<name[Top]>>
<1>2. Top \in Nodes /\ name[Top] \in Letters
  BY <1>1, TrBound DEF TreeFits, Nodes
<1>3. way \in Way /\ Len(way) = 1
  BY <1>2 DEF Way
<1> DEFINE first == Visit(Top, way)
<1>4. first \in Walked /\ first.path = way
  <2> HIDE DEF way
  <2>1. QED
    BY <1>2, <1>3, VisitIs
<1>5. agenda = <<first>>
  BY DEF TrInit
<1>6. plan.folders = <<>> /\ plan.files = <<>> /\ plan.skipped = {}
  BY DEF TrInit
<1>7. plan \in [folders : Seq(Way), files : Seq(Walked), skipped : SUBSET Skipping]
  <2>1. <<>> \in Seq(Way) /\ <<>> \in Seq(Walked)
    OBVIOUS
  <2>2. QED
    BY <2>1, Zenon DEF TrInit
<1> HIDE DEF first, way
<1>8. agenda \in Seq(Walked) /\ Len(agenda) = 1 /\ agenda[1] = first
  BY <1>4, <1>5
<1>9. Len(plan.files) = 0 /\ Len(plan.folders) = 0
  BY <1>6
<1>10. 1 .. 1 = {1} /\ 1 .. 0 = {}
  OBVIOUS
<1>11. Reached(agenda) = {LowerPath(way)} /\ EachOnce(agenda)
  BY <1>4, <1>8, <1>10 DEF Reached, EachOnce
<1>12. Reached(plan.files) = {} /\ EachOnce(plan.files) /\ LowersOf(plan.folders) = {}
  BY <1>9, <1>10 DEF Reached, EachOnce, LowersOf
<1>13. Len(LowerPath(way)) = 1
  BY <1>3, LowerIs
<1>14. HangsOn(LowersOf(plan.folders), LowerPath(way))
  BY <1>13 DEF HangsOn
<1>15. PathsApart
  BY <1>11, <1>12, <1>14 DEF PathsApart
<1>16. FoundFits
  BY <1>7, <1>8, <1>9, <1>10 DEF FoundFits
<1>17. ToSet(plan.folders) = {}
  BY <1>6 DEF ToSet
<1>18. VisitedFits /\ MembersMet
  BY <1>9, <1>17, FS_EmptySet DEF TrInit, VisitedFits, MembersMet, Known
<1>19. WritingFits
  BY <1>9, NoneHandled DEF TrInit
<1>20. QED
  BY <1>1, <1>15, <1>16, <1>18, <1>19 DEF TrInv

(* What the walk is about to visit.                                        *)
LEMMA HeadIs ==
    ASSUME TrInv, agenda # <<>>
    PROVE  /\ Head(agenda) \in Walked /\ Tail(agenda) \in Seq(Walked) /\ EachOnce(Tail(agenda))
           /\ Head(agenda).path \in Way /\ Head(agenda).item \in Nodes
           /\ LowerPath(Head(agenda).path) \notin Reached(Tail(agenda))
           /\ Reached(agenda) = Reached(Tail(agenda)) \cup {LowerPath(Head(agenda).path)}
           /\ LowerPath(Head(agenda).path) \in Way /\ Len(LowerPath(Head(agenda).path)) >= 1
           /\ \A k \in 1 .. Len(agenda) :
                 agenda[k] = Head(agenda) \/ \E l \in 1 .. Len(Tail(agenda)) : Tail(agenda)[l] = agenda[k]
<1>1. agenda \in Seq(Walked) /\ EachOnce(agenda)
  BY DEF TrInv, FoundFits, PathsApart
<1>2. /\ Head(agenda) \in Walked /\ Tail(agenda) \in Seq(Walked) /\ EachOnce(Tail(agenda))
      /\ LowerPath(Head(agenda).path) \notin Reached(Tail(agenda))
      /\ Reached(agenda) = Reached(Tail(agenda)) \cup {LowerPath(Head(agenda).path)}
  BY <1>1, TakesHead
<1>3. Head(agenda).path \in Way /\ Head(agenda).item \in Nodes
  BY <1>2 DEF Walked
<1>4. LowerPath(Head(agenda).path) \in Way
  BY <1>3, LowerIs
<1>5. Len(LowerPath(Head(agenda).path)) >= 1
  BY <1>2 DEF TrInv, PathsApart, HangsOn
<1>6. \A k \in 1 .. Len(agenda) :
         k = 1 \/ (k - 1 \in 1 .. Len(Tail(agenda)) /\ Tail(agenda)[k - 1] = agenda[k])
  BY <1>1
<1>7. Head(agenda) = agenda[1]
  BY <1>1
<1>8. QED
  BY <1>2, <1>3, <1>4, <1>5, <1>6, <1>7

(* What is left out is told of.                                            *)
LEMMA HeadSkipped ==
    ASSUME TrInv, agenda # <<>>, phase = "planning", NEW s \in Skipping,
           s.item = Head(agenda).item, agenda' = Tail(agenda),
           plan' = [plan EXCEPT !.skipped = @ \cup {s}],
           UNCHANGED <<keyed, members, name, visited, phase, saved, failures>>
    PROVE  TrInv'
<1>1. plan \in [folders : Seq(Way), files : Seq(Walked), skipped : SUBSET Skipping]
  BY DEF TrInv, FoundFits
<1>2. /\ plan'.folders = plan.folders /\ plan'.files = plan.files
      /\ plan'.skipped = plan.skipped \cup {s}
      /\ plan' \in [folders : Seq(Way), files : Seq(Walked), skipped : SUBSET Skipping]
  BY <1>1
<1>3. Reached(Tail(agenda)) \subseteq Reached(agenda)
  BY HeadIs
<1>4. TreeFits'
  BY DEF TrInv, TreeFits
<1>5. FoundFits'
  BY <1>2, HeadIs DEF TrInv, FoundFits
<1>6. PathsApart'
  <2>1. EachOnce(agenda') /\ EachOnce(plan'.files) /\ Reached(agenda') \subseteq Reached(agenda)
    BY <1>2, <1>3, HeadIs DEF TrInv, PathsApart
  <2>2. /\ Reached(agenda) \cap (Reached(plan'.files) \cup LowersOf(plan'.folders)) = {}
        /\ Reached(plan'.files) \cap LowersOf(plan'.folders) = {}
        /\ \A l \in Reached(agenda) \cup Reached(plan'.files) \cup LowersOf(plan'.folders) :
              HangsOn(LowersOf(plan'.folders), l)
    BY <1>2 DEF TrInv, PathsApart
  <2>3. QED
    BY <2>1, <2>2 DEF PathsApart
<1>7. VisitedFits'
  BY <1>2 DEF TrInv, VisitedFits, KeyOf
<1>8. \A f \in TreeFolders : Known(f)' <=> Known(f)
  BY <1>2 DEF Known, KeyOf
<1>9. \A i : Met(i) => Met(i)'
  <2> SUFFICES ASSUME NEW i, Met(i) PROVE Met(i)'
    OBVIOUS
  <2>1. CASE \E k \in 1 .. Len(agenda) : agenda[k].item = i
    BY <1>2, <2>1, HeadIs DEF Met
  <2>2. CASE ~\E k \in 1 .. Len(agenda) : agenda[k].item = i
    BY <1>2, <1>8, <2>2 DEF Met
  <2>3. QED
    BY <2>1, <2>2
<1>10. MembersMet'
  BY <1>8, <1>9 DEF TrInv, MembersMet
<1>11. WritingFits'
  <2>1. (phase = "planning" /\ saved = {} /\ failures = {} /\ Len(plan.files) \in Nat)'
    BY <1>1, <1>2 DEF TrInv, WritingFits
  <2>2. QED
    BY <2>1, NoneHandled, PTL
<1>12. QED
  BY <1>4, <1>5, <1>6, <1>7, <1>10, <1>11 DEF TrInv

(* A folder is listed: what it keeps is to be visited before the rest.     *)
LEMMA FolderListed ==
    ASSUME TrInv, agenda # <<>>, phase = "planning", Head(agenda).item \in TreeFolders,
           NEW left, left \subseteq Skipping,
           \A i \in members[Head(agenda).item] \ ToSet(KeepsName(Head(agenda).item)) :
              \E s \in left : s.item = i,
           keyed \/ Len(Head(agenda).path) <= MaxDepth,
           KeyOf(Head(agenda)) \notin visited, visited' = visited \cup {KeyOf(Head(agenda))},
           plan' = [plan EXCEPT !.folders = Append(@, Head(agenda).path), !.skipped = @ \cup left],
           agenda' = NewVisits(Head(agenda)) \o Tail(agenda),
           UNCHANGED <<keyed, members, name, phase, saved, failures>>
    PROVE  TrInv'
<1> DEFINE v == Head(agenda)
           rest == Tail(agenda)
           low == LowerPath(v.path)
           new == NewVisits(v)
           F == LowersOf(plan.folders)
           R == Reached(rest) \cup Reached(plan.files)
<1>1. plan \in [folders : Seq(Way), files : Seq(Walked), skipped : SUBSET Skipping]
  BY DEF TrInv, FoundFits
<1>2. /\ v \in Walked /\ rest \in Seq(Walked) /\ EachOnce(rest) /\ v.path \in Way /\ v.item \in Nodes
      /\ low \notin Reached(rest) /\ Reached(agenda) = Reached(rest) \cup {low}
      /\ low \in Way /\ Len(low) >= 1
      /\ \A k \in 1 .. Len(agenda) : agenda[k] = v \/ \E l \in 1 .. Len(rest) : rest[l] = agenda[k]
  BY HeadIs
<1>3. /\ new \in Seq(Walked) /\ EachOnce(new)
      /\ \A l \in Reached(new) : \E c \in Letters : l = Append(low, c)
      /\ \A i \in ToSet(KeepsName(v.item)) : \E k \in 1 .. Len(new) : new[k].item = i
  BY <1>2, NewIs DEF TrInv
<1>4. /\ plan'.files = plan.files /\ plan'.folders = Append(plan.folders, v.path)
      /\ plan'.skipped = plan.skipped \cup left
      /\ plan' \in [folders : Seq(Way), files : Seq(Walked), skipped : SUBSET Skipping]
  <2>1. Append(plan.folders, v.path) \in Seq(Way)
    BY <1>1, <1>2
  <2>2. QED
    BY <1>1, <2>1
<1>5. agenda' = new \o rest /\ v.item \in TreeFolders
  OBVIOUS
<1>6. /\ EachOnce(plan.files) /\ (R \cup {low}) \cap F = {} /\ low \notin Reached(plan.files)
      /\ Reached(rest) \cap Reached(plan.files) = {}
      /\ \A l \in R \cup F \cup {low} : HangsOn(F, l)
  BY <1>2 DEF TrInv, PathsApart
<1>7. LowersOf(plan'.folders) = F \cup {low}
  <2> DEFINE fs == plan.folders
             gs == plan'.folders
  <2>1. fs \in Seq(Way)
    BY <1>1
  <2>2. gs = Append(fs, v.path)
    BY <1>4
  <2> HIDE DEF fs, gs
  <2>3. Len(gs) = Len(fs) + 1 /\ Len(fs) \in Nat /\ gs[Len(fs) + 1] = v.path
        /\ \A k \in 1 .. Len(fs) : gs[k] = fs[k]
    BY <1>2, <2>1, <2>2
  <2>4. \A k \in 1 .. Len(gs) : k \in 1 .. Len(fs) \/ k = Len(fs) + 1
    BY <2>3
  <2>5. Len(fs) + 1 \in 1 .. Len(gs) /\ \A k \in 1 .. Len(fs) : k \in 1 .. Len(gs)
    BY <2>3
  <2>6. LowersOf(gs) = LowersOf(fs) \cup {low}
    BY <2>3, <2>4, <2>5 DEF LowersOf
  <2>7. QED
    BY <2>6 DEF fs, gs
<1>8. F \in SUBSET Way
  BY <1>1, LowerIs DEF LowersOf
<1> HIDE DEF v, rest, low, new, F
<1>9. Reached(new) \cap (R \cup F \cup {low}) = {} /\ \A l \in Reached(new) : Len(l) >= 1 /\ Len(l) > 1
  <2> SUFFICES ASSUME NEW l \in Reached(new)
               PROVE  l \notin R \cup F \cup {low} /\ Len(l) >= 1 /\ Len(l) > 1
    OBVIOUS
  <2>1. PICK c \in Letters : l = Append(low, c)
    BY <1>3
  <2>2. Len(l) = Len(low) + 1 /\ Len(l) >= 1 /\ Len(l) > 1
    BY <1>2, <2>1 DEF Way
  <2>3. l # low
    BY <1>2, <2>2 DEF Way
  <2>4. ASSUME l \in R \cup F PROVE FALSE
    <3>1. PICK g \in F, d \in Letters : l = Append(g, d)
      BY <1>6, <2>2, <2>4 DEF HangsOn
    <3>2. g \in Seq(Letters) /\ low \in Seq(Letters) /\ Append(low, c) = Append(g, d)
      BY <1>2, <1>8, <2>1, <3>1 DEF Way
    <3>3. g = low
      BY <3>2, AppendInjective
    <3>4. QED
      BY <1>6, <3>1, <3>3
  <2>5. QED
    BY <2>2, <2>3, <2>4
<1>10. agenda' \in Seq(Walked) /\ EachOnce(agenda') /\ Reached(agenda') = Reached(new) \cup Reached(rest)
  BY <1>2, <1>3, <1>5, <1>9, JoinsApart
<1>11. TreeFits'
  BY DEF TrInv, TreeFits
<1>12. FoundFits'
  BY <1>4, <1>10 DEF TrInv, FoundFits
<1>13. PathsApart'
  <2>1. EachOnce(agenda') /\ EachOnce(plan'.files)
    BY <1>4, <1>6, <1>10
  <2>2. Reached(agenda') \cap (Reached(plan'.files) \cup LowersOf(plan'.folders)) = {}
    BY <1>2, <1>4, <1>6, <1>7, <1>9, <1>10
  <2>3. Reached(plan'.files) \cap LowersOf(plan'.folders) = {}
    BY <1>4, <1>6, <1>7
  <2>4. ASSUME NEW l \in Reached(agenda') \cup Reached(plan'.files) \cup LowersOf(plan'.folders)
        PROVE  HangsOn(LowersOf(plan'.folders), l)
    <3>1. CASE l \in Reached(new)
      <4>1. PICK c \in Letters : l = Append(low, c)
        BY <1>3, <3>1
      <4>2. Len(l) >= 1 /\ low \in LowersOf(plan'.folders)
        BY <1>7, <1>9, <3>1
      <4>3. QED
        BY <4>1, <4>2 DEF HangsOn
    <3>2. CASE l \notin Reached(new)
      <4>1. l \in R \cup F \cup {low}
        BY <1>4, <1>7, <1>10, <2>4, <3>2
      <4>2. HangsOn(F, l) /\ F \subseteq LowersOf(plan'.folders)
        BY <1>6, <1>7, <4>1
      <4>3. QED
        BY <4>2 DEF HangsOn
    <3>3. QED
      BY <3>1, <3>2
  <2>5. QED
    BY <2>1, <2>2, <2>3, <2>4 DEF PathsApart
<1>14. ToSet(plan'.folders) = ToSet(plan.folders) \cup {v.path} /\ Len(plan'.folders) = Len(plan.folders) + 1
       /\ Len(plan.folders) \in Nat
  BY <1>1, <1>2, <1>4, ToSetAppend
<1>15. Visit(v.item, v.path) = v
  BY <1>2 DEF Visit, Walked
<1>16. VisitedFits'
  <2>1. IsFiniteSet(visited') /\ Cardinality(visited') = Len(plan'.folders)
    <3> DEFINE key == KeyOf(v)
    <3>1. IsFiniteSet(visited) /\ Cardinality(visited) = Len(plan.folders)
      BY DEF TrInv, VisitedFits
    <3>2. key \notin visited /\ visited' = visited \cup {key}
      BY DEF v
    <3> HIDE DEF key
    <3>3. IsFiniteSet(visited \cup {key}) /\ Cardinality(visited \cup {key}) = Cardinality(visited) + 1
      BY <3>1, <3>2, FS_AddElement
    <3>4. QED
      BY <1>14, <3>1, <3>2, <3>3
  <2>2. visited' \subseteq {KeyOf(Visit(f, p)) : f \in TreeFolders, p \in ToSet(plan'.folders)}
    BY <1>5, <1>14, <1>15 DEF TrInv, VisitedFits, v
  <2>3. keyed' \/ \A p \in ToSet(plan'.folders) : Len(p) <= MaxDepth
    BY <1>14 DEF TrInv, VisitedFits, v
  <2>4. keyed' = keyed
    OBVIOUS
  <2>5. QED
    BY <2>1, <2>2, <2>3, <2>4 DEF VisitedFits, KeyOf
<1>17. \A w : KeyOf(w)' = KeyOf(w)
  BY DEF KeyOf
<1>18. \A f \in TreeFolders : Known(f) => Known(f)'
  BY <1>14, <1>17 DEF Known
<1>19. \A f : f = v.item => Known(f)'
  <2> SUFFICES ASSUME NEW f, f = v.item PROVE Known(f)'
    OBVIOUS
  <2>1. v.path \in ToSet(plan'.folders) /\ Visit(f, v.path) = v /\ KeyOf(v) \in visited'
    BY <1>14, <1>15 DEF v
  <2>2. KeyOf(Visit(f, v.path)) \in visited'
    BY <2>1
  <2> DEFINE p == v.path
  <2> HIDE DEF p
  <2>3. p \in ToSet(plan'.folders) /\ KeyOf(Visit(f, p)) \in visited'
    BY <2>1, <2>2 DEF p
  <2>4. QED
    BY <2>3 DEF Known, KeyOf
<1>20. \A f \in TreeFolders : Known(f)' => f = v.item \/ Known(f)
  <2> SUFFICES ASSUME NEW f \in TreeFolders, Known(f)', f # v.item PROVE Known(f)
    OBVIOUS
  <2>1. PICK p \in ToSet(plan.folders) \cup {v.path} : KeyOf(Visit(f, p)) \in visited'
    BY <1>14, <1>17 DEF Known
  <2>2. KeyOf(Visit(f, p)) # KeyOf(v)
    <3>1. Visit(f, p).item # v.item
      BY <2>1, VisitIs
    <3>2. QED
      BY <3>1 DEF KeyOf
  <2>3. KeyOf(Visit(f, p)) \in visited
    BY <2>1, <2>2 DEF v
  <2>4. PICK g \in TreeFolders, q \in ToSet(plan.folders) : KeyOf(Visit(f, p)) = KeyOf(Visit(g, q))
    BY <2>3 DEF TrInv, VisitedFits
  <2>5. Visit(f, p).item = Visit(g, q).item
    BY <2>4 DEF KeyOf
  <2>6. f = g
    BY <2>5, VisitIs
  <2>7. QED
    BY <2>3, <2>4, <2>6 DEF Known
<1>21. \A i : Met(i) => Met(i)'
  <2> SUFFICES ASSUME NEW i, Met(i) PROVE Met(i)'
    OBVIOUS
  <2>1. CASE \E k \in 1 .. Len(agenda) : agenda[k].item = i
    <3>1. i = v.item \/ \E l \in 1 .. Len(rest) : rest[l].item = i
      BY <1>2, <2>1
    <3>2. CASE i = v.item
      BY <1>5, <1>19, <3>2 DEF Met
    <3>3. CASE \E l \in 1 .. Len(rest) : rest[l].item = i
      <4>1. PICK l \in 1 .. Len(rest) : rest[l].item = i
        BY <3>3
      <4>2. Len(new) + l \in 1 .. Len(new \o rest) /\ (new \o rest)[Len(new) + l] = rest[l]
        BY <1>2, <1>3, SecondPart
      <4>3. QED
        BY <1>5, <4>1, <4>2, Zenon DEF Met
    <3>4. QED
      BY <3>1, <3>2, <3>3
  <2>2. CASE ~\E k \in 1 .. Len(agenda) : agenda[k].item = i
    BY <1>4, <1>18, <2>2 DEF Met
  <2>3. QED
    BY <2>1, <2>2
<1>22. \A i \in members[v.item] : Met(i)'
  <2> SUFFICES ASSUME NEW i \in members[v.item] PROVE Met(i)'
    OBVIOUS
  <2>1. CASE i \in ToSet(KeepsName(v.item))
    <3>1. PICK k \in 1 .. Len(new) : new[k].item = i
      BY <1>3, <2>1
    <3>2. k \in 1 .. Len(new \o rest) /\ (new \o rest)[k] = new[k]
      BY <1>2, <1>3, FirstPart
    <3>3. QED
      BY <1>5, <3>1, <3>2, Zenon DEF Met
  <2>2. CASE i \notin ToSet(KeepsName(v.item))
    <3>1. \E s \in left : s.item = i
      BY <2>2 DEF v
    <3>2. QED
      BY <1>4, <3>1 DEF Met
  <2>3. QED
    BY <2>1, <2>2
<1>23. MembersMet'
  BY <1>20, <1>21, <1>22 DEF TrInv, MembersMet
<1>24. WritingFits'
  <2>1. (phase = "planning" /\ saved = {} /\ failures = {} /\ Len(plan.files) \in Nat)'
    BY <1>1, <1>4 DEF TrInv, WritingFits
  <2>2. QED
    BY <2>1, NoneHandled, PTL
<1>25. QED
  BY <1>11, <1>12, <1>13, <1>16, <1>23, <1>24 DEF TrInv

(* An item that is left out, with the reason why.                          *)
NotTaken(p, i, why) == [path |-> p, item |-> i, reason |-> why]

LEMMA OutIs ==
    ASSUME NEW p \in Way, NEW i \in Nodes, NEW why \in Reasons
    PROVE  NotTaken(p, i, why) \in Skipping /\ NotTaken(p, i, why).item = i
BY DEF NotTaken, Skipping

(* A file is found.                                                        *)
LEMMA FileFound ==
    ASSUME TrInv, agenda # <<>>, phase = "planning", Head(agenda).item \in TreeFiles,
           agenda' = Tail(agenda), plan' = [plan EXCEPT !.files = Append(@, Head(agenda))],
           UNCHANGED <<keyed, members, name, visited, phase, saved, failures>>
    PROVE  TrInv'
<1> DEFINE v == Head(agenda)
           rest == Tail(agenda)
           low == LowerPath(v.path)
           F == LowersOf(plan.folders)
<1>1. plan \in [folders : Seq(Way), files : Seq(Walked), skipped : SUBSET Skipping]
  BY DEF TrInv, FoundFits
<1>2. /\ v \in Walked /\ rest \in Seq(Walked) /\ EachOnce(rest)
      /\ low \notin Reached(rest) /\ Reached(agenda) = Reached(rest) \cup {low}
      /\ \A k \in 1 .. Len(agenda) : agenda[k] = v \/ \E l \in 1 .. Len(rest) : rest[l] = agenda[k]
  BY HeadIs
<1>3. /\ EachOnce(plan.files) /\ (Reached(rest) \cup {low}) \cap F = {} /\ low \notin Reached(plan.files)
      /\ Reached(rest) \cap Reached(plan.files) = {} /\ Reached(plan.files) \cap F = {}
      /\ \A l \in Reached(rest) \cup Reached(plan.files) \cup F \cup {low} : HangsOn(F, l)
  BY <1>2 DEF TrInv, PathsApart
<1>4. plan.files \in Seq(Walked) /\ \A k \in 1 .. Len(plan.files) : plan.files[k].item \in TreeFiles
  BY <1>1 DEF TrInv, FoundFits
<1> DEFINE files1 == Append(plan.files, v)
<1>5. files1 \in Seq(Walked) /\ EachOnce(files1) /\ Reached(files1) = Reached(plan.files) \cup {low}
  BY <1>2, <1>3, <1>4, AppendsApart
<1>6. /\ plan'.files = files1 /\ plan'.folders = plan.folders /\ plan'.skipped = plan.skipped
      /\ plan' \in [folders : Seq(Way), files : Seq(Walked), skipped : SUBSET Skipping]
  <2> HIDE DEF files1
  <2>1. plan' = [plan EXCEPT !.files = files1]
    BY DEF files1
  <2>2. QED
    BY <1>1, <1>5, <2>1
<1>7. /\ Len(files1) = Len(plan.files) + 1 /\ Len(plan.files) \in Nat /\ files1[Len(plan.files) + 1] = v
      /\ \A k \in 1 .. Len(plan.files) : files1[k] = plan.files[k]
  BY <1>2, <1>4
<1>8. /\ \A k \in 1 .. Len(files1) : k \in 1 .. Len(plan.files) \/ k = Len(plan.files) + 1
      /\ \A k \in 1 .. Len(plan.files) : k \in 1 .. Len(files1)
      /\ Len(plan.files) + 1 \in 1 .. Len(files1)
  BY <1>7
<1>9. v.item \in TreeFiles /\ agenda' = rest
  OBVIOUS
<1> HIDE DEF files1, v, rest, low, F
<1>10. TreeFits'
  BY DEF TrInv, TreeFits
<1>11. \A k \in 1 .. Len(files1) : files1[k].item \in TreeFiles
  BY <1>4, <1>7, <1>8, <1>9
<1>12. FoundFits'
  BY <1>2, <1>6, <1>9, <1>11 DEF FoundFits
<1>13. LowersOf(plan'.folders) = F
  BY <1>6 DEF F
<1>14. PathsApart'
  <2>1. EachOnce(agenda') /\ EachOnce(plan'.files)
    BY <1>2, <1>5, <1>6, <1>9
  <2>2. /\ Reached(agenda') \cap (Reached(plan'.files) \cup LowersOf(plan'.folders)) = {}
        /\ Reached(plan'.files) \cap LowersOf(plan'.folders) = {}
    <3> DEFINE A == Reached(rest)
               B == Reached(plan.files)
    <3>1. low \notin A /\ (A \cup {low}) \cap F = {} /\ low \notin B /\ A \cap B = {} /\ B \cap F = {}
      BY <1>2, <1>3
    <3>2. Reached(agenda') = A /\ Reached(plan'.files) = B \cup {low} /\ LowersOf(plan'.folders) = F
      BY <1>5, <1>6, <1>9, <1>13
    <3> HIDE DEF A, B
    <3>3. A \cap ((B \cup {low}) \cup F) = {} /\ (B \cup {low}) \cap F = {}
      BY <3>1
    <3>4. QED
      BY <3>2, <3>3
  <2>3. \A l \in Reached(agenda') \cup Reached(plan'.files) \cup LowersOf(plan'.folders) :
           HangsOn(LowersOf(plan'.folders), l)
    BY <1>3, <1>5, <1>6, <1>9, <1>13
  <2>4. QED
    BY <2>1, <2>2, <2>3 DEF PathsApart
<1>15. VisitedFits'
  BY <1>6 DEF TrInv, VisitedFits, KeyOf
<1>16. \A f \in TreeFolders : Known(f)' <=> Known(f)
  BY <1>6 DEF Known, KeyOf
<1>17. \A i : Met(i) => Met(i)'
  <2> SUFFICES ASSUME NEW i, Met(i) PROVE Met(i)'
    OBVIOUS
  <2>1. CASE i = v.item
    <3>1. files1[Len(plan.files) + 1].item = i /\ i \in TreeFiles
      BY <1>7, <1>9, <2>1
    <3>2. QED
      BY <1>6, <1>8, <3>1 DEF Met
  <2>2. CASE i # v.item /\ \E k \in 1 .. Len(agenda) : agenda[k].item = i
    <3>1. \E l \in 1 .. Len(rest) : rest[l].item = i
      BY <1>2, <2>2
    <3>2. QED
      BY <1>9, <3>1 DEF Met
  <2>3. CASE i \in TreeFiles /\ \E k \in 1 .. Len(plan.files) : plan.files[k].item = i
    BY <1>6, <1>7, <1>8, <2>3 DEF Met
  <2>4. CASE i \in TreeFolders /\ Known(i)
    BY <1>16, <2>4 DEF Met
  <2>5. CASE \E s \in plan.skipped : s.item = i
    BY <1>6, <2>5 DEF Met
  <2>6. QED
    BY <2>1, <2>2, <2>3, <2>4, <2>5 DEF Met
<1>18. MembersMet'
  BY <1>16, <1>17 DEF TrInv, MembersMet
<1>19. WritingFits'
  <2>1. (phase = "planning" /\ saved = {} /\ failures = {} /\ Len(plan.files) \in Nat)'
    BY <1>6, <1>7 DEF TrInv, WritingFits
  <2>2. QED
    BY <2>1, NoneHandled, PTL
<1>20. QED
  BY <1>10, <1>12, <1>14, <1>15, <1>18, <1>19 DEF TrInv

LEMMA VisitFolderKeeps == TrInv /\ VisitFolder => TrInv'
<1> SUFFICES ASSUME TrInv, VisitFolder PROVE TrInv'
  OBVIOUS
<1> DEFINE v == Head(agenda)
           left == LeavesOut(v.item, v.path) \cup
                      IF v.item \in partly
                      THEN {[path |-> v.path, item |-> v.item, reason |-> "listing-truncated"]}
                      ELSE {}
<1>1. phase = "planning" /\ agenda # <<>> /\ v.item \in TreeFolders
      /\ UNCHANGED <<keyed, members, name, phase, saved, failures>>
  BY DEF VisitFolder
<1>2. v \in Walked /\ v.path \in Way /\ v.item \in Nodes
  BY <1>1, HeadIs
<1>3. \A why \in Reasons : NotTaken(v.path, v.item, why) \in Skipping /\ NotTaken(v.path, v.item, why).item = v.item
  BY <1>2, OutIs
<1>4. CASE ~keyed /\ Len(v.path) > MaxDepth
  <2> DEFINE s == NotTaken(v.path, v.item, "too-deep")
  <2>1. plan' = [plan EXCEPT !.skipped = @ \cup {s}] /\ agenda' = Tail(agenda) /\ UNCHANGED visited
    BY <1>4 DEF VisitFolder, Skips, NotTaken
  <2>2. s \in Skipping /\ s.item = v.item
    BY <1>3 DEF Reasons
  <2> HIDE DEF s
  <2>3. QED
    BY <1>1, <2>1, <2>2, HeadSkipped
<1>5. CASE ~(~keyed /\ Len(v.path) > MaxDepth) /\ KeyOf(v) \in visited
  <2> DEFINE s == NotTaken(v.path, v.item, "already-listed")
  <2>1. plan' = [plan EXCEPT !.skipped = @ \cup {s}] /\ agenda' = Tail(agenda) /\ UNCHANGED visited
    BY <1>5 DEF VisitFolder, Skips, NotTaken
  <2>2. s \in Skipping /\ s.item = v.item
    BY <1>3 DEF Reasons
  <2> HIDE DEF s
  <2>3. QED
    BY <1>1, <2>1, <2>2, HeadSkipped
<1>6. CASE ~(~keyed /\ Len(v.path) > MaxDepth) /\ KeyOf(v) \notin visited
  <2>1. /\ visited' = visited \cup {KeyOf(v)}
        /\ plan' = [plan EXCEPT !.folders = Append(@, v.path), !.skipped = @ \cup left]
        /\ agenda' = NewVisits(v) \o Tail(agenda)
    BY <1>6 DEF VisitFolder, NewVisits
  <2>2. keyed \/ Len(v.path) <= MaxDepth
    <3> DEFINE n == Len(v.path)
    <3>1. n \in Nat /\ MaxDepth \in Nat
      BY <1>2, TrBound DEF Way
    <3> HIDE DEF n
    <3>2. n > MaxDepth \/ n <= MaxDepth
      BY <3>1
    <3>3. QED
      BY <1>6, <3>2 DEF n
  <2>3. left \subseteq Skipping
    <3>1. members[v.item] \subseteq Nodes
      BY <1>1 DEF TrInv, TreeFits
    <3>2. \A i \in members[v.item] : Append(v.path, name[i]) \in Way /\ i \in Nodes
      BY <1>2, <3>1 DEF TrInv, TreeFits, Way
    <3>3. \A s \in LeavesOut(v.item, v.path) : \E i \in members[v.item] :
             \E why \in Reasons : s = NotTaken(Append(v.path, name[i]), i, why)
      <4> TAKE s \in LeavesOut(v.item, v.path)
      <4>1. PICK i \in members[v.item] :
               s = NotTaken(Append(v.path, name[i]), i,
                            IF IsSafe(name[i]) THEN "duplicate-name" ELSE "unsafe-name")
        BY Zenon DEF LeavesOut, NotTaken
      <4> DEFINE why == IF IsSafe(name[i]) THEN "duplicate-name" ELSE "unsafe-name"
      <4>2. why \in Reasons
        BY DEF Reasons
      <4> HIDE DEF why
      <4>3. s = NotTaken(Append(v.path, name[i]), i, why)
        BY <4>1 DEF why
      <4>4. QED
        BY <4>2, <4>3
    <3>4. LeavesOut(v.item, v.path) \subseteq Skipping
      BY <3>2, <3>3, OutIs
    <3>5. [path |-> v.path, item |-> v.item, reason |-> "listing-truncated"] \in Skipping
      BY <1>3 DEF NotTaken, Reasons
    <3>6. QED
      BY <3>4, <3>5
  <2>4. \A i \in members[v.item] \ ToSet(KeepsName(v.item)) : \E s \in left : s.item = i
    <3> TAKE i \in members[v.item] \ ToSet(KeepsName(v.item))
    <3> DEFINE s == [path |-> Append(v.path, name[i]), item |-> i,
                     reason |-> IF IsSafe(name[i]) THEN "duplicate-name" ELSE "unsafe-name"]
    <3>1. s \in LeavesOut(v.item, v.path)
      BY DEF LeavesOut
    <3>2. s \in left /\ s.item = i
      BY <3>1
    <3>3. QED
      BY <3>2
  <2> HIDE DEF left
  <2>5. QED
    BY <1>1, <1>6, <2>1, <2>2, <2>3, <2>4, FolderListed
<1>7. QED
  BY <1>4, <1>5, <1>6

LEMMA VisitLeafKeeps == TrInv /\ VisitLeaf => TrInv'
<1> SUFFICES ASSUME TrInv, VisitLeaf PROVE TrInv'
  OBVIOUS
<1> DEFINE v == Head(agenda)
<1>1. phase = "planning" /\ agenda # <<>> /\ agenda' = Tail(agenda)
      /\ UNCHANGED <<keyed, members, name, visited, phase, saved, failures>>
  BY DEF VisitLeaf
<1>2. CASE v.item \in TreeFiles
  <2>1. plan' = [plan EXCEPT !.files = Append(@, v)]
    BY <1>2 DEF VisitLeaf
  <2>2. QED
    BY <1>1, <1>2, <2>1, FileFound
<1>3. CASE v.item \notin TreeFiles
  <2> DEFINE s == NotTaken(v.path, v.item, "not-a-file")
  <2>1. plan' = [plan EXCEPT !.skipped = @ \cup {s}]
    BY <1>3 DEF VisitLeaf, Skips, NotTaken
  <2>2. s \in Skipping /\ s.item = v.item
    <3>1. v.path \in Way /\ v.item \in Nodes
      BY <1>1, HeadIs
    <3>2. QED
      BY <3>1, OutIs DEF Reasons
  <2> HIDE DEF s
  <2>3. QED
    BY <1>1, <2>1, <2>2, HeadSkipped
<1>4. QED
  BY <1>2, <1>3

(* The other steps find nothing: they may write, fail, or end the whole.   *)
LEMMA RestKeeps ==
    TrInv /\ UNCHANGED <<keyed, members, name, agenda, visited, plan>> /\ WritingFits' => TrInv'
<1> SUFFICES ASSUME TrInv, UNCHANGED <<keyed, members, name, agenda, visited, plan>>, WritingFits'
             PROVE  TrInv'
  OBVIOUS
<1>1. TreeFits' /\ FoundFits'
  BY DEF TrInv, TreeFits, FoundFits
<1>2. PathsApart'
  BY DEF TrInv, PathsApart
<1>3. VisitedFits'
  BY DEF TrInv, VisitedFits, KeyOf
<1>4. \A f : Known(f)' <=> Known(f)
  BY DEF Known, KeyOf
<1>5. \A i : Met(i) => Met(i)'
  BY <1>4 DEF Met
<1>6. MembersMet'
  BY <1>4, <1>5 DEF TrInv, MembersMet
<1>7. QED
  BY <1>1, <1>2, <1>3, <1>6 DEF TrInv

LEMMA CountsAre ==
    TrInv => /\ Cardinality(saved) \in Nat /\ Cardinality(failures) \in Nat /\ Len(plan.files) \in Nat
             /\ Handled \in Nat /\ Left = Len(plan.files) - Handled
             /\ plan.files \in Seq(Walked)
<1> SUFFICES ASSUME TrInv
             PROVE  /\ Cardinality(saved) \in Nat /\ Cardinality(failures) \in Nat
                    /\ Len(plan.files) \in Nat
                    /\ Handled \in Nat /\ Left = Len(plan.files) - Handled
                    /\ plan.files \in Seq(Walked)
  OBVIOUS
<1>1. plan.files \in Seq(Walked)
  BY DEF TrInv, FoundFits
<1>2. Cardinality(saved) \in Nat /\ Cardinality(failures) \in Nat
  BY FS_CardinalityType DEF TrInv, WritingFits
<1>3. Len(plan.files) \in Nat
  BY <1>1
<1> DEFINE s == Cardinality(saved)
           f == Cardinality(failures)
           n == Len(plan.files)
<1>4. Handled = s + f /\ Left = n - s - f /\ s \in Nat /\ f \in Nat /\ n \in Nat
  BY <1>2, <1>3 DEF Handled, Left
<1> HIDE DEF s, f, n
<1>5. Handled \in Nat /\ Left = n - Handled
  BY <1>4
<1>6. QED
  BY <1>1, <1>2, <1>3, <1>5 DEF n

LEMMA ListingFailsKeeps == TrInv /\ ListingFails => TrInv'
<1> SUFFICES ASSUME TrInv, ListingFails PROVE TrInv'
  OBVIOUS
<1>1. /\ UNCHANGED <<keyed, members, name, agenda, visited, plan, saved, failures>>
      /\ phase' \in {"cancelled", "failed"}
  BY DEF ListingFails
<1>2. Handled' = Handled
  BY <1>1 DEF Handled
<1>3. WritingFits'
  BY <1>1, <1>2 DEF TrInv, WritingFits
<1>4. QED
  BY <1>1, <1>3, RestKeeps

LEMMA PlannedKeeps == TrInv /\ Planned => TrInv'
<1> SUFFICES ASSUME TrInv, Planned PROVE TrInv'
  OBVIOUS
<1>1. /\ UNCHANGED <<keyed, members, name, agenda, visited, plan, saved, failures>>
      /\ phase' = "writing" /\ agenda = <<>>
  BY DEF Planned
<1>2. Handled' = Handled
  BY <1>1 DEF Handled
<1>3. WritingFits'
  BY <1>1, <1>2 DEF TrInv, WritingFits
<1>4. QED
  BY <1>1, <1>3, RestKeeps

LEMMA StopsKeeps == TrInv /\ StopsTransfer => TrInv'
<1> SUFFICES ASSUME TrInv, StopsTransfer PROVE TrInv'
  OBVIOUS
<1>1. /\ UNCHANGED <<keyed, members, name, agenda, visited, plan, saved, failures>>
      /\ phase' \in {"cancelled", "failed"}
  BY DEF StopsTransfer
<1>2. Handled' = Handled
  BY <1>1 DEF Handled
<1>3. WritingFits'
  BY <1>1, <1>2 DEF TrInv, WritingFits
<1>4. QED
  BY <1>1, <1>3, RestKeeps

LEMMA FinishesKeeps == TrInv /\ Finishes => TrInv'
<1> SUFFICES ASSUME TrInv, Finishes PROVE TrInv'
  OBVIOUS
<1>1. /\ UNCHANGED <<keyed, members, name, agenda, visited, plan, saved, failures>>
      /\ phase = "writing" /\ phase' = "finished" /\ Left = 0
  BY DEF Finishes
<1>2. Handled' = Handled
  BY <1>1 DEF Handled
<1>3. Handled = Len(plan.files)
  BY <1>1, CountsAre
<1>4. WritingFits'
  BY <1>1, <1>2, <1>3 DEF TrInv, WritingFits
<1>5. QED
  BY <1>1, <1>4, RestKeeps

LEMMA UserCancelsKeeps == TrInv /\ UserCancels => TrInv'
<1> SUFFICES ASSUME TrInv, UserCancels PROVE TrInv'
  OBVIOUS
<1>1. UNCHANGED <<keyed, members, name, agenda, visited, plan, phase, saved, failures>>
  BY DEF UserCancels
<1>2. Handled' = Handled
  BY <1>1 DEF Handled
<1>3. WritingFits'
  BY <1>1, <1>2 DEF TrInv, WritingFits
<1>4. QED
  BY <1>1, <1>3, RestKeeps

(* The next file is none of those written or failed: no path is found      *)
(* twice.                                                                  *)
LEMMA NextIsNew ==
    TrInv /\ Left > 0 =>
        /\ NextFile = plan.files[Handled + 1] /\ NextFile \notin saved \cup failures
        /\ Handled + 1 <= Len(plan.files)
<1> SUFFICES ASSUME TrInv, Left > 0
             PROVE  /\ NextFile = plan.files[Handled + 1] /\ NextFile \notin saved \cup failures
                    /\ Handled + 1 <= Len(plan.files)
  OBVIOUS
<1> DEFINE h == Handled
           n == Len(plan.files)
<1>1. h \in Nat /\ n \in Nat /\ Left = n - h
  BY CountsAre
<1>2. NextFile = plan.files[n - Left + 1]
  BY DEF NextFile
<1>3. saved \cup failures = {plan.files[k] : k \in 1 .. h}
  BY DEF TrInv, WritingFits
<1>4. \A i, j \in 1 .. n : LowerPath(plan.files[i].path) = LowerPath(plan.files[j].path) => i = j
  BY DEF TrInv, PathsApart, EachOnce
<1> HIDE DEF h, n
<1>5. n - Left + 1 = h + 1 /\ h + 1 <= n /\ h + 1 \in 1 .. n
      /\ \A k \in 1 .. h : k \in 1 .. n /\ k # h + 1
  BY <1>1
<1>6. NextFile = plan.files[h + 1]
  BY <1>2, <1>5
<1>7. \A k \in 1 .. h : plan.files[k] # plan.files[h + 1]
  BY <1>4, <1>5
<1>8. NextFile \notin saved \cup failures
  BY <1>3, <1>6, <1>7
<1>9. QED
  BY <1>5, <1>6, <1>8 DEF h, n

LEMMA OneMore ==
    ASSUME NEW h \in Nat
    PROVE  1 .. h + 1 = (1 .. h) \cup {h + 1}
OBVIOUS

LEMMA WritesKeep == TrInv /\ (WriteFile \/ FileFails) => TrInv'
<1> SUFFICES ASSUME TrInv, WriteFile \/ FileFails PROVE TrInv'
  OBVIOUS
<1> DEFINE f == NextFile
           h == Handled
           n == Len(plan.files)
<1>1. /\ UNCHANGED <<keyed, members, name, agenda, visited, plan, phase>>
      /\ phase = "writing" /\ Left > 0
      /\ \/ saved' = saved \cup {f} /\ failures' = failures
         \/ failures' = failures \cup {f} /\ saved' = saved
  BY DEF WriteFile, FileFails
<1>2. f = plan.files[h + 1] /\ f \notin saved /\ f \notin failures /\ h + 1 <= n
  BY <1>1, NextIsNew
<1>3. /\ h \in Nat /\ n \in Nat /\ Cardinality(saved) \in Nat /\ Cardinality(failures) \in Nat
      /\ h = Cardinality(saved) + Cardinality(failures)
  BY CountsAre DEF Handled
<1>4. /\ IsFiniteSet(saved) /\ IsFiniteSet(failures) /\ agenda = <<>>
      /\ saved \cup failures = {plan.files[k] : k \in 1 .. h}
  BY <1>1 DEF TrInv, WritingFits
<1> HIDE DEF f
<1>5. /\ IsFiniteSet(saved \cup {f}) /\ Cardinality(saved \cup {f}) = Cardinality(saved) + 1
      /\ IsFiniteSet(failures \cup {f}) /\ Cardinality(failures \cup {f}) = Cardinality(failures) + 1
  BY <1>2, <1>4, FS_AddElement
<1>6. Handled' = Cardinality(saved') + Cardinality(failures')
  BY DEF Handled
<1> HIDE DEF h, n
<1>7. Handled' = h + 1
  <2>1. CASE saved' = saved \cup {f} /\ failures' = failures
    BY <1>3, <1>5, <1>6, <2>1
  <2>2. CASE failures' = failures \cup {f} /\ saved' = saved
    BY <1>3, <1>5, <1>6, <2>2
  <2>3. QED
    BY <1>1, <2>1, <2>2
<1>8. saved' \cup failures' = (saved \cup failures) \cup {f} /\ IsFiniteSet(saved') /\ IsFiniteSet(failures')
  BY <1>1, <1>4, <1>5
<1>9. {plan.files[k] : k \in 1 .. h + 1} = {plan.files[k] : k \in 1 .. h} \cup {plan.files[h + 1]}
  <2>1. 1 .. h + 1 = (1 .. h) \cup {h + 1}
    BY <1>3, OneMore
  <2>2. QED
    BY <2>1
<1>10. saved' \cup failures' = {plan.files[k] : k \in 1 .. h + 1}
  BY <1>2, <1>4, <1>8, <1>9
<1>11. plan' = plan /\ phase' = "writing" /\ agenda' = <<>>
  BY <1>1, <1>4
<1>12. WritingFits'
  <2>1. saved' \cup failures' = {plan'.files[k] : k \in 1 .. Handled'}
    BY <1>7, <1>10, <1>11
  <2>2. Handled' <= Len(plan'.files)
    BY <1>2, <1>7, <1>11 DEF n
  <2>3. QED
    BY <1>8, <1>11, <2>1, <2>2 DEF WritingFits
<1>13. QED
  BY <1>1, <1>12, RestKeeps

LEMMA TrKept == TrInv /\ [TrNext]_trVars => TrInv'
<1> SUFFICES ASSUME TrInv, [TrNext]_trVars PROVE TrInv'
  OBVIOUS
<1>1. CASE UNCHANGED trVars
  <2>1. UNCHANGED <<keyed, members, name, agenda, visited, plan, phase, saved, failures>>
    BY <1>1 DEF trVars
  <2>2. Handled' = Handled
    BY <2>1 DEF Handled
  <2>3. WritingFits'
    BY <2>1, <2>2 DEF TrInv, WritingFits
  <2>4. QED
    BY <2>1, <2>3, RestKeeps
<1>2. QED
  BY <1>1, VisitFolderKeeps, VisitLeafKeeps, ListingFailsKeeps, PlannedKeeps, WritesKeep,
     StopsKeeps, FinishesKeeps, UserCancelsKeeps DEF TrNext

(* A sequence of different elements has as many as it is long.             *)
LEMMA AsManyAsLong ==
    ASSUME NEW S, NEW q \in Seq(S), \A i, j \in 1 .. Len(q) : q[i] = q[j] => i = j
    PROVE  Cardinality(ToSet(q)) = Len(q)
<1>1. Len(q) \in Nat /\ DOMAIN q = 1 .. Len(q) /\ q \in [1 .. Len(q) -> S]
  OBVIOUS
<1>2. ToSet(q) = {q[k] : k \in 1 .. Len(q)}
  BY <1>1 DEF ToSet
<1> DEFINE n == Len(q)
           T == {q[k] : k \in 1 .. n}
<1>3. q \in [1 .. n -> T] /\ (\A t \in T : \E k \in 1 .. n : q[k] = t)
  BY <1>1
<1>4. q \in Bijection(1 .. n, T)
  BY <1>3 DEF Bijection, Injection, Surjection, IsInjective
<1>5. IsFiniteSet(1 .. n) /\ Cardinality(1 .. n) = n
  BY <1>1, FS_Interval
<1>6. Cardinality(T) = Cardinality(1 .. n)
  BY <1>4, <1>5, FS_Bijection DEF ExistsBijection
<1>7. QED
  BY <1>2, <1>5, <1>6

LEMMA InToSet ==
    ASSUME NEW S, NEW q \in Seq(S), NEW e
    PROVE  e \in ToSet(q) <=> \E k \in 1 .. Len(q) : q[k] = e
BY DEF ToSet

(* Of the folders known by a key each is listed once.                      *)
LEMMA KeysBound ==
    TrInv => (keyed => Len(plan.folders) <= Cardinality(TreeFolders))
<1> SUFFICES ASSUME TrInv, keyed PROVE Len(plan.folders) <= Cardinality(TreeFolders)
  OBVIOUS
<1>1. IsFiniteSet(TreeFolders)
  BY TrBound, FS_Subset DEF Nodes
<1> DEFINE m == [f \in TreeFolders |-> [item |-> f]]
           K == {m[f] : f \in TreeFolders}
<1>2. m \in Surjection(TreeFolders, K)
  BY DEF Surjection
<1>3. IsFiniteSet(K) /\ Cardinality(K) <= Cardinality(TreeFolders)
  <2> HIDE DEF m, K
  <2>1. QED
    BY <1>1, <1>2, FS_Surjection
<1>4. \A f \in TreeFolders, p \in ToSet(plan.folders) : KeyOf(Visit(f, p)) = m[f]
  BY DEF KeyOf, Visit
<1>5. visited \subseteq K
  BY <1>4 DEF TrInv, VisitedFits
<1> HIDE DEF m, K
<1>6. Cardinality(visited) <= Cardinality(K) /\ IsFiniteSet(visited)
  BY <1>3, <1>5, FS_Subset
<1>7. Cardinality(visited) = Len(plan.folders)
  BY DEF TrInv, VisitedFits
<1>8. Cardinality(visited) \in Nat /\ Cardinality(K) \in Nat /\ Cardinality(TreeFolders) \in Nat
  BY <1>1, <1>3, <1>6, FS_CardinalityType
<1>9. QED
  BY <1>3, <1>6, <1>7, <1>8

LEMMA TrShows == TrInv => TrTypeOK /\ OneFilePerPath /\ WalkEnds /\ AllAccounted
<1> SUFFICES ASSUME TrInv PROVE TrTypeOK /\ OneFilePerPath /\ WalkEnds /\ AllAccounted
  OBVIOUS
<1>1. plan.files \in Seq(Walked) /\ plan.folders \in Seq(Way)
  BY DEF TrInv, FoundFits
<1>2. \A v : v \in ToSet(plan.files) <=> \E k \in 1 .. Len(plan.files) : plan.files[k] = v
  BY <1>1, InToSet
<1>3. \A p : p \in ToSet(plan.folders) <=> \E k \in 1 .. Len(plan.folders) : plan.folders[k] = p
  BY <1>1, InToSet
<1>4. TrTypeOK
  BY <1>2 DEF TrInv, FoundFits, VisitedFits, WritingFits, TrTypeOK
<1>5. EachOnce(plan.files) /\ Reached(plan.files) \cap LowersOf(plan.folders) = {}
  BY DEF TrInv, PathsApart
<1>6. Cardinality(ToSet(plan.files)) = Len(plan.files)
  <2>1. \A i, j \in 1 .. Len(plan.files) : plan.files[i] = plan.files[j] => i = j
    BY <1>5 DEF EachOnce
  <2>2. QED
    BY <1>1, <2>1, AsManyAsLong
<1>7. \A v, w \in ToSet(plan.files) : LowerPath(v.path) = LowerPath(w.path) => v = w
  BY <1>2, <1>5 DEF EachOnce
<1>8. \A v \in ToSet(plan.files), p \in ToSet(plan.folders) : LowerPath(v.path) # LowerPath(p)
  <2> TAKE v \in ToSet(plan.files), p \in ToSet(plan.folders)
  <2>1. LowerPath(v.path) \in Reached(plan.files)
    BY <1>2 DEF Reached
  <2>2. LowerPath(p) \in LowersOf(plan.folders)
    BY <1>3 DEF LowersOf
  <2>3. QED
    BY <1>5, <2>1, <2>2
<1>9. OneFilePerPath
  BY <1>6, <1>7, <1>8 DEF OneFilePerPath
<1>10. WalkEnds
  BY KeysBound DEF TrInv, VisitedFits, WalkEnds
<1>11. AllAccounted
  <2> SUFFICES ASSUME phase = "finished", NEW f \in TreeFolders, Known(f), NEW i \in members[f]
               PROVE  \/ i \in TreeFiles /\ \E v \in saved \cup failures : v.item = i
                      \/ i \in TreeFolders /\ Known(i)
                      \/ \E s \in plan.skipped : s.item = i
    BY DEF AllAccounted, Known
  <2>1. Met(i)
    BY DEF TrInv, MembersMet
  <2>2. agenda = <<>> /\ saved \cup failures = {plan.files[k] : k \in 1 .. Len(plan.files)}
    BY DEF TrInv, WritingFits
  <2>3. Len(agenda) = 0
    BY <2>2
  <2>4. ~ \E k \in 1 .. Len(agenda) : agenda[k].item = i
    BY <2>3
  <2>5. QED
    BY <2>1, <2>2, <2>4 DEF Met
<1>12. QED
  BY <1>4, <1>9, <1>10, <1>11

(* What a download writes: no file over another of it, nor over a folder,  *)
(* on a disk that tells no case apart; where the walk knows folders by key *)
(* it lists none twice, else none below the limit, whatever the folders    *)
(* loop back to; and when all is written, what was in a listed folder is   *)
(* written, failed, listed or told of (transfer.ts, planTreeDownload).     *)
THEOREM DownloadsAreWhole ==
    WorkbenchSpec => [](OneFilePerPath /\ WalkEnds /\ AllAccounted)
<1>1. WorkbenchInit => TrInv
  BY TrBegins DEF WorkbenchInit
<1>2. TrInv /\ [WorkbenchNext]_workbenchVars => TrInv'
  BY TrKept, PartsStep
<1>3. TrInv => OneFilePerPath /\ WalkEnds /\ AllAccounted
  BY TrShows
<1>4. QED
  BY <1>1, <1>2, <1>3, PTL DEF WorkbenchSpec
=============================================================================
