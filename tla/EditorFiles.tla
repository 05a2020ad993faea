----------------------------- MODULE EditorFiles -----------------------------
(***************************************************************************)
(* A file of the SAS server or of SAS Content open in editors: the lost-   *)
(* update guard of server/editorFiles.ts and content/contentFileSystem.ts  *)
(* over the adapters' reads and writes.  Each window keeps one tag for the *)
(* file, that of the latest read or save, and a save sends it.  What VS    *)
(* Code does around them, a `stat' before it reads, before it saves and    *)
(* after it has saved, is external.                                        *)
(* A version of the file is a number, which also is its tag.  Left out:    *)
(* folders, sizes over the limit, "Overwrite" after a refused save.        *)
(***************************************************************************)
EXTENDS Naturals

CONSTANTS
    EditorWindows,        \* windows of the editor, each with one for the file
    MaxVersion,     \* bound on the versions of the file
    NoTag,          \* an answer without an ETag
    EfMayMeet       \* what may happen besides: "other reader" (such as
                    \*   Compare with Saved), "same stamp", "untagged"

ASSUME EditorFilesAssumption ==
    /\ MaxVersion \in Nat
    /\ NoTag \notin Nat /\ "another program" \notin EditorWindows
    /\ EfMayMeet \subseteq {"other reader", "same stamp", "untagged"}

VARIABLES
    kind,           \* which of the two services has the file
    disk,           \* the file there: version, time stamp, and who wrote it
    tags,           \* `versions', `opened': the tag each window keeps
    editors,        \* what each editor shows: version, stamp, if modified
    reads,          \* the reads under way, of the editor and of another
    saves           \* the saves under way

efVars == <<kind, disk, tags, editors, reads, saves>>

Readers == {"editor", "other"}
Tags == 0 .. MaxVersion \cup {NoTag}
Anyone == EditorWindows \cup {"another program"}

NoRead == [at |-> "idle", stamp |-> 0, props |-> NoTag, version |-> 0, tag |-> NoTag]
NoSave == [at |-> "idle", tag |-> NoTag, version |-> 0]
Closed == [open |-> FALSE, base |-> 0, stamp |-> 0, modified |-> FALSE]

(* The ETag of an answer, if it carries one.                               *)
Tagged(t) == IF "untagged" \in EfMayMeet THEN {t, NoTag} ELSE {t}

(* A new version of the file.                                              *)
Written(who) ==
    /\ disk.version < MaxVersion
    /\ \E s \in IF "same stamp" \in EfMayMeet THEN {disk.stamp, disk.version + 1}
                ELSE {disk.version + 1} :
          disk' = [version |-> disk.version + 1, stamp |-> s, by |-> who]

-----------------------------------------------------------------------------
(* Reading                                                                 *)
SetsRead(w, r, read) == reads' = [reads EXCEPT ![w][r] = read]

(* VS Code takes the file's stamp and has it read.                         *)
Opens(w, r) ==
    /\ reads[w][r] = NoRead
    /\ IF r = "editor" THEN ~editors[w].modified /\ saves[w] = NoSave
       ELSE "other reader" \in EfMayMeet
    /\ SetsRead(w, r, [NoRead EXCEPT !.at = IF kind = "server" THEN "properties" ELSE "content",
                                  !.stamp = disk.stamp])
    /\ UNCHANGED <<kind, disk, tags, editors, saves>>

(* ServerAdapter.readFile first reads the file's properties.               *)
Properties(w, r) ==
    /\ reads[w][r].at = "properties"
    /\ \E t \in Tagged(disk.version) :
          SetsRead(w, r, [reads[w][r] EXCEPT !.at = "content", !.props = t])
    /\ UNCHANGED <<kind, disk, tags, editors, saves>>

(* The content is served; an answer that has no tag has that of the        *)
(* properties.                                                             *)
Serves(w, r) ==
    /\ reads[w][r].at = "content"
    /\ \E t \in Tagged(disk.version) :
          SetsRead(w, r, [reads[w][r] EXCEPT !.at = "served", !.version = disk.version,
                         !.tag = IF t = NoTag THEN reads[w][r].props ELSE t])
    /\ UNCHANGED <<kind, disk, tags, editors, saves>>

(* The answer arrives: the tag is recorded, the bytes are shown.           *)
ReadAnswered(w, r) ==
    LET read == reads[w][r] IN
    /\ read.at = "served"
    /\ tags' = [tags EXCEPT ![w] = read.tag]
    /\ editors' = IF r = "editor"
                  THEN [editors EXCEPT ![w] = [open |-> TRUE, base |-> read.version,
                                               stamp |-> read.stamp, modified |-> FALSE]]
                  ELSE editors
    /\ SetsRead(w, r, NoRead)
    /\ UNCHANGED <<kind, disk, saves>>

ReadFails(w, r) ==
    /\ reads[w][r] # NoRead
    /\ SetsRead(w, r, NoRead)
    /\ UNCHANGED <<kind, disk, tags, editors, saves>>

-----------------------------------------------------------------------------
(* Saving                                                                  *)
Saves(w, save) == saves' = [saves EXCEPT ![w] = save]

Types(w) ==
    /\ editors[w].open /\ ~editors[w].modified
    /\ reads[w]["editor"] = NoRead
    /\ editors' = [editors EXCEPT ![w].modified = TRUE]
    /\ UNCHANGED <<kind, disk, tags, reads, saves>>

(* VS Code's own check: the stamp is still the one it knows.               *)
BeginSave(w) ==
    /\ saves[w] = NoSave
    /\ editors[w].modified /\ editors[w].stamp = disk.stamp
    /\ Saves(w, [NoSave EXCEPT !.at = "checked"])
    /\ UNCHANGED <<kind, disk, tags, editors, reads>>

(* Fault: the tag is that of the file as it is now.                        *)
SendsTagFresh(w) == disk.version

(* writeFile sends the tag it has kept.                                    *)
SendsTag(w) == tags[w]

(* Without one it refuses to save.                                         *)
Sends(w) ==
    /\ saves[w].at = "checked"
    /\ Saves(w, IF tags[w] = NoTag THEN NoSave
                ELSE [saves[w] EXCEPT !.at = "sent", !.tag = SendsTag(w)])
    /\ UNCHANGED <<kind, disk, tags, editors, reads>>

(* The service takes the bytes if the tag is that of the file.             *)
Lands(w) ==
    /\ saves[w].at = "sent" /\ saves[w].tag = disk.version
    /\ Written(w)
    /\ Saves(w, [saves[w] EXCEPT !.at = "landed", !.version = disk.version + 1])
    /\ UNCHANGED <<kind, tags, editors, reads>>

(* Fault: a save that took the bytes leaves the tag as it was.             *)
KeepsTag(w, t) == tags[w]

(* The tag the next save sends: that of the answer, if it has one.         *)
NextTag(w, t) == t

SaveAnswered(w) ==
    /\ saves[w].at = "landed"
    /\ \E t \in Tagged(saves[w].version) :
          tags' = [tags EXCEPT ![w] = NextTag(w, t)]
    /\ editors' = [editors EXCEPT ![w].base = saves[w].version, ![w].modified = FALSE]
    /\ Saves(w, [saves[w] EXCEPT !.at = "saved"])
    /\ UNCHANGED <<kind, disk, reads>>

(* Refused with 412, or failed, or done without the answer arriving: the   *)
(* tag stays, and the editor is still modified.                            *)
SaveFails(w) ==
    /\ saves[w].at \in {"sent", "landed"}
    /\ Saves(w, NoSave)
    /\ UNCHANGED <<kind, disk, tags, editors, reads>>

(* VS Code takes the stamp of what it saved.                               *)
Stamps(w) ==
    /\ saves[w].at = "saved"
    /\ editors' = [editors EXCEPT ![w].stamp = disk.stamp]
    /\ Saves(w, NoSave)
    /\ UNCHANGED <<kind, disk, tags, reads>>

-----------------------------------------------------------------------------
(* Another program, or another person, changes the file.                   *)
Changes ==
    /\ Written("another program")
    /\ UNCHANGED <<kind, tags, editors, reads, saves>>

EfInit ==
    /\ kind \in {"content", "server"}
    /\ disk = [version |-> 0, stamp |-> 0, by |-> "another program"]
    /\ tags = [w \in EditorWindows |-> NoTag]
    /\ editors = [w \in EditorWindows |-> Closed]
    /\ reads = [w \in EditorWindows |-> [r \in Readers |-> NoRead]]
    /\ saves = [w \in EditorWindows |-> NoSave]

EfNext ==
    \/ \E w \in EditorWindows, r \in Readers :
          Opens(w, r) \/ Properties(w, r) \/ Serves(w, r) \/ ReadAnswered(w, r) \/ ReadFails(w, r)
    \/ \E w \in EditorWindows :
          \/ Types(w) \/ BeginSave(w) \/ Sends(w) \/ Lands(w)
          \/ SaveAnswered(w) \/ SaveFails(w) \/ Stamps(w)
    \/ Changes

EfSpec == EfInit /\ [][EfNext]_efVars
-----------------------------------------------------------------------------
(* Properties                                                              *)

(* Every variable has its type.                                            *)
EfTypeOK ==
    /\ kind \in {"content", "server"}
    /\ disk \in [version : 0 .. MaxVersion, stamp : 0 .. MaxVersion, by : Anyone]
    /\ tags \in [EditorWindows -> Tags]
    /\ editors \in [EditorWindows -> [open : BOOLEAN, base : 0 .. MaxVersion,
                                stamp : 0 .. MaxVersion, modified : BOOLEAN]]
    /\ reads \in [EditorWindows -> [Readers ->
          [at : {"idle", "properties", "content", "served"}, stamp : 0 .. MaxVersion,
           props : Tags, version : 0 .. MaxVersion, tag : Tags]]]
    /\ saves \in [EditorWindows -> [at : {"idle", "checked", "sent", "landed", "saved"},
                              tag : Tags, version : 0 .. MaxVersion]]

(* A save replaces the bytes its editor was showing, or its own: what      *)
(* another wrote since is not overwritten unseen, whatever comes between   *)
(* VS Code's check and the request.                                        *)
NoLostUpdate ==
    [][\A w \in EditorWindows : disk' # disk /\ disk'.by = w
          => disk.version = editors[w].base]_efVars

(* The tag kept for an editor with unsaved changes is that of the bytes    *)
(* they were made to, or none: it is never ahead of them, and a save that  *)
(* was answered does not leave it behind.  (The tag of a server file's     *)
(* properties may be older than its content.)                              *)
TagIsOfShown ==
    \A w \in EditorWindows :
        editors[w].modified /\ saves[w].at \in {"idle", "checked"} =>
            tags[w] \in {NoTag, editors[w].base}
                \/ (kind = "server" /\ "untagged" \in EfMayMeet /\ tags[w] < editors[w].base)
=============================================================================
