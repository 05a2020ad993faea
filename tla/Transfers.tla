------------------------------ MODULE Transfers ------------------------------
(***************************************************************************)
(* Downloading an item of SAS Content or of the SAS server with all below  *)
(* it (planTreeDownload of content/transfer.ts, downloadItem of            *)
(* contentTransfer.ts): the tree is walked first, into the folders to make *)
(* and the files to fetch, then folder by folder and file by file is       *)
(* written, each of which may fail; the user may cancel.                   *)
(* The tree is any graph: a favourite may point at a folder above it, a    *)
(* symbolic link at any folder.  A name is a letter in either case, or one *)
(* no local file can have.                                                 *)
(***************************************************************************)
EXTENDS Naturals, FiniteSets, SequencesExt

CONSTANTS
    TreeFolders, TreeFiles,     \* the nodes of the tree
    Others,                     \*   and members that are no files
    Top,                        \* the folder that is downloaded
    Shapes, Namings,            \* the trees: members of folders, names of nodes
    MaxDepth                    \* maxDepth of a tree whose folders have no key

ASSUME TransfersAssumption ==
    /\ Top \in TreeFolders
    /\ IsFiniteSet(TreeFolders \cup TreeFiles \cup Others)
    /\ MaxDepth \in Nat \ {0}
    /\ Shapes \subseteq [TreeFolders -> SUBSET (TreeFolders \cup TreeFiles \cup Others)]
    /\ Namings \subseteq [TreeFolders \cup TreeFiles \cup Others -> {"a", "A", "..", "b"}]

VARIABLES
    keyed,          \* whether folderKey knows a folder under any path
    members, name,  \* the tree: a folder's members, and the name of each node
    partly,         \* the folders that are listed in part, as a server's may be
    agenda,         \* what the walk has still to visit, each with its path
    visited,        \* the keys of the folders that have been listed
    plan,           \* the folders, files and left out items found
    phase,          \* how far the download is
    saved,          \* what has been written: the local files
    failures,       \* the files that failed
    cancel          \* whether the user has cancelled

trVars == <<keyed, members, name, partly, agenda, visited, plan, phase, saved,
            failures, cancel>>

Nodes == TreeFolders \cup TreeFiles \cup Others
Lower(n) == IF n = "A" THEN "a" ELSE n
LowerPath(p) == [k \in DOMAIN p |-> Lower(p[k])]

(* isSafeLocalName.                                                        *)
IsSafe(n) == n # ".."

Visit(i, path) == [item |-> i, path |-> path]
Skips(what) == plan' = [plan EXCEPT !.skipped = @ \cup what]

-----------------------------------------------------------------------------
(* planTreeDownload                                                        *)

(* Fault: only the very same name is taken.                                *)
SameNameExactly(m, n) == m = n

(* Two siblings clash if their names differ in case alone.                 *)
SameName(m, n) == Lower(m) = Lower(n)

(* The members of a folder, in the order they are listed.                  *)
Listed(f) == SetToSeq(members[f])

(* The members at some places of a listing, in its order.                  *)
AtPlaces(listed, places) ==
    [n \in 1 .. Cardinality(places) |->
        listed[CHOOSE k \in places : Cardinality({l \in places : l <= k}) = n]]

(* Those whose name is free, and those a name before them has taken.       *)
KeepsName(f) ==
    LET listed == Listed(f) IN
    AtPlaces(listed, {k \in DOMAIN listed :
        /\ IsSafe(name[listed[k]])
        /\ \A l \in 1 .. k - 1 : ~SameName(name[listed[l]], name[listed[k]])})

(* Fault: of two members of one name only one is heard of.                 *)
LeavesOutUnsafe(f, path) ==
    {[path |-> Append(path, name[i]), item |-> i, reason |-> "unsafe-name"] :
        i \in {i \in members[f] : ~IsSafe(name[i])}}

LeavesOut(f, path) ==
    {[path |-> Append(path, name[i]), item |-> i,
      reason |-> IF IsSafe(name[i]) THEN "duplicate-name" ELSE "unsafe-name"] :
        i \in members[f] \ ToSet(KeepsName(f))}

(* Fault: a folder is walked wherever it is met.                           *)
KeyOfNone(v) == v

(* folderKey: what a folder is known by; a server's has only its path.     *)
KeyOf(v) == IF keyed THEN [item |-> v.item] ELSE v

(* A folder is listed, and its members are visited before what remains.    *)
VisitFolder ==
    /\ phase = "planning" /\ agenda # <<>> /\ Head(agenda).item \in TreeFolders
    /\ LET v == Head(agenda) IN
       IF ~keyed /\ Len(v.path) > MaxDepth
       THEN /\ Skips({[path |-> v.path, item |-> v.item, reason |-> "too-deep"]})
            /\ agenda' = Tail(agenda)
            /\ UNCHANGED visited
       ELSE IF KeyOf(v) \in visited
       THEN /\ Skips({[path |-> v.path, item |-> v.item, reason |-> "already-listed"]})
            /\ agenda' = Tail(agenda)
            /\ UNCHANGED visited
       ELSE /\ visited' = visited \cup {KeyOf(v)}
            /\ plan' = [plan EXCEPT
                  !.folders = Append(@, v.path),
                  !.skipped = @ \cup LeavesOut(v.item, v.path) \cup
                      IF v.item \in partly
                      THEN {[path |-> v.path, item |-> v.item, reason |-> "listing-truncated"]}
                      ELSE {}]
            /\ LET kept == KeepsName(v.item) IN
               agenda' = [k \in DOMAIN kept |-> Visit(kept[k], Append(v.path, name[kept[k]]))]
                         \o Tail(agenda)
    /\ UNCHANGED <<keyed, members, name, partly, phase, saved, failures, cancel>>

VisitLeaf ==
    /\ phase = "planning" /\ agenda # <<>> /\ Head(agenda).item \notin TreeFolders
    /\ LET v == Head(agenda) IN
       IF v.item \in TreeFiles
       THEN plan' = [plan EXCEPT !.files = Append(@, v)]
       ELSE Skips({[path |-> v.path, item |-> v.item, reason |-> "not-a-file"]})
    /\ agenda' = Tail(agenda)
    /\ UNCHANGED <<keyed, members, name, partly, visited, phase, saved, failures, cancel>>

(* A listing that fails, or is cancelled, fails the plan.                  *)
ListingFails ==
    /\ phase = "planning" /\ agenda # <<>> /\ Head(agenda).item \in TreeFolders
    /\ phase' = IF cancel THEN "cancelled" ELSE "failed"
    /\ UNCHANGED <<keyed, members, name, partly, agenda, visited, plan, saved,
                   failures, cancel>>

-----------------------------------------------------------------------------
(* downloadItem                                                            *)
Planned ==
    /\ phase = "planning" /\ agenda = <<>>
    /\ phase' = "writing"
    /\ UNCHANGED <<keyed, members, name, partly, agenda, visited, plan, saved,
                   failures, cancel>>

Left == Len(plan.files) - Cardinality(saved) - Cardinality(failures)
NextFile == plan.files[Len(plan.files) - Left + 1]

(* A file is read and written over whatever is at its path, or fails.      *)
WriteFile ==
    /\ phase = "writing" /\ Left > 0 /\ ~cancel
    /\ saved' = saved \cup {NextFile}
    /\ UNCHANGED <<keyed, members, name, partly, agenda, visited, plan, phase,
                   failures, cancel>>

FileFails ==
    /\ phase = "writing" /\ Left > 0 /\ ~cancel
    /\ failures' = failures \cup {NextFile}
    /\ UNCHANGED <<keyed, members, name, partly, agenda, visited, plan, phase,
                   saved, cancel>>

(* Between two files a cancelled download stops; a folder that cannot be   *)
(* made ends it.                                                           *)
StopsTransfer ==
    /\ phase = "writing" /\ Left > 0
    /\ \/ cancel /\ phase' = "cancelled"
       \/ saved = {} /\ failures = {} /\ phase' = "failed"
    /\ UNCHANGED <<keyed, members, name, partly, agenda, visited, plan, saved,
                   failures, cancel>>

Finishes ==
    /\ phase = "writing" /\ Left = 0
    /\ phase' = "finished"
    /\ UNCHANGED <<keyed, members, name, partly, agenda, visited, plan, saved,
                   failures, cancel>>

UserCancels ==
    /\ phase \in {"planning", "writing"} /\ ~cancel
    /\ cancel' = TRUE
    /\ UNCHANGED <<keyed, members, name, partly, agenda, visited, plan, phase,
                   saved, failures>>

TrInit ==
    /\ keyed \in BOOLEAN
    /\ members \in Shapes /\ name \in Namings
    /\ partly \in IF keyed THEN {{}} ELSE {{}, {Top}}
    /\ agenda = <<Visit(Top, <<name[Top]>>)>>
    /\ visited = {}
    /\ plan = [folders |-> <<>>, files |-> <<>>, skipped |-> {}]
    /\ phase = "planning" /\ saved = {} /\ failures = {} /\ cancel = FALSE

TrNext ==
    \/ VisitFolder \/ VisitLeaf \/ ListingFails \/ Planned \/ WriteFile
    \/ FileFails \/ StopsTransfer \/ Finishes \/ UserCancels

TrSpec == TrInit /\ [][TrNext]_trVars
-----------------------------------------------------------------------------
(* Properties                                                              *)

(* The names and paths found are of nodes of the tree.                     *)
TrTypeOK ==
    /\ visited \subseteq {KeyOf(Visit(f, p)) : f \in TreeFolders, p \in ToSet(plan.folders)}
    /\ \A v \in ToSet(plan.files) : v.item \in TreeFiles
    /\ phase \in {"planning", "writing", "cancelled", "failed", "finished"}

(* A file that was written is not overwritten by another of the same       *)
(* download, on a disk that tells no case apart, nor by a folder.          *)
OneFilePerPath ==
    /\ \A v, w \in ToSet(plan.files) : LowerPath(v.path) = LowerPath(w.path) => v = w
    /\ \A v \in ToSet(plan.files), p \in ToSet(plan.folders) : LowerPath(v.path) # LowerPath(p)
    /\ Cardinality(ToSet(plan.files)) = Len(plan.files)

(* The walk ends, whatever the folders loop back to: none is listed twice  *)
(* where it is known by a key, or deeper than the limit.                   *)
WalkEnds ==
    /\ keyed => Len(plan.folders) <= Cardinality(TreeFolders)
    /\ \A p \in ToSet(plan.folders) : keyed \/ Len(p) <= MaxDepth

(* Nothing is left out in silence: when all is written, what is in a       *)
(* folder that was listed was written, failed, listed, or is told of.      *)
AllAccounted ==
    phase = "finished" =>
        \A i \in UNION {members[f] : f \in {f \in TreeFolders :
                          \E p \in ToSet(plan.folders) : KeyOf(Visit(f, p)) \in visited}} :
            \/ i \in TreeFiles /\ \E v \in saved \cup failures : v.item = i
            \/ i \in TreeFolders /\ \E p \in ToSet(plan.folders) : KeyOf(Visit(i, p)) \in visited
            \/ \E s \in plan.skipped : s.item = i
=============================================================================
