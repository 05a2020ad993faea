--------------------------- MODULE ContentCommands ---------------------------
(***************************************************************************)
(* The commands of the SAS Content tree (src/content: contentCommands.ts,  *)
(* contentMove.ts, contentCopy.ts, copy.ts, over adapter.ts): each is a    *)
(* list of requests to the folders and files services, sent one after      *)
(* another, that grows as listings are answered.  A request may be         *)
(* refused, or done without the answer arriving; the user cancels, starts  *)
(* other commands, and the profile changes meanwhile.                      *)
(* Left out: folders of the root listing, which are no members; several    *)
(* items dragged at once, a command each.  A name is a number, 0 the one   *)
(* all items have at first and n that of the n-th copy.                    *)
(***************************************************************************)
EXTENDS Naturals, FiniteSets, SequencesExt

CONSTANTS
    Home,           \* My Folder
    Bin,            \* the Recycle Bin
    FolderIds,      \* folders that are there at the start,
    FileIds,        \*   and files, in the first of them
    FreshIds,       \* items to be made
    Jobs,           \* slots for commands
    MaxName,        \* bound on names
    MaxCommands,    \* bound on the commands started
    Ops,            \* the commands the user may give
    NoItem          \* "undefined"

ASSUME ContentAssumption ==
    /\ MaxName \in Nat \ {0} /\ MaxCommands \in Nat
    /\ IsFiniteSet(FolderIds \cup FileIds \cup FreshIds)
    /\ {Home, Bin, NoItem, "unmade", "unlinked", "gone"}
          \cap (FolderIds \cup FileIds \cup FreshIds) = {}
    /\ {Home, Bin} \cap {NoItem, "unmade", "unlinked", "gone"} = {}
    /\ Ops \subseteq {"newFolder", "newFile", "rename", "drag", "paste", "recycle",
                      "restore", "delete", "empty", "favorite", "unfavorite"}

VARIABLES
    service,        \* the items, as the services have them
    inTree,         \* the items, as the tree last read them
    jobs,           \* the state of each command
    clipboard,      \* what was cut or copied
    started,        \* the number of commands started
    latest,         \* history: what was last cut, copied or cleared
    lost,           \* history: files whose making or removal went unanswered
    pasted          \* history: the copies each command made of its item

contentVars == <<service, inTree, jobs, clipboard, started, latest, lost, pasted>>

-----------------------------------------------------------------------------
(* The services                                                            *)
Items == FolderIds \cup FileIds \cup FreshIds
ItemNames == 0 .. MaxName
Places == FolderIds \cup FreshIds \cup {Home, Bin, "unmade", "unlinked", "gone"}
Service == [place : [Items -> Places], name : [Items -> ItemNames],
            kind : [Items -> {"folder", "file"}],
            before : [Items -> Places \cup {NoItem}],    \* previousParent
            favorites : SUBSET Items]

There(s, i) ==
    i \in {Home, Bin} \/ (i \in Items /\ s.place[i] \notin {"unmade", "unlinked", "gone"})
IsFolder(s, i) == i \in {Home, Bin} \/ s.kind[i] = "folder"
Members(s, f) == {i \in Items : s.place[i] = f}
TakenIn(s, f) == {s.name[i] : i \in Members(s, f)}
Ways(s, n, i) ==    \* the folders n steps above i, or fewer
    LET up[k \in 0 .. n] ==
          IF k = 0 THEN {i}
          ELSE up[k - 1] \cup {s.place[j] : j \in up[k - 1] \cap Items}
    IN up[n]
Under(s, i, f) == f \in Ways(s, 4, i)

(* A member's record is written whole; the bin remembers where it was.     *)
Put(s, i, f, n) ==
    [s EXCEPT !.place[i] = f, !.name[i] = n,
              !.before[i] = IF f = Bin THEN s.place[i] ELSE NoItem]
Make(s, i, f, n, k) ==
    [s EXCEPT !.place[i] = f, !.name[i] = n, !.kind[i] = k]

-----------------------------------------------------------------------------
(* Commands as lists of requests                                           *)
Request == [do : {"type", "check", "folder", "post", "link", "undo", "look", "read",
                  "put", "list", "drop", "tidy", "add", "remove",
                  "siblings", "walk", "root", "relist", "file", "sub"},
            on : Items \cup {Home, Bin, NoItem},
            into : Items \cup {Home, Bin, NoItem}]
Do(do, on, into) == [do |-> do, on |-> on, into |-> into]

IdleJob == [op |-> "idle", item |-> NoItem, into |-> NoItem, name |-> 0,
            todo |-> <<>>, aborted |-> FALSE, read |-> NoItem, made |-> NoItem,
            plan |-> <<>>, again |-> FALSE, untouched |-> FALSE, number |-> 0]

(* deleteItem: a folder's members first, as they are listed.               *)
Deletes(s, i) ==
    IF IsFolder(s, i) THEN <<Do("list", i, NoItem), Do("drop", i, NoItem), Do("tidy", i, NoItem)>>
    ELSE <<Do("drop", i, NoItem), Do("tidy", i, NoItem)>>

CreateFolder(f) == <<Do("check", NoItem, f), Do("folder", NoItem, f)>>
CreateFile(f) == <<Do("type", NoItem, f), Do("check", NoItem, f), Do("post", NoItem, f),
                   Do("link", NoItem, f)>>
RenameItem(i) == <<Do("check", i, inTree.place[i]), Do("read", i, NoItem), Do("put", i, NoItem)>>
MoveItem(i, f) == <<Do("read", i, NoItem), Do("put", i, f)>>
RecycleItem(i) == <<Do("look", Bin, NoItem)>> \o MoveItem(i, Bin)
RestoreItem(i, f) == MoveItem(i, f)
EmptyRecycleBin == <<Do("look", Bin, NoItem), Do("list", Bin, NoItem)>>
AddToFavorites(i) == <<Do("look", NoItem, NoItem), Do("add", i, NoItem)>>
RemoveFromFavorites(i) == <<Do("remove", i, NoItem)>>
CopyItem(i, f) == <<Do("siblings", i, f)>>

Requests(op, i, f) ==
    CASE op = "newFolder" -> CreateFolder(f)
      [] op = "newFile" -> CreateFile(f)
      [] op = "rename" -> RenameItem(i)
      [] op \in {"drag", "cut"} -> MoveItem(i, f)
      [] op = "restore" -> RestoreItem(i, f)
      [] op = "recycle" -> RecycleItem(i)
      [] op = "delete" -> Deletes(inTree, i)
      [] op = "empty" -> EmptyRecycleBin
      [] op = "favorite" -> AddToFavorites(i)
      [] op = "unfavorite" -> RemoveFromFavorites(i)
      [] op = "copy" -> CopyItem(i, f)

(* freeCopyName.                                                           *)
FreeName(taken) ==
    IF ItemNames \subseteq taken THEN MaxName
    ELSE CHOOSE n \in ItemNames \ taken : \A m \in ItemNames \ taken : n <= m

(* fill: the files of a listed folder, then its folders.                   *)
Fills(plan, i, made) ==
    SetToSeq({Do("file", k, made) : k \in {k \in plan[i] : inTree.kind[k] = "file"}})
    \o SetToSeq({Do("sub", k, made) : k \in plan[i] \cap DOMAIN plan})

(* What the next request makes of the services; n is the item it makes.    *)
Effect(s, job, t, n) ==
    CASE t.do = "folder" -> Make(s, n, t.into, job.name, "folder")
      [] t.do = "post" -> Make(s, n, "unlinked", job.name, "file")
      [] t.do = "link" -> Make(s, job.made, t.into, job.name, "file")
      [] t.do = "undo" -> [s EXCEPT !.place[job.made] = "gone"]
      [] t.do = "put" /\ job.op = "rename" -> Put(s, t.on, job.read[1], job.name)
      [] t.do = "put" /\ job.op # "rename" -> Put(s, t.on, t.into, job.read[2])
      [] t.do = "drop" -> [s EXCEPT !.place[t.on] = "gone"]
      [] t.do = "add" -> [s EXCEPT !.favorites = @ \cup {t.on}]
      [] t.do = "remove" -> [s EXCEPT !.favorites = @ \ {t.on}]
      [] t.do = "root" -> Make(s, n, t.into, job.name, s.kind[t.on])
      [] t.do = "file" -> Make(s, n, t.into, s.name[t.on], "file")
      [] t.do = "sub" -> Make(s, n, t.into, s.name[t.on], "folder")
      [] OTHER -> s

Makes(t) == t.do \in {"folder", "post", "root", "file", "sub"}

(* The services refuse what they must: a name that is taken, a folder in   *)
(* itself, what is not there, a folder that holds files.                   *)
Accepts(s, job, t, n) ==
    LET i == t.on  f == t.into  after == Effect(s, job, t, n) IN
    CASE t.do \in {"folder", "root"} -> There(s, f) /\ job.name \notin TakenIn(s, f)
      [] t.do = "link" -> There(s, f) /\ job.name \notin TakenIn(s, f)
      [] t.do = "put" ->
            /\ There(s, i) /\ There(s, after.place[i])
            /\ ~Under(s, after.place[i], i)
            /\ after.place[i] # s.place[i] \/ job.op = "rename"
            /\ \A k \in Members(s, after.place[i]) \ {i} : s.name[k] # after.name[i]
      [] t.do \in {"file", "sub"} -> There(s, f) /\ There(s, i)
      [] t.do = "drop" -> There(s, i) /\ \A k \in Members(s, i) : ~There(s, k)
      [] t.do \in {"read", "list", "walk", "add"} -> There(s, i)
      [] t.do \in {"siblings", "relist"} -> There(s, f)
      [] OTHER -> TRUE

-----------------------------------------------------------------------------
(* How a command goes on                                                   *)
Rest(job) == [job EXCEPT !.todo = Tail(@)]
Now(job, todo) == [job EXCEPT !.todo = todo \o Tail(@)]
StopsJob(job) == [job EXCEPT !.todo = <<>>]

(* checkName has found the name taken.                                     *)
NameTaken(s, job, t) == job.name \in TakenIn(s, t.into)

(* A folder's members have been listed, to be deleted before it.           *)
DeletesMembers(s, job, t) ==
    Now(job, FlattenSeq(SetToSeq({Deletes(s, i) : i \in Members(s, t.on)})))

(* copyItem knows the names beside the copy; a folder is walked through.   *)
PlansCopy(s, job, t) ==
    [Now(job, (IF IsFolder(s, t.on) THEN <<Do("walk", t.on, NoItem)>> ELSE <<>>)
              \o <<Do("root", t.on, t.into)>>)
     EXCEPT !.name = IF s.name[t.on] \in TakenIn(s, t.into)
                     THEN FreeName(TakenIn(s, t.into)) ELSE s.name[t.on]]

(* The members of a folder to be copied; every folder is walked once.      *)
Walks(s, job, t) ==
    [Now(job, SetToSeq({Do("walk", i, NoItem) : i \in
                {i \in Members(s, t.on) : IsFolder(s, i) /\ i \notin DOMAIN job.plan}}))
     EXCEPT !.plan = [i \in DOMAIN @ \cup {t.on} |->
                        IF i = t.on THEN Members(s, i) ELSE @[i]]]

(* The names have been listed again: the next free one is tried.           *)
TriesAgain(s, job, t) ==
    [Now(job, <<Do("root", t.on, t.into)>>)
     EXCEPT !.again = TRUE, !.name = FreeName(TakenIn(s, t.into))]

(* After an answer.                                                        *)
Answer(s, job, t, n) ==
    CASE t.do = "check" /\ NameTaken(s, job, t) -> StopsJob(job)
      [] t.do = "read" -> [Rest(job) EXCEPT !.read = <<s.place[t.on], s.name[t.on]>>]
      [] t.do = "post" -> [Rest(job) EXCEPT !.made = n]
      [] t.do = "list" -> DeletesMembers(s, job, t)
      [] t.do = "siblings" -> PlansCopy(s, job, t)
      [] t.do = "walk" -> Walks(s, job, t)
      [] t.do = "root" /\ DOMAIN job.plan # {} -> Now(job, Fills(job.plan, t.on, n))
      [] t.do = "sub" -> Now(job, Fills(job.plan, t.on, n))
      [] t.do = "relist" /\ NameTaken(s, job, t) -> TriesAgain(s, job, t)
      [] t.do = "undo" \/ (t.do = "relist" /\ ~NameTaken(s, job, t)) -> StopsJob(job)
      [] OTHER -> Rest(job)

(* Fault: whatever went wrong, the copy is tried again.                    *)
MayRetryBlindly(job, refused) == ~job.again

(* place of copy.ts: only a refusal made no copy.                          *)
MayRetry(job, refused) == refused /\ ~job.aborted /\ ~job.again

(* After a failure: what may fail is passed over, a file linked nowhere    *)
(* is removed again, anything else ends the command.                       *)
Failure(job, t, refused) ==
    CASE t.do \in {"type", "check", "tidy"} -> Rest(job)
      [] t.do = "file" /\ ~job.aborted -> Rest(job)
      [] t.do = "link" -> [job EXCEPT !.todo = <<Do("undo", NoItem, NoItem)>>]
      [] t.do = "root" /\ MayRetry(job, refused) ->
            Now(job, <<Do("relist", t.on, t.into)>>)
      [] OTHER -> StopsJob(job)

(* Fault: a failed paste puts its cut back into an empty clipboard.        *)
PutsBackIfEmpty(job) == clipboard = NoItem

(* paste: what was cut is put back after a failure, unless the clipboard   *)
(* was set or cleared since.                                               *)
PutsBack(job) == job.untouched

(* The command goes on as `job', or is over.                               *)
Continues(j, job, failed) ==
    IF job.todo # <<>>
    THEN jobs' = [jobs EXCEPT ![j] = job] /\ UNCHANGED clipboard
    ELSE LET back == job.op = "cut" /\ failed /\ PutsBack(job) IN
         /\ clipboard' = IF back THEN [item |-> job.item, mode |-> "cut"] ELSE clipboard
         /\ jobs' = [k \in Jobs |-> IF k = j THEN IdleJob
                       ELSE [jobs[k] EXCEPT !.untouched = @ /\ ~back]]

(* Fault: every request is sent with the signal.                           *)
SignalledAlways(t) == TRUE

(* The removal of a file that could not be linked is sent without it.      *)
Signalled(t) == t.do # "undo"
Sent(job, t) == job.aborted => ~Signalled(t)

NextRequest(j) == Head(jobs[j].todo)
Unmade ==       \* the item made next, if any may be
    IF \E n \in FreshIds : service.place[n] = "unmade"
    THEN {CHOOSE n \in FreshIds : service.place[n] = "unmade"} ELSE {}

(* A request is done, and answered or not.                                 *)
Done(j, answered) ==
    LET job == jobs[j]  t == NextRequest(j) IN
    /\ job.todo # <<>> /\ Sent(job, t)
    /\ \E n \in IF Makes(t) THEN Unmade ELSE {NoItem} :
          /\ Accepts(service, job, t, n)
          /\ service' = Effect(service, job, t, n)
          /\ pasted' = IF t.do = "root" THEN pasted \cup {<<job.number, n>>} ELSE pasted
          /\ IF answered
             THEN /\ Continues(j, Answer(service, job, t, n),
                               t.do = "check" /\ NameTaken(service, job, t))
                  /\ UNCHANGED lost
             ELSE /\ lost' = lost \cup ({n} \ {NoItem})
                  /\ Continues(j, Failure(job, t, FALSE), TRUE)
    /\ UNCHANGED <<inTree, started, latest>>

Answered(j) == Done(j, TRUE)
Unanswered(j) == Done(j, FALSE)

(* A request is refused, or does not arrive; once the command is cancelled *)
(* one that carries the signal is not even sent.                           *)
NotDone(j) ==
    LET job == jobs[j]  t == NextRequest(j) IN
    /\ job.todo # <<>>
    /\ \E refused \in BOOLEAN :
          /\ Continues(j, Failure(job, t, refused /\ Sent(job, t)), TRUE)
          /\ lost' = IF t.do = "undo" /\ Sent(job, t) THEN lost \cup {job.made} ELSE lost
    /\ UNCHANGED <<service, inTree, started, latest, pasted>>

-----------------------------------------------------------------------------
(* The user                                                                *)
Begins(j, op, i, f, n) ==
    jobs' = [k \in Jobs |->
        IF k = j
        THEN [IdleJob EXCEPT !.op = op, !.item = i, !.into = f, !.name = n,
                             !.todo = Requests(op, i, f), !.untouched = op = "cut",
                             !.number = started + 1]
        ELSE [jobs[k] EXCEPT !.untouched = @ /\ op # "cut"]]

Binned(i) == Under(inTree, i, Bin)
Targets == {f \in FolderIds \cup FreshIds \cup {Home} :
              f = Home \/ (There(inTree, f) /\ IsFolder(inTree, f) /\ ~Binned(f))}
MayMove(i, f) == ~Binned(i) /\ f \in Targets \ {i} /\ inTree.place[i] # f

(* What the tree's menus, prompts and objections let begin; the argument n *)
(* is the name the user gives.                                             *)
CreateChild(i, f) == i = NoItem /\ f \in Targets
Rename(i, f, n) == i # NoItem /\ f = NoItem /\ n # inTree.name[i] /\ ~Binned(i)
Drop(i, f, n) == i # NoItem /\ MayMove(i, f) /\ n = 0
Alone(i, f, n) == i # NoItem /\ f = NoItem /\ n = 0
Recycle(i, f, n) == Alone(i, f, n) /\ ~Binned(i)
Delete(i, f, n) == Alone(i, f, n) /\ Binned(i)
Restore(i, f, n) == i # NoItem /\ inTree.before[i] # NoItem /\ f = inTree.before[i] /\ n = 0
EmptyBin(i, f, n) == i = NoItem /\ f = NoItem /\ n = 0
Favorite(i, f, n) == Alone(i, f, n) /\ ~Binned(i) /\ i \notin inTree.favorites
Unfavorite(i, f, n) == Alone(i, f, n) /\ i \in inTree.favorites

Command(op, i, f, n) ==
    CASE op \in {"newFolder", "newFile"} -> CreateChild(i, f)
      [] op = "rename" -> Rename(i, f, n)
      [] op = "drag" -> Drop(i, f, n)
      [] op = "recycle" -> Recycle(i, f, n)
      [] op = "restore" -> Restore(i, f, n)
      [] op = "delete" -> Delete(i, f, n)
      [] op = "empty" -> EmptyBin(i, f, n)
      [] op = "favorite" -> Favorite(i, f, n)
      [] op = "unfavorite" -> Unfavorite(i, f, n)

(* A command takes the first slot that is free.                            *)
MayBegin(j) ==
    /\ jobs[j].op = "idle" /\ started < MaxCommands
    /\ j = CHOOSE k \in Jobs : jobs[k].op = "idle"

Start(j) ==
    /\ MayBegin(j)
    /\ \E op \in Ops \ {"paste"}, i \in Items \cup {NoItem},
          f \in Items \cup {Home, NoItem}, n \in ItemNames :
          /\ i # NoItem => There(inTree, i)
          /\ Command(op, i, f, n)
          /\ Begins(j, op, i, f, n)
    /\ started' = started + 1
    /\ UNCHANGED <<service, inTree, clipboard, latest, lost, pasted>>

SetsClipboard(entry) ==
    /\ clipboard' = entry
    /\ latest' = entry
    /\ jobs' = [j \in Jobs |-> [jobs[j] EXCEPT !.untouched = FALSE]]
    /\ UNCHANGED <<service, inTree, started, lost, pasted>>

(* Bound: nothing more is taken once the last command has been started.    *)
MayTake(i) == "paste" \in Ops /\ started < MaxCommands /\ There(inTree, i) /\ ~Binned(i)
Cut(i) == MayTake(i) /\ SetsClipboard([item |-> i, mode |-> "cut"])
Copy(i) == MayTake(i) /\ SetsClipboard([item |-> i, mode |-> "copy"])

(* The profile changes, or the user signs out.                             *)
ClearsClipboard == SetsClipboard(NoItem)

Paste(j) ==
    /\ MayBegin(j) /\ clipboard # NoItem
    /\ LET i == clipboard.item IN
       \E f \in Targets :
          /\ ~Binned(i)
          /\ clipboard.mode = "cut" => MayMove(i, f)
          /\ Begins(j, clipboard.mode, i, f, 0)
          /\ clipboard' = IF clipboard.mode = "cut" THEN NoItem ELSE clipboard
    /\ started' = started + 1
    /\ UNCHANGED <<service, inTree, latest, lost, pasted>>

Cancels(j) ==
    /\ jobs[j].op # "idle" /\ ~jobs[j].aborted
    /\ jobs' = [jobs EXCEPT ![j].aborted = TRUE]
    /\ UNCHANGED <<service, inTree, clipboard, started, latest, lost, pasted>>

(* getChildItems for the tree: every command has it read again.            *)
TreeReads ==
    /\ inTree # service
    /\ inTree' = service
    /\ UNCHANGED <<service, jobs, clipboard, started, latest, lost, pasted>>

ContentInit ==
    /\ \E first \in FolderIds : service =
          [place |-> [i \in Items |-> IF i \in FolderIds THEN Home
                                      ELSE IF i \in FileIds THEN first ELSE "unmade"],
           name |-> [i \in Items |-> IF i \in FolderIds \ {first} THEN 1 ELSE 0],
           kind |-> [i \in Items |-> IF i \in FolderIds THEN "folder" ELSE "file"],
           before |-> [i \in Items |-> NoItem], favorites |-> {}]
    /\ inTree = service
    /\ jobs = [j \in Jobs |-> IdleJob]
    /\ clipboard = NoItem /\ latest = NoItem
    /\ started = 0 /\ lost = {} /\ pasted = {}

ContentNext ==
    \/ \E j \in Jobs : Start(j) \/ Paste(j) \/ Answered(j) \/ Unanswered(j)
                       \/ NotDone(j) \/ Cancels(j)
    \/ \E i \in Items : Cut(i) \/ Copy(i)
    \/ ClearsClipboard \/ TreeReads

ContentSpec == ContentInit /\ [][ContentNext]_contentVars
-----------------------------------------------------------------------------
(* Properties                                                              *)

(* Every variable has its type.                                            *)
ContentTypeOK ==
    /\ service \in Service /\ inTree \in Service
    /\ started \in 0 .. MaxCommands
    /\ clipboard = NoItem \/ clipboard \in [item : Items, mode : {"cut", "copy"}]
    /\ \A j \in Jobs : /\ jobs[j].todo \in Seq(Request) /\ jobs[j].name \in ItemNames
                       /\ jobs[j].made \in FreshIds \cup {NoItem}
    /\ lost \subseteq FreshIds

(* A file that is in no folder is one a command is at work on, unless its  *)
(* making or its removal went unanswered: a cancelled command cleans up.   *)
NothingUnlinked ==
    \A i \in Items : service.place[i] = "unlinked" =>
        i \in lost \/ \E j \in Jobs : jobs[j].made = i

(* A paste makes one copy of its item, however often the answers fail to   *)
(* come and whatever else takes the name meanwhile.                        *)
CopiedOnce ==
    \A p, q \in pasted : p[1] = q[1] => p = q

(* The clipboard holds what the user last put there, or nothing: a paste   *)
(* that fails late neither replaces a newer entry nor brings back one that *)
(* was cleared.                                                            *)
ClipboardIsLatest == clipboard \in {NoItem, latest}

(* A cut that comes back to the clipboard is one whose move did not        *)
(* happen.                                                                 *)
BackOnlyUnmoved ==
    [][clipboard = NoItem /\ clipboard' # NoItem /\ latest' = latest
       => service' = service]_contentVars
=============================================================================
