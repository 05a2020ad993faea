--------------------------- MODULE EnvironmentStubs ---------------------------
(***************************************************************************)
(* The environment commands of src/run/commands.ts and the Pylance stubs   *)
(* they keep beside the user's code: a probe answers what a deployment has *)
(* installed, and a fresh answer rewrites the stub tree                    *)
(* (src/run/pylanceStubSync.ts), one synchronisation after the other.      *)
(* Pylance reads the tree only as it starts, so a change owes the user a   *)
(* notice.                                                                 *)
(***************************************************************************)
EXTENDS Naturals, Sequences, SequencesExt, FiniteSets

CONSTANTS
  Packages,      \* top-level import names; a package has one
  Bundled,       \* those Pylance resolves itself, and names no import can say
  LocalPackages, \* those installed beside the user's own Python
  EnProfiles,      \* the profiles a command can be for
  StubCommands,
  MaxChanges,    \* changes of the deployment, the workspace and the setting
  Undefined,          \* "undefined"
  EnMayMeet      \* see EnAssumed

\* What the runs may let happen: "fails" - an operation on the tree, the setting
\* or the cache may fail; "meanwhile" - the user may set stubPath while a
\* synchronisation runs.
EnAssumed == {"fails", "meanwhile"}

ASSUME EnAssumption ==
  /\ Bundled \subseteq Packages /\ LocalPackages \subseteq Packages
  /\ MaxChanges \in Nat /\ EnMayMeet \subseteq EnAssumed

VARIABLES
  remote,      \* profile -> what its deployment has installed
  environment, \* profile -> the probed answer, or None
  owned,       \* names the workspace has source of
  tree,        \* directories of the stub tree
  stubPath,    \* "unset", "ours" or "theirs"
  doing,     \* what each command is at
  syncQueue,   \* the commands whose synchronisation is asked for, in order
  owed,        \* what Pylance reads has changed, and nobody was told
  changes
enVars == <<remote, environment, owned, tree, stubPath, doing, syncQueue, owed, changes>>
stubDisk == <<owned, tree, stubPath, owed>>

Idle == [at |-> "idle"]
EnSteps == {"idle", "probes", "waits", "lists", "deletes", "writes", "ignores", "sets", "stores",
            "opens"}
IsDoing(c, s) == doing[c].at = s
StubGoes(c, s) == doing' = [doing EXCEPT ![c].at = s]
InFlight == {c \in StubCommands : ~IsDoing(c, "idle")}

\* The one whose turn it is.
Syncing ==
  {c \in StubCommands : \E s \in {"lists", "deletes", "writes", "ignores", "sets"} : IsDoing(c, s)}

EnInit ==
  /\ remote \in [EnProfiles -> SUBSET Packages]
  /\ environment = [p \in EnProfiles |-> Undefined]
  /\ owned = {} /\ tree = {} /\ stubPath \in {"unset", "theirs"}
  /\ doing = [c \in StubCommands |-> Idle] /\ syncQueue = <<>> /\ owed = FALSE /\ changes = 0

-----------------------------------------------------------------------------
(* ensureProbedEnvironment. *)

\* Show or search, which take a cached answer, and refresh, which does not; a
\* backend at work refuses.
AsksEnvironment(c, p, forceProbe) ==
  /\ IsDoing(c, "idle")
  /\ \A d \in StubCommands : IsDoing(d, "probes") => doing[d].profile # p
  /\ forceProbe \/ environment[p] = Undefined
  /\ doing' = [doing EXCEPT ![c] = [at |-> "probes", profile |-> p, changed |-> FALSE]]
  /\ UNCHANGED <<remote, environment, syncQueue, changes, stubDisk>>

ProbeFails(c) ==
  /\ IsDoing(c, "probes") /\ doing' = [doing EXCEPT ![c] = Idle]
  /\ UNCHANGED <<remote, environment, syncQueue, changes, stubDisk>>

\* Only what is installed there and not here, and shadows nothing here.
selectPackagesToStub(names) == names \ LocalPackages

\* The answer, and the synchronisation it asks for.
Probed(c) ==
  /\ IsDoing(c, "probes")
  /\ doing' = [doing EXCEPT ![c] =
       [at |-> "waits", profile |-> doing[c].profile, changed |-> FALSE,
        answer |-> remote[doing[c].profile],
        packages |-> selectPackagesToStub(remote[doing[c].profile])]]
  /\ syncQueue' = Append(syncQueue, c)
  /\ UNCHANGED <<remote, environment, changes, stubDisk>>

-----------------------------------------------------------------------------
(* syncPylanceStubs. *)

\* Fault: synchronisations run side by side.
MaySyncBesides(c) == TRUE
\* One at a time, in the order they were asked for.
MaySync(c) == Head(syncQueue) = c /\ Syncing = {}

\* Fault: the tree is seen to whatever the setting says.
IgnoresConflict == FALSE
\* The user's own stubPath: nothing is written at all.
Conflict == stubPath = "theirs"

\* The rest of a synchronisation, and of the command behind it.
Synced(c, changed) ==
  /\ doing' = [doing EXCEPT ![c].at = "stores", ![c].changed = changed]
  /\ syncQueue' = SelectSeq(syncQueue, LAMBDA d : d # c)

Decides(c) ==
  /\ IsDoing(c, "waits") /\ MaySync(c)
  /\ IF Conflict THEN Synced(c, FALSE)
     ELSE /\ doing' = [doing EXCEPT ![c] =
               [at |-> "lists", profile |-> @.profile, changed |-> FALSE, answer |-> @.answer,
                packages |-> @.packages, decision |-> IF stubPath = "ours" THEN "already-ours" ELSE "write"]]
          /\ UNCHANGED syncQueue
  /\ UNCHANGED <<remote, environment, changes, stubDisk>>

generateStubTree(names) == names \ Bundled
\* Fault: a name the workspace has source of is stubbed like any other.
StubsShadowing(names) == names
excludeWorkspaceOwnedNames(names) == names \ owned

\* Fault: the notice is about what was deleted alone.
DeletesOnly(desired) == tree \ desired # {}
\* Whether the listing of the tree will have moved.
Moves(desired) == tree \ desired # {} \/ desired \ tree # {}

\* planStubTreeSync: everything desired is written, everything else deleted.
Plans(c) ==
  LET desired == excludeWorkspaceOwnedNames(generateStubTree(doing[c].packages)) IN
  /\ IsDoing(c, "lists")
  /\ doing' = [doing EXCEPT ![c] =
       [at |-> "deletes", profile |-> @.profile, answer |-> @.answer, decision |-> @.decision,
        packages |-> @.packages, desired |-> desired, toDelete |-> tree \ desired, toWrite |-> desired,
        listed |-> owned, changed |-> Moves(desired)]]
  /\ UNCHANGED <<remote, environment, syncQueue, changes, stubDisk>>

\* Pylance reads the tree where the setting names it.
Owes(moved) == owed' = (owed \/ (moved /\ stubPath = "ours"))

DeletesTree(c) ==
  /\ IsDoing(c, "deletes")
  /\ IF doing[c].toDelete = {} THEN StubGoes(c, "writes") /\ UNCHANGED <<tree, owed>>
     ELSE \E n \in doing[c].toDelete :
            /\ doing' = [doing EXCEPT ![c].toDelete = @ \ {n}]
            /\ tree' = tree \ {n} /\ Owes(n \in tree)
  /\ UNCHANGED <<remote, environment, owned, stubPath, syncQueue, changes>>

WritesTree(c) ==
  /\ IsDoing(c, "writes")
  /\ IF doing[c].toWrite = {}
     THEN StubGoes(c, IF doing[c].desired = {} THEN "sets" ELSE "ignores") /\ UNCHANGED <<tree, owed>>
     ELSE \E n \in doing[c].toWrite :
            /\ doing' = [doing EXCEPT ![c].toWrite = @ \ {n}]
            /\ tree' = tree \cup {n} /\ Owes(n \notin tree)
  /\ UNCHANGED <<remote, environment, owned, stubPath, syncQueue, changes>>

\* .pythonOnViya/.gitignore
Ignores(c) ==
  /\ IsDoing(c, "ignores") /\ StubGoes(c, "sets")
  /\ UNCHANGED <<remote, environment, syncQueue, changes, stubDisk>>

\* Fault: packages there were, so there is a tree.
HasPackages(c) == doing[c].packages # {}
WroteSome(c) == doing[c].desired # {}

\* The setting is pointed at the tree where there is one and nothing is set.
Sets(c) ==
  LET sets == WroteSome(c) /\ doing[c].decision = "write" IN
  /\ IsDoing(c, "sets")
  /\ stubPath' = IF sets THEN "ours" ELSE stubPath
  /\ owed' = (owed \/ sets)
  /\ Synced(c, doing[c].changed \/ sets)
  /\ UNCHANGED <<remote, environment, owned, tree, changes>>

\* write-failed: what was written stays, and no notice is due.
SyncFails(c) ==
  /\ IsDoing(c, "lists") \/ ("fails" \in EnMayMeet /\ c \in Syncing)
  /\ Synced(c, FALSE)
  /\ UNCHANGED <<remote, environment, changes, stubDisk>>

-----------------------------------------------------------------------------
(* The rest of the command. *)

StoresAnswer(c) ==
  /\ IsDoing(c, "stores")
  /\ \/ environment' = [environment EXCEPT ![doing[c].profile] = doing[c].answer] /\ StubGoes(c, "opens")
     \/ "fails" \in EnMayMeet /\ UNCHANGED environment /\ doing' = [doing EXCEPT ![c] = Idle]
  /\ UNCHANGED <<remote, syncQueue, changes, stubDisk>>

\* The document is shown, then the notice.
informReloadAdvisable(c) ==
  /\ IsDoing(c, "opens") /\ doing' = [doing EXCEPT ![c] = Idle]
  /\ owed' = (owed /\ ~doing[c].changed)
  /\ UNCHANGED <<remote, environment, owned, tree, stubPath, syncQueue, changes>>

\* The user takes the remedy, or restarts for reasons of his own: only the
\* language server; a reload of the window begins every variable anew.
Restarts ==
  /\ owed /\ owed' = FALSE
  /\ UNCHANGED <<remote, environment, owned, tree, stubPath, doing, syncQueue, changes>>

\* The deployment, the workspace and the setting change by other hands.
EnvironmentChanges ==
  /\ changes < MaxChanges /\ changes' = changes + 1
  /\ \/ \E p \in EnProfiles, names \in SUBSET Packages :
          remote' = [remote EXCEPT ![p] = names] /\ UNCHANGED <<owned, stubPath>>
     \/ \E n \in Packages \ owned : owned' = owned \cup {n} /\ UNCHANGED <<remote, stubPath>>
     \/ /\ "meanwhile" \in EnMayMeet \/ Syncing = {}
        /\ \E s \in {"unset", "theirs"} : stubPath' = s /\ UNCHANGED <<remote, owned>>
  /\ UNCHANGED <<environment, tree, doing, syncQueue, owed>>

EnNext ==
  \/ \E c \in StubCommands, p \in EnProfiles, forceProbe \in BOOLEAN : AsksEnvironment(c, p, forceProbe)
  \/ \E c \in StubCommands :
       \/ ProbeFails(c) \/ Probed(c) \/ Decides(c) \/ Plans(c) \/ DeletesTree(c) \/ WritesTree(c)
       \/ Ignores(c) \/ Sets(c) \/ SyncFails(c) \/ StoresAnswer(c) \/ informReloadAdvisable(c)
  \/ Restarts \/ EnvironmentChanges

EnSpec == EnInit /\ [][EnNext]_enVars

-----------------------------------------------------------------------------
\* The shape of the state.
EnTypeOK ==
  /\ remote \in [EnProfiles -> SUBSET Packages] /\ owned \subseteq Packages
  /\ environment \in [EnProfiles -> {Undefined} \cup SUBSET Packages]
  /\ tree \subseteq Packages /\ stubPath \in {"unset", "ours", "theirs"}
  /\ \A c \in StubCommands : doing[c].at \in EnSteps
  /\ owed \in BOOLEAN /\ changes \in 0 .. MaxChanges

\* pylanceStubSync.ts: as a synchronisation ends, the tree holds a stub of each
\* package it was asked for and no other, whichever commands overlapped, and
\* none of them shadows a name that is local, bundled, or the workspace's own
\* when the synchronisation listed it.
SyncedIsWhole ==
  \A c \in StubCommands : IsDoing(c, "sets")
    => /\ tree = doing[c].desired
       /\ tree \cap (Bundled \cup LocalPackages \cup doing[c].listed) = {}

\* commands.ts, informReloadAdvisable, and stubGenerator.ts, changed: once no
\* command is at work, the user was told of every change of what Pylance reads.
NoticeIsGiven == InFlight = {} => ~owed

\* pylanceStubSync.ts, "decide before writing anything": while stubPath is the
\* user's own nothing is written or deleted, it is not overwritten, and it is
\* pointed only at a tree that is there.
TheirsIsLeft ==
  [][/\ stubPath = "theirs" => tree' = tree /\ stubPath' # "ours"
     /\ stubPath' # stubPath /\ stubPath' = "ours" => tree # {}]_enVars
=============================================================================
