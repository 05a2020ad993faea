----------------------------- MODULE ProfileStore -----------------------------
(***************************************************************************)
(* The connection profiles of src/profile: the setting that holds them,    *)
(* the secrets and the list of clients without one that are kept beside    *)
(* it, the profile each window points at, and the commands that change     *)
(* them (add, edit, delete, switch, import, and sign-in's question for a   *)
(* secret).                                                                *)
(*                                                                         *)
(* A write replaces the whole setting by what was read when it began, so   *)
(* a write is two steps: Writes, which reads, and Lands.  A profile's      *)
(* endpoint, context and session setup are its `setup`; a secret is known  *)
(* by the client it was issued for.                                        *)
(***************************************************************************)
EXTENDS Naturals, FiniteSets

CONSTANTS
  Names, NoName,      \* profile names
  Uuids,              \* ids the commands give; one written by hand has its name
  Clients, NoClient,  \* OAuth clients
  Windows,            \* windows with a workspace of their own
  DefaultProfile,     \* the setting pythonOnViya.defaultProfile, or NoName
  None,               \* "undefined"
  MaxProfileCommands,        \* commands begun in all
  MaxEdits,           \* edits by hand
  PsMayMeet           \* see Assumed

\* What the runs may let happen: "rejected" - the setting may hold a
\* profile that cannot be read; "meanwhile" - the setting may change while
\* a write of it is out; "fails" - a write may be refused when the secret
\* is changed already; "one name" - two commands may be at work on one
\* profile, or a name be taken while a prompt for it is open; "old name" -
\* a profile may be written by hand under the name another one had when it
\* got its id.
Assumed == {"rejected", "meanwhile", "fails", "one name", "old name"}

ASSUME PsAssumption ==
  /\ Names # {} /\ IsFiniteSet(Names) /\ NoName \notin Names /\ Names \cap Uuids = {}
  /\ NoClient \notin Clients /\ DefaultProfile \in Names \cup {NoName}
  /\ MaxProfileCommands \in Nat /\ MaxEdits \in Nat /\ PsMayMeet \subseteq Assumed

Ids == Names \cup Uuids
ViyaProfile == [id : Ids, client : Clients \cup {NoClient}, setup : 0 .. MaxEdits, reads : BOOLEAN]

VARIABLES
  settings,    \* name -> profile or None: pythonOnViya.connectionProfiles
  secret,      \* id -> the client whose secret is stored, or NoClient
  secretless,  \* ids whose client is recorded as having none
  choice,      \* window -> the name it points at, or NoName
  command,     \* window -> the command it runs, or None
  began, edits \* how many commands and edits by hand there were
psVars == <<settings, secret, secretless, choice, command, began, edits>>

Readable(s) == {n \in Names : s[n] # None /\ s[n].reads}
Profiles(s) == [n \in Names |-> IF n \in Readable(s) THEN s[n] ELSE None]
HasId(s, i) == \E n \in Names : s[n] # None /\ s[n].id = i

ActiveName(w) ==
  IF choice[w] \in Readable(settings) THEN choice[w]
  ELSE IF DefaultProfile \in Readable(settings) THEN DefaultProfile
  ELSE IF Cardinality(Readable(settings)) = 1 THEN CHOOSE n \in Readable(settings) : TRUE
  ELSE NoName

\* A command: `name` is the profile it was begun on, `to` the one it writes,
\* `pointed` whether its window pointed at `name` then.
PsOps == {"add", "import", "edit", "delete", "switch", "ask"}
PsSteps == {"asks", "secret", "secret2", "renames", "upserts", "removes", "points"}
Wishes == {"keep", "set", "none", "forget"}   \* what becomes of the secret
PsCommand ==
  [op : PsOps, at : PsSteps, name : Names \cup {NoName}, to : Names \cup {NoName},
   taken : SUBSET Names, profile : ViyaProfile \cup {None}, want : Wishes,
   out : [Names -> ViyaProfile \cup {None}] \cup {None}, pointed : BOOLEAN]

\* "undefined" is no object.
ASSUME NoneIsNoObject == None \notin ViyaProfile /\ None \notin PsCommand

RunningWindows == {w \in Windows : command[w] # None}
About(c) == {c.name, c.to} \ {NoName}
Busy(ns) == \E w \in RunningWindows : About(command[w]) \cap ns # {}
WorksAlone(w, ns) == "one name" \in PsMayMeet
  \/ \A v \in RunningWindows \ {w} : About(command[v]) \cap ns = {}
Out == {w \in RunningWindows : command[w].out # None}
Calm == "meanwhile" \in PsMayMeet \/ Out = {}

Fresh == {i \in Uuids : /\ ~HasId(settings, i) /\ secret[i] = NoClient /\ i \notin secretless
                        /\ \A w \in RunningWindows : command[w].profile = None \/ command[w].profile.id # i}

PsInit ==
  /\ settings \in {s \in [Names -> {None} \cup
                       [id : Uuids, client : Clients \cup {NoClient}, setup : {0}, reads : {TRUE}]] :
                     /\ Cardinality(Readable(s)) <= 1
                     /\ \A n \in Readable(s) : s[n].id = CHOOSE i \in Uuids : TRUE}
  /\ secret = [i \in Ids |-> IF HasId(settings, i)
                             THEN settings[CHOOSE n \in Readable(settings) : TRUE].client
                             ELSE NoClient]
  /\ secretless = {} /\ choice = [w \in Windows |-> NoName]
  /\ command = [w \in Windows |-> None] /\ began = 0 /\ edits = 0

-----------------------------------------------------------------------------
(* The commands up to the last answer. *)

CommandGoes(w, at) == command' = [command EXCEPT ![w].at = at]
EndsCommand(w) == command' = [command EXCEPT ![w] = None]

\* What the list, or the store, shows as the command begins.
Begin(w, op, n) ==
  /\ command[w] = None /\ began < MaxProfileCommands /\ began' = began + 1
  /\ op \in {"edit", "delete", "ask"} => n \in Readable(settings) /\ WorksAlone(w, {n})
  /\ op \in {"add", "import", "switch"} => n = NoName
  /\ op = "ask" => /\ n = ActiveName(w) /\ settings[n].client # NoClient
                   /\ secret[settings[n].id] = NoClient /\ settings[n].id \notin secretless
  /\ command' = [command EXCEPT ![w] =
       [op |-> op, at |-> "asks", name |-> n, to |-> NoName, taken |-> Readable(settings),
        profile |-> IF n = NoName THEN None ELSE settings[n],
        want |-> "keep", out |-> None, pointed |-> n # NoName /\ choice[w] = n]]
  /\ UNCHANGED <<settings, secret, secretless, choice, edits>>

DismissesPrompt(w) ==
  /\ w \in RunningWindows /\ command[w].at = "asks"
  /\ EndsCommand(w) /\ UNCHANGED <<settings, secret, secretless, choice, began, edits>>

\* A name that is free, or the one it has; names are compared as the prompt
\* knew them when it opened.
validateProfileName(c, n) ==
  /\ n \notin c.taken \ {c.name}
  /\ "one name" \in PsMayMeet \/ n = c.name \/ n \notin Readable(settings)

\* Fault: an empty box keeps what is stored, whichever client is meant.
KeepsStored(c, client, typed) == IF typed THEN "set" ELSE IF c.op = "edit" THEN "keep" ELSE "none"
\* Fault: no client, nothing to ask, nothing to clear.
WantsNothing(c, client, typed) ==
  IF client = NoClient THEN "keep"
  ELSE IF typed THEN "set"
  ELSE IF c.op = "edit" /\ client = c.profile.client THEN "keep" ELSE "none"
\* What becomes of the secret once the form is filled in.
Wants(c, client, typed) ==
  CASE client = NoClient -> IF c.op = "edit" THEN "forget" ELSE "keep"
    [] client # NoClient /\ typed -> "set"
    [] OTHER -> IF c.op = "edit" /\ client = c.profile.client THEN "keep" ELSE "none"

\* Where the secret has been seen to, the names come.
Next1(c) == CASE c.op = "ask" -> "ends" [] c.op = "edit" /\ c.to # c.name -> "renames"
              [] c.op = "delete" -> "points" [] OTHER -> "upserts"

Filled(w, n, client, typed) ==
  LET c == command[w]
      profile == IF c.op = "edit" THEN [c.profile EXCEPT !.client = client]
                 ELSE [id |-> CHOOSE i \in Fresh : TRUE, client |-> client, setup |-> 0, reads |-> TRUE]
      asked == [c EXCEPT !.to = n, !.profile = profile, !.want = Wants(c, client, typed)]
  IN /\ w \in RunningWindows /\ c.at = "asks" /\ c.op \in {"add", "edit"}
     /\ c.op = "add" => Fresh # {}
     /\ validateProfileName(c, n) /\ WorksAlone(w, {n}) /\ (client = NoClient => ~typed)
     /\ command' = [command EXCEPT ![w] =
          [asked EXCEPT !.at = IF asked.want = "keep" THEN Next1(asked) ELSE "secret"]]
     /\ UNCHANGED <<settings, secret, secretless, choice, began, edits>>

\* What the scan of the SAS extension's profiles offers: names nothing has.
Offered(c) == {n \in Names : validateProfileName(c, n)}

\* One of them is taken; its secret is not copied.
Imports(w, n, client) ==
  /\ w \in RunningWindows /\ command[w].at = "asks" /\ command[w].op = "import"
  /\ n \in Offered(command[w]) /\ WorksAlone(w, {n}) /\ Fresh # {}
  /\ command' = [command EXCEPT ![w].to = n, ![w].at = "upserts",
       ![w].profile = [id |-> CHOOSE i \in Fresh : TRUE, client |-> client, setup |-> 0, reads |-> TRUE]]
  /\ UNCHANGED <<settings, secret, secretless, choice, began, edits>>

Confirms(w) ==
  /\ w \in RunningWindows /\ command[w].at = "asks" /\ command[w].op = "delete"
  /\ CommandGoes(w, "removes")
  /\ UNCHANGED <<settings, secret, secretless, choice, began, edits>>

\* Sign-in asks for the secret of the active profile's client, which may have none.
TypesSecret(w, typed) ==
  /\ w \in RunningWindows /\ command[w].at = "asks" /\ command[w].op = "ask"
  /\ command' = [command EXCEPT ![w].at = "secret", ![w].want = IF typed THEN "set" ELSE "none"]
  /\ UNCHANGED <<settings, secret, secretless, choice, began, edits>>

Switches(w, n) ==
  /\ w \in RunningWindows /\ command[w].at = "asks" /\ command[w].op = "switch"
  /\ n \in command[w].taken \/ (n = NoName /\ DefaultProfile \in command[w].taken)
  /\ choice' = [choice EXCEPT ![w] = n] /\ EndsCommand(w)
  /\ UNCHANGED <<settings, secret, secretless, began, edits>>

-----------------------------------------------------------------------------
(* setSecret and clearSecret: two stores, two awaits. *)

\* Fault: the new answer is recorded before the old one is withdrawn.
FirstOfStore(want) ==
  CASE want = "none" -> "lists" [] want = "set" -> "stores" [] OTHER -> "unlists"
FirstSecretStep(want) == IF want = "none" THEN "deletes" ELSE "unlists"
Second(want) == CASE want = "none" -> "lists" [] want = "set" -> "stores" [] OTHER -> "deletes"

Does(what, p) ==
  /\ secret' = CASE what = "stores" -> [secret EXCEPT ![p.id] = p.client]
                 [] what = "deletes" -> [secret EXCEPT ![p.id] = NoClient]
                 [] OTHER -> secret
  /\ secretless' = CASE what = "lists" -> secretless \cup {p.id}
                     [] what = "unlists" -> secretless \ {p.id}
                     [] OTHER -> secretless

FirstHalf(w) ==
  /\ w \in RunningWindows /\ command[w].at = "secret"
  /\ Does(FirstSecretStep(command[w].want), command[w].profile) /\ CommandGoes(w, "secret2")
  /\ UNCHANGED <<settings, choice, began, edits>>

SecondHalf(w) ==
  /\ w \in RunningWindows /\ command[w].at = "secret2"
  /\ Does(Second(command[w].want), command[w].profile)
  /\ IF Next1(command[w]) = "ends" THEN EndsCommand(w) ELSE CommandGoes(w, Next1(command[w]))
  /\ UNCHANGED <<settings, choice, began, edits>>

-----------------------------------------------------------------------------
(* upsert, rename and remove: read everything, write everything. *)

\* Fault: what the command read when it began is written back.
AsRead(s, c) == [n \in Names |-> IF n \in c.taken \cup About(c) THEN s[n] ELSE None]
\* What goes back beside the command's own profile.
Kept(s, c) == Profiles(s)

Rewritten(s, c) ==
  CASE c.at = "upserts" -> [Kept(s, c) EXCEPT ![c.to] = c.profile]
    [] c.at = "renames" -> [Kept(s, c) EXCEPT ![c.to] = s[c.name], ![c.name] = None]
    [] c.at = "removes" -> [Kept(s, c) EXCEPT ![c.name] = None]

\* A profile that is gone is neither renamed nor removed.
WritesSettings(w) ==
  LET c == command[w] IN
  /\ w \in RunningWindows /\ c.at \in {"upserts", "renames", "removes"} /\ c.out = None /\ Calm
  /\ IF c.at = "upserts" \/ c.name \in Readable(settings)
     THEN command' = [command EXCEPT ![w].out = Rewritten(settings, c),
                                     ![w].profile = IF c.at = "removes" THEN settings[c.name] ELSE @]
     ELSE IF c.at = "renames" THEN CommandGoes(w, "upserts") ELSE EndsCommand(w)
  /\ UNCHANGED <<settings, secret, secretless, choice, began, edits>>

\* The first profile there is becomes the window's.
WriteLands(w) ==
  LET c == command[w] IN
  /\ w \in Out /\ settings' = c.out
  /\ CASE c.at = "removes" -> command' = [command EXCEPT ![w].out = None, ![w].at = "secret",
                                                         ![w].want = "forget"]
       [] c.at = "renames" -> command' = [command EXCEPT ![w].out = None, ![w].at = "points"]
       [] OTHER -> IF c.op # "edit" /\ Cardinality(Readable(c.out)) = 1
                   THEN command' = [command EXCEPT ![w].out = None, ![w].at = "points"]
                   ELSE EndsCommand(w)
  /\ UNCHANGED <<secret, secretless, choice, began, edits>>

Refused(w) ==
  /\ w \in Out /\ ("fails" \in PsMayMeet \/ command[w].want = "keep")
  /\ EndsCommand(w) /\ UNCHANGED <<settings, secret, secretless, choice, began, edits>>

\* Fault: the window goes on pointing at the name that is gone.
PointsAsBefore(w, c) == choice[w]
\* A window that pointed at the old name follows it; one whose profile is
\* deleted points at none.
PointsAt(w, c) ==
  IF c.op \in {"add", "import"} THEN c.to
  ELSE IF choice[w] # c.name THEN choice[w]
  ELSE IF c.op = "edit" THEN c.to ELSE NoName

Points(w) ==
  /\ w \in RunningWindows /\ command[w].at = "points"
  /\ choice' = [choice EXCEPT ![w] = PointsAt(w, command[w])]
  /\ IF command[w].op = "edit" THEN CommandGoes(w, "upserts") ELSE EndsCommand(w)
  /\ UNCHANGED <<settings, secret, secretless, began, edits>>

-----------------------------------------------------------------------------
(* settings.json is the user's to edit. *)

ByHand(n) ==
  /\ edits < MaxEdits /\ edits' = edits + 1 /\ Calm
  /\ "one name" \in PsMayMeet \/ ~Busy({n})
  /\ \E reads \in {TRUE} \cup (IF "rejected" \in PsMayMeet THEN {FALSE} ELSE {}) :
       IF settings[n] # None
       THEN settings' = [settings EXCEPT ![n].setup = edits', ![n].reads = reads]
       ELSE /\ "old name" \in PsMayMeet \/ (~HasId(settings, n) /\ secret[n] = NoClient
                                         /\ n \notin secretless)
            /\ \E client \in Clients \cup {NoClient} :
                 settings' = [settings EXCEPT ![n] =
                   [id |-> n, client |-> client, setup |-> edits', reads |-> reads]]
  /\ UNCHANGED <<secret, secretless, choice, command, began>>

PsNext ==
  \/ \E w \in Windows, op \in PsOps, n \in Names \cup {NoName} : Begin(w, op, n)
  \/ \E w \in Windows, n \in Names, client \in Clients \cup {NoClient} :
       \/ \E typed \in BOOLEAN : Filled(w, n, client, typed)
       \/ Imports(w, n, client)
  \/ \E w \in Windows : DismissesPrompt(w) \/ Confirms(w) \/ FirstHalf(w) \/ SecondHalf(w)
                        \/ WritesSettings(w) \/ WriteLands(w) \/ Refused(w) \/ Points(w)
  \/ \E w \in Windows, typed \in BOOLEAN : TypesSecret(w, typed)
  \/ \E w \in Windows, n \in Names \cup {NoName} : Switches(w, n)
  \/ \E n \in Names : ByHand(n)

PsSpec == PsInit /\ [][PsNext]_psVars

-----------------------------------------------------------------------------
\* The shape of the state.
PsTypeOK ==
  /\ settings \in [Names -> ViyaProfile \cup {None}]
  /\ secret \in [Ids -> Clients \cup {NoClient}] /\ secretless \subseteq Ids
  /\ choice \in [Windows -> Names \cup {NoName}]
  /\ command \in [Windows -> PsCommand \cup {None}]
  /\ began \in 0 .. MaxProfileCommands /\ edits \in 0 .. MaxEdits

InHand(i) == \E w \in RunningWindows : command[w].profile # None /\ command[w].profile.id = i

\* profile/commands.ts, editProfile and store.ts, setSecret: once nothing is at
\* work on a profile, the secret kept for it is its client's, no secret is kept
\* for a profile there is none of, and at no moment, a crash's included, is a
\* client with a stored secret recorded as having none.
SecretsFit ==
  /\ \A n \in Names : settings[n] # None /\ ~InHand(settings[n].id)
       => secret[settings[n].id] \in {NoClient, settings[n].client}
  /\ \A i \in Ids : secret[i] # NoClient => InHand(i) \/ HasId(settings, i)
  /\ \A i \in secretless : secret[i] = NoClient

\* store.ts, upsert, rename and remove: a command changes no profile but its
\* own, whatever happened to the others while its prompts were open.
OthersSurvive ==
  [][\A n \in Readable(settings) :
       settings'[n] # settings[n] => edits' # edits \/ (\E w \in Out : n \in About(command[w]))]_psVars

\* store.ts, rename: a window that pointed at the profile it renames points at
\* it still when the command is done.
RenameIsFollowed ==
  [][\A w \in RunningWindows : command'[w] = None /\ command[w].op = "edit" /\ command[w].at = "upserts"
       => ~command[w].pointed \/ choice[w] = command[w].to]_psVars

\* docs/connection-profiles.md: "a typo stays a typo until you fix it".  A
\* profile that cannot be read is changed only by hand.
TyposStay ==
  [][\A n \in Names : settings[n] # None /\ ~settings[n].reads
       => settings'[n] = settings[n] \/ edits' # edits]_psVars
=============================================================================
