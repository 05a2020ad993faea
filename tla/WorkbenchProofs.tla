-------------------------- MODULE WorkbenchProofs ---------------------------
(* Profiles and their secrets, and what is shown and run: theorems of      *)
(* ProfileStore, NotebookRun, InteractiveWindow, ResultPanel and           *)
(* EnvironmentStubs, for any number of profiles, notebooks, calls,         *)
(* selections, runs and packages; and, with those of FilesProofs, the      *)
(* properties of the whole workbench.                                      *)
EXTENDS FilesProofs

-----------------------------------------------------------------------------
(* Profiles.  A command's profile is new and not written yet, written      *)
(* under a name, or deleted.                                               *)
ReadProfile == {p \in ViyaProfile : p.reads}
Making(c) == c.op \in {"add", "import"} /\ c.at \in {"secret", "secret2", "upserts"}
Gone(c) == c.op = "delete" /\ c.at \in {"secret", "secret2", "points"}
Holding(c) == Making(c) \/ (Gone(c) /\ c.at # "points")
LivesAt(c, h) ==
    \/ c.op = "edit" /\ c.at \in {"asks", "secret", "secret2", "renames"} /\ h = c.name
    \/ c.op = "ask" /\ h = c.name
    \/ c.op = "delete" /\ c.at \in {"asks", "removes"} /\ h = c.name
    \/ c.op = "edit" /\ c.at \in {"points", "upserts"} /\ h = c.to
    \/ c.op \in {"add", "import"} /\ c.at = "points" /\ h = c.to

(* What a command is like, by itself.                                      *)
ShapeFits(c) ==
    /\ c \in PsCommand /\ c.profile \in ReadProfile \cup {None}
    /\ c.op \in {"edit", "delete", "ask"} => c.name \in Names /\ c.profile # None
    /\ c.op \in {"add", "import", "switch"} => c.name = NoName
    /\ c.op \in {"add", "import", "edit"} /\ c.at # "asks" => c.to \in Names /\ c.profile # None
    /\ c.op \in {"delete", "ask", "switch"} \/ c.at = "asks" => c.to = NoName
    /\ c.at = "asks" => c.want = "keep" /\ c.out = None
    /\ c.op \in {"add", "import"} /\ c.at = "asks" => c.profile = None
    /\ c.op = "switch" => c.at = "asks" /\ c.profile = None
    /\ c.op = "ask" => c.at \in {"asks", "secret", "secret2"} /\ c.want # "forget"
    /\ c.op = "add" => c.at \in {"asks", "secret", "secret2", "upserts", "points"} /\ c.want # "forget"
    /\ c.op = "import" => c.at \in {"asks", "upserts", "points"}
    /\ c.op = "edit" => c.at # "removes"
    /\ c.op = "delete" => c.at \in {"asks", "removes", "secret", "secret2", "points"}
    /\ c.at \in {"secret", "secret2"} => c.want # "keep"
    /\ Gone(c) => c.want = "forget"
    /\ c.at = "removes" => c.want = "keep"
    /\ c.at = "renames" => c.to # c.name
    /\ c.out # None => c.at \in {"upserts", "renames", "removes"}

(* What it knows of the profiles, of the secret and of its window.         *)
FitsSettings(c, s) ==
    /\ \A h \in Names : LivesAt(c, h) => s[h] # None /\ s[h].id = c.profile.id
    /\ c.op \in {"ask", "delete"} \/ (c.op = "edit" /\ c.at = "asks")
         => Gone(c) \/ c.profile = s[c.name]
    /\ Making(c) => c.profile.id \in Uuids /\ ~HasId(s, c.profile.id) /\ s[c.to] = None
    /\ c.op = "edit" /\ c.at \in {"secret", "secret2", "renames"} => c.to = c.name \/ s[c.to] = None
    /\ c.op \in {"add", "import"} /\ c.at = "points" => s[c.to] = c.profile
    /\ c.out # None => c.out = Rewritten(s, c)
FitsSecrets(c, s, sec, less) ==
    /\ c.op \in {"add", "import", "edit"} /\ c.at \in {"renames", "upserts", "points"} =>
          sec[c.profile.id] \in {NoClient, c.profile.client}
    /\ c.want = "keep" =>
          \A h \in Names : LivesAt(c, h) => sec[c.profile.id] \in {NoClient, s[h].client}
    /\ c.want = "keep" /\ Making(c) => sec[c.profile.id] = NoClient
    /\ c.at = "secret2" /\ c.want = "set" => c.profile.id \notin less
    /\ c.at = "secret2" /\ c.want = "none" => sec[c.profile.id] = NoClient
FitsWindow(c, chosen) ==
    c.op = "edit" /\ c.pointed => chosen = IF c.at = "upserts" THEN c.to ELSE c.name
CommandFits(c, s, sec, less, chosen) ==
    ShapeFits(c) /\ FitsSettings(c, s) /\ FitsSecrets(c, s, sec, less) /\ FitsWindow(c, chosen)

ApartFrom(c, d) ==
    /\ About(c) \cap About(d) = {}
    /\ Making(c) /\ Making(d) => c.profile.id # d.profile.id
    /\ c.out = None \/ d.out = None

PsTyped ==
    /\ settings \in [Names -> ReadProfile \cup {None}]
    /\ secret \in [Ids -> Clients \cup {NoClient}] /\ secretless \subseteq Ids
    /\ choice \in [Windows -> Names \cup {NoName}]
    /\ command \in [Windows -> PsCommand \cup {None}]
    /\ began \in 0 .. MaxProfileCommands /\ edits \in 0 .. MaxEdits
OneName(s) == \A n, m \in Names : s[n] # None /\ s[m] # None /\ s[n].id = s[m].id => n = m
Commanded ==
    /\ \A w \in RunningWindows : CommandFits(command[w], settings, secret, secretless, choice[w])
    /\ \A v, w \in RunningWindows : v # w => ApartFrom(command[v], command[w])
KeepsSecrets ==
    /\ \A n \in Names : settings[n] # None /\ ~(\E w \in RunningWindows : LivesAt(command[w], n)) =>
          secret[settings[n].id] \in {NoClient, settings[n].client}
    /\ \A i \in Ids : secret[i] # NoClient =>
          \/ HasId(settings, i)
          \/ \E w \in RunningWindows : Holding(command[w]) /\ command[w].profile.id = i
    /\ \A i \in secretless : secret[i] = NoClient
PsInv == PsTyped /\ OneName(settings) /\ Commanded /\ KeepsSecrets

LEMMA ProfilesOfAll ==
    ASSUME NEW s \in [Names -> ReadProfile \cup {None}]
    PROVE  Profiles(s) = s /\ \A n \in Names : n \in Readable(s) <=> s[n] # None
<1>1. \A n \in Names : n \in Readable(s) <=> s[n] # None
  BY DEF Readable, ReadProfile
<1>2. Profiles(s) = [n \in Names |-> s[n]]
  BY <1>1 DEF Profiles
<1>3. QED
  BY <1>1, <1>2

(* What is written, where every profile can be read.                       *)
LEMMA RewrittenIs ==
    ASSUME NEW s \in [Names -> ReadProfile \cup {None}], NEW c \in PsCommand
    PROVE  /\ c.at = "upserts" => Rewritten(s, c) = [s EXCEPT ![c.to] = c.profile]
           /\ c.at = "renames" =>
                Rewritten(s, c) = [s EXCEPT ![c.to] = s[c.name], ![c.name] = None]
           /\ c.at = "removes" => Rewritten(s, c) = [s EXCEPT ![c.name] = None]
BY ProfilesOfAll DEF Rewritten, Kept

(* What a command knows stays so while others change what it is not about. *)
LEMMA CommandStays ==
    ASSUME NEW c, NEW s, NEW s2, NEW sec, NEW sec2, NEW less, NEW less2, NEW chosen,
           CommandFits(c, s, sec, less, chosen),
           c.out = None \/ s2 = s,
           \A h \in About(c) : s2[h] = s[h],
           Making(c) => ~HasId(s2, c.profile.id),
           \/ c.profile = None \/ Gone(c)
           \/ /\ sec2[c.profile.id] \in {sec[c.profile.id], NoClient}
              /\ c.profile.id \in less2 => c.profile.id \in less
    PROVE  CommandFits(c, s2, sec2, less2, chosen)
<1>1. ShapeFits(c) /\ FitsWindow(c, chosen)
  BY DEF CommandFits
<1>2. /\ c.name \in Names => s2[c.name] = s[c.name]
      /\ c.to \in Names => s2[c.to] = s[c.to]
  BY PsAssumption DEF About
<1>3. \A h \in Names : LivesAt(c, h) => s2[h] = s[h] /\ ~Gone(c) /\ c.profile # None
  BY <1>1, <1>2 DEF LivesAt, ShapeFits, Gone
<1>4. FitsSettings(c, s2)
  <2>1. FitsSettings(c, s)
    BY DEF CommandFits
  <2>2. \A h \in Names : LivesAt(c, h) => s2[h] # None /\ s2[h].id = c.profile.id
    BY <1>3, <2>1 DEF FitsSettings
  <2>3. c.op \in {"ask", "delete"} \/ (c.op = "edit" /\ c.at = "asks")
         => Gone(c) \/ c.profile = s2[c.name]
    BY <1>1, <1>2, <2>1 DEF FitsSettings, ShapeFits
  <2>4. Making(c) => c.profile.id \in Uuids /\ ~HasId(s2, c.profile.id) /\ s2[c.to] = None
    BY <1>1, <1>2, <2>1 DEF FitsSettings, ShapeFits, Making
  <2>5. c.op = "edit" /\ c.at \in {"secret", "secret2", "renames"} => c.to = c.name \/ s2[c.to] = None
    BY <1>1, <1>2, <2>1 DEF FitsSettings, ShapeFits
  <2>6. c.op \in {"add", "import"} /\ c.at = "points" => s2[c.to] = c.profile
    BY <1>1, <1>2, <2>1 DEF FitsSettings, ShapeFits
  <2>7. c.out # None => c.out = Rewritten(s2, c)
    BY <2>1 DEF FitsSettings
  <2>8. QED
    BY <2>2, <2>3, <2>4, <2>5, <2>6, <2>7 DEF FitsSettings
<1>5. FitsSecrets(c, s2, sec2, less2)
  <2>1. FitsSecrets(c, s, sec, less)
    BY DEF CommandFits
  <2>2. CASE Gone(c)
    BY <1>1, <1>3, <2>2 DEF FitsSecrets, ShapeFits, Gone, Making
  <2>3. CASE c.profile = None
    <3>1. c \in PsCommand /\ c.op \in PsOps
      BY <1>1 DEF ShapeFits, PsCommand
    <3>2. c.at = "asks"
      BY <1>1, <2>3, <3>1 DEF ShapeFits, PsOps
    <3>3. QED
      BY <1>3, <2>3, <3>2 DEF FitsSecrets, Making
  <2>4. CASE /\ sec2[c.profile.id] \in {sec[c.profile.id], NoClient}
             /\ c.profile.id \in less2 => c.profile.id \in less
    BY <1>3, <2>1, <2>4 DEF FitsSecrets
  <2>5. QED
    BY <2>2, <2>3, <2>4
<1>6. QED
  BY <1>1, <1>4, <1>5 DEF CommandFits

(* A step of one window's command, or of none.                             *)
LEMMA PsStep ==
    ASSUME PsInv, NEW w \in Windows, NEW c \in PsCommand \cup {None},
           command' = [command EXCEPT ![w] = c], PsTyped', OneName(settings'), KeepsSecrets',
           \A v \in Windows \ {w} : choice'[v] = choice[v],
           c # None => /\ CommandFits(c, settings', secret', secretless', choice'[w])
                       /\ \A v \in RunningWindows \ {w} : ApartFrom(c, command[v]),
           \A v \in RunningWindows \ {w} :
               /\ command[v].out = None \/ settings' = settings
               /\ \A h \in About(command[v]) : settings'[h] = settings[h]
               /\ Making(command[v]) => ~HasId(settings', command[v].profile.id)
               /\ \/ command[v].profile = None \/ Gone(command[v])
                  \/ /\ secret'[command[v].profile.id] \in {secret[command[v].profile.id], NoClient}
                     /\ command[v].profile.id \in secretless' => command[v].profile.id \in secretless
    PROVE  PsInv'
<1>1. /\ command'[w] = c /\ \A v \in Windows \ {w} : command'[v] = command[v]
      /\ \A v \in Windows \ {w} : v \in RunningWindows' <=> v \in RunningWindows
      /\ w \in RunningWindows' <=> c # None
  BY DEF PsInv, PsTyped, RunningWindows
<1>2. \A v \in RunningWindows' : v \in Windows
  BY DEF RunningWindows
<1>3. ASSUME NEW v \in RunningWindows \ {w}
      PROVE  CommandFits(command[v], settings', secret', secretless', choice'[v])
  <2>1. v \in Windows \ {w} /\ choice'[v] = choice[v]
    BY DEF RunningWindows
  <2>2. CommandFits(command[v], settings, secret, secretless, choice[v])
    BY DEF PsInv, Commanded
  <2>3. /\ command[v].out = None \/ settings' = settings
        /\ \A h \in About(command[v]) : settings'[h] = settings[h]
        /\ Making(command[v]) => ~HasId(settings', command[v].profile.id)
        /\ \/ command[v].profile = None \/ Gone(command[v])
           \/ /\ secret'[command[v].profile.id] \in {secret[command[v].profile.id], NoClient}
              /\ command[v].profile.id \in secretless' => command[v].profile.id \in secretless
    OBVIOUS
  <2> DEFINE d == command[v]
             s2 == settings'
             sec2 == secret'
             less2 == secretless'
  <2> HIDE DEF d, s2, sec2, less2
  <2>4. CommandFits(d, s2, sec2, less2, choice[v])
    BY <2>2, <2>3, CommandStays DEF d, s2, sec2, less2
  <2>5. QED
    BY <2>1, <2>4 DEF d, s2, sec2, less2
<1>4. ASSUME NEW v \in RunningWindows'
      PROVE  CommandFits(command'[v], settings', secret', secretless', choice'[v])
  BY <1>1, <1>2, <1>3
<1>5. \A d, e : ApartFrom(d, e) => ApartFrom(e, d)
  BY DEF ApartFrom
<1>6. ASSUME NEW u \in RunningWindows', NEW v \in RunningWindows', u # v
      PROVE  ApartFrom(command'[u], command'[v])
  <2>1. CASE u = w
    BY <1>1, <1>2, <1>6, <2>1
  <2>2. CASE v = w
    BY <1>1, <1>2, <1>5, <1>6, <2>2
  <2>3. CASE u # w /\ v # w
    <3>1. u \in RunningWindows /\ v \in RunningWindows /\ command'[u] = command[u] /\ command'[v] = command[v]
      BY <1>1, <1>2, <2>3
    <3>2. QED
      BY <1>6, <3>1 DEF PsInv, Commanded
  <2>4. QED
    BY <2>1, <2>2, <2>3
<1>7. Commanded'
  BY <1>4, <1>6 DEF Commanded
<1>8. QED
  BY <1>7 DEF PsInv

LEMMA OneAtMost ==
    ASSUME NEW S, IsFiniteSet(S), Cardinality(S) <= 1, NEW m \in S, NEW n \in S
    PROVE  m = n
<1> SUFFICES ASSUME m # n PROVE FALSE
  OBVIOUS
<1> DEFINE one == {m}
<1>1. IsFiniteSet(one) /\ Cardinality(one) = 1 /\ n \notin one
  BY FS_Singleton
<1> HIDE DEF one
<1>2. Cardinality(one \cup {n}) = 2
  BY <1>1, FS_AddElement
<1>3. one \cup {n} \subseteq S
  BY DEF one
<1>4. Cardinality(one \cup {n}) <= Cardinality(S) /\ Cardinality(S) \in Nat
  BY <1>3, FS_Subset, FS_CardinalityType
<1> DEFINE k == Cardinality(S)
<1>5. k <= 1 /\ 2 <= k /\ k \in Nat
  BY <1>2, <1>4
<1> HIDE DEF k
<1>6. QED
  BY <1>5

LEMMA PsBounds == MaxProfileCommands \in Nat /\ MaxEdits \in Nat
BY PsAssumption

LEMMA PsBegins == PsInit => PsInv
<1> SUFFICES ASSUME PsInit PROVE PsInv
  OBVIOUS
<1>1. 0 \in 0 .. MaxProfileCommands /\ 0 \in 0 .. MaxEdits
  BY PsBounds
<1>2. settings \in [Names -> ReadProfile \cup {None}]
  <2>1. [id : Uuids, client : Clients \cup {NoClient}, setup : {0}, reads : {TRUE}] \subseteq ReadProfile
    BY <1>1 DEF ReadProfile, ViyaProfile, Ids
  <2>2. settings \in [Names -> {None} \cup
                       [id : Uuids, client : Clients \cup {NoClient}, setup : {0}, reads : {TRUE}]]
    BY DEF PsInit
  <2>3. QED
    BY <2>1, <2>2
<1>3. /\ Cardinality(Readable(settings)) <= 1
      /\ \A n \in Names : n \in Readable(settings) <=> settings[n] # None
  BY <1>2, ProfilesOfAll DEF PsInit
<1>4. IsFiniteSet(Readable(settings))
  BY FS_Subset, PsAssumption DEF Readable
<1>5. \A n, m \in Names : settings[n] # None /\ settings[m] # None => n = m
  BY <1>3, <1>4, OneAtMost
<1>6. command = [w \in Windows |-> None] /\ RunningWindows = {}
  BY DEF PsInit, RunningWindows
<1>7. \A i \in Ids : IF HasId(settings, i)
                     THEN \E n \in Names : /\ settings[n] # None /\ settings[n].id = i
                                           /\ secret[i] = settings[n].client
                     ELSE secret[i] = NoClient
  <2>1. ASSUME NEW i \in Ids, HasId(settings, i)
        PROVE  \E n \in Names : /\ settings[n] # None /\ settings[n].id = i
                                /\ secret[i] = settings[n].client
    <3>1. PICK n \in Names : settings[n] # None /\ settings[n].id = i
      BY <2>1 DEF HasId
    <3>2. n \in Readable(settings) /\ \A m \in Readable(settings) : m = n
      BY <1>3, <1>5, <3>1 DEF Readable
    <3>3. (CHOOSE m \in Readable(settings) : TRUE) = n
      BY <3>2
    <3>4. secret[i] = settings[n].client
      BY <2>1, <3>3 DEF PsInit
    <3>5. QED
      BY <3>1, <3>4
  <2>2. QED
    BY <2>1 DEF PsInit
<1>8. \A n \in Names : settings[n] # None =>
        /\ settings[n] \in ReadProfile /\ settings[n].client \in Clients \cup {NoClient}
        /\ settings[n].id \in Ids
  BY <1>2 DEF ReadProfile, ViyaProfile
<1>9. \A i \in Ids : secret[i] \in Clients \cup {NoClient}
  BY <1>7, <1>8
<1>10. secret \in [Ids -> Clients \cup {NoClient}]
  <2>1. DOMAIN secret = Ids /\ secret = [i \in Ids |-> secret[i]]
    BY DEF PsInit
  <2>2. QED
    BY <1>9, <2>1
<1>11. PsTyped
  BY <1>1, <1>2, <1>6, <1>10 DEF PsTyped, PsInit
<1>12. KeepsSecrets
  <2>1. ASSUME NEW n \in Names, settings[n] # None
        PROVE  secret[settings[n].id] \in {NoClient, settings[n].client}
    <3>1. settings[n].id \in Ids /\ HasId(settings, settings[n].id)
      BY <1>8, <2>1 DEF HasId
    <3>2. QED
      BY <1>5, <1>7, <2>1, <3>1
  <2>2. \A i \in Ids : secret[i] # NoClient => HasId(settings, i)
    BY <1>7
  <2>3. QED
    BY <2>1, <2>2 DEF KeepsSecrets, PsInit
<1>13. OneName(settings) /\ Commanded
  BY <1>5, <1>6 DEF OneName, Commanded
<1>14. QED
  BY <1>11, <1>12, <1>13 DEF PsInv

(* A command begins, goes on or ends, and nothing else changes.            *)
LEMMA CommandGoesOn ==
    ASSUME PsInv, NEW w \in Windows, NEW c \in PsCommand \cup {None},
           command' = [command EXCEPT ![w] = c],
           UNCHANGED <<settings, secret, secretless>>, PsTyped',
           \A v \in Windows \ {w} : choice'[v] = choice[v],
           c # None => /\ CommandFits(c, settings, secret, secretless, choice'[w])
                       /\ \A v \in RunningWindows \ {w} : ApartFrom(c, command[v]),
           command[w] # None =>
               /\ \A n \in Names : LivesAt(command[w], n) =>
                    (c # None /\ LivesAt(c, n)) \/ secret[settings[n].id] \in {NoClient, settings[n].client}
               /\ Holding(command[w]) =>
                    \/ c # None /\ Holding(c) /\ c.profile.id = command[w].profile.id
                    \/ secret[command[w].profile.id] = NoClient
    PROVE  PsInv'
<1>1. /\ command'[w] = c /\ \A v \in Windows \ {w} : command'[v] = command[v]
      /\ \A v \in Windows \ {w} : v \in RunningWindows' <=> v \in RunningWindows
      /\ w \in RunningWindows' <=> c # None
      /\ w \in RunningWindows <=> command[w] # None
      /\ \A v \in RunningWindows : v \in Windows
  BY DEF PsInv, PsTyped, RunningWindows
<1>2. \A n \in Names : settings[n] # None /\ ~(\E v \in RunningWindows' : LivesAt(command'[v], n)) =>
          secret[settings[n].id] \in {NoClient, settings[n].client}
  <2>1. ASSUME NEW n \in Names, settings[n] # None,
               ~(\E v \in RunningWindows' : LivesAt(command'[v], n))
        PROVE  secret[settings[n].id] \in {NoClient, settings[n].client}
    <3>1. CASE \E v \in RunningWindows : LivesAt(command[v], n)
      <4>1. PICK v \in RunningWindows : LivesAt(command[v], n)
        BY <3>1
      <4>2. v = w
        BY <1>1, <2>1, <4>1
      <4>3. QED
        BY <1>1, <2>1, <4>1, <4>2
    <3>2. CASE ~(\E v \in RunningWindows : LivesAt(command[v], n))
      BY <2>1, <3>2 DEF PsInv, KeepsSecrets
    <3>3. QED
      BY <3>1, <3>2
  <2>2. QED
    BY <2>1
<1>3. \A i \in Ids : secret[i] # NoClient =>
          \/ HasId(settings, i)
          \/ \E v \in RunningWindows' : Holding(command'[v]) /\ command'[v].profile.id = i
  <2>1. ASSUME NEW i \in Ids, secret[i] # NoClient, ~HasId(settings, i)
        PROVE  \E v \in RunningWindows' : Holding(command'[v]) /\ command'[v].profile.id = i
    <3>1. PICK v \in RunningWindows : Holding(command[v]) /\ command[v].profile.id = i
      BY <2>1 DEF PsInv, KeepsSecrets
    <3>2. CASE v = w
      BY <1>1, <2>1, <3>1, <3>2
    <3>3. CASE v # w
      BY <1>1, <3>1, <3>3
    <3>4. QED
      BY <3>2, <3>3
  <2>2. QED
    BY <2>1
<1>4. KeepsSecrets'
  <2>1. settings' = settings /\ secret' = secret /\ secretless' = secretless
    OBVIOUS
  <2>2. \A i \in Ids : HasId(settings', i) <=> HasId(settings, i)
    BY <2>1
  <2>3. \A i \in secretless : secret[i] = NoClient
    BY DEF PsInv, KeepsSecrets
  <2>4. QED
    BY <1>2, <1>3, <2>1, <2>2, <2>3 DEF KeepsSecrets
<1>5. OneName(settings')
  BY DEF PsInv
<1>6. ASSUME NEW v \in RunningWindows \ {w}
      PROVE  /\ command[v].out = None \/ settings' = settings
             /\ \A h \in About(command[v]) : settings'[h] = settings[h]
             /\ Making(command[v]) => ~HasId(settings', command[v].profile.id)
             /\ \/ command[v].profile = None \/ Gone(command[v])
                \/ /\ secret'[command[v].profile.id] \in {secret[command[v].profile.id], NoClient}
                   /\ command[v].profile.id \in secretless' => command[v].profile.id \in secretless
  <2>1. FitsSettings(command[v], settings)
    BY DEF PsInv, Commanded, CommandFits
  <2>2. QED
    BY <2>1 DEF FitsSettings
<1>7. c # None => /\ CommandFits(c, settings', secret', secretless', choice'[w])
                  /\ \A v \in RunningWindows \ {w} : ApartFrom(c, command[v])
  OBVIOUS
<1>8. QED
  BY <1>4, <1>5, <1>6, <1>7, PsStep

(* What the bounds on what the runs let happen come to.                    *)
LEMMA AloneIs ==
    ASSUME PsMayMeet = {}, NEW w, NEW ns, WorksAlone(w, ns)
    PROVE  \A v \in RunningWindows \ {w} : About(command[v]) \cap ns = {}
BY DEF WorksAlone

LEMMA CalmIs ==
    ASSUME PsMayMeet = {}, Calm
    PROVE  \A v \in RunningWindows : command[v].out = None
BY DEF Calm, Out

LEMMA FreeNameIs ==
    ASSUME PsMayMeet = {}, NEW c, NEW n, validateProfileName(c, n)
    PROVE  n = c.name \/ n \notin Readable(settings)
BY DEF validateProfileName

LEMMA RefusedIs ==
    ASSUME PsMayMeet = {}, NEW w, Refused(w)
    PROVE  command[w].want = "keep"
BY DEF Refused

LEMMA RunningFits ==
    ASSUME PsInv, NEW w \in RunningWindows
    PROVE  /\ w \in Windows /\ command[w] # None /\ command[w] \in PsCommand
           /\ CommandFits(command[w], settings, secret, secretless, choice[w])
           /\ ShapeFits(command[w]) /\ FitsSettings(command[w], settings)
           /\ FitsSecrets(command[w], settings, secret, secretless)
           /\ FitsWindow(command[w], choice[w])
           /\ \A v \in RunningWindows \ {w} : ApartFrom(command[w], command[v])
BY DEF PsInv, Commanded, CommandFits, RunningWindows, ShapeFits

LEMMA SettingsRead ==
    ASSUME PsInv
    PROVE  \A n \in Names : /\ n \in Readable(settings) <=> settings[n] # None
                            /\ settings[n] # None => settings[n] \in ReadProfile
BY ProfilesOfAll DEF PsInv, PsTyped

LEMMA LivesAbout ==
    ASSUME NEW c, ShapeFits(c), NEW h \in Names, LivesAt(c, h)
    PROVE  h \in About(c)
BY PsAssumption DEF LivesAt, About

LEMMA TypedStays ==
    ASSUME PsInv, NEW w \in Windows, NEW c \in PsCommand \cup {None},
           command' = [command EXCEPT ![w] = c], UNCHANGED <<settings, secret, secretless>>,
           choice' \in [Windows -> Names \cup {NoName}],
           began' \in 0 .. MaxProfileCommands, edits' = edits
    PROVE  PsTyped'
BY DEF PsInv, PsTyped

LEMMA BeginKeeps ==
    ASSUME PsMayMeet = {}, PsInv, NEW w \in Windows, NEW op \in PsOps, NEW n \in Names \cup {NoName},
           Begin(w, op, n)
    PROVE  PsInv'
<1> DEFINE c == [op |-> op, at |-> "asks", name |-> n, to |-> NoName, taken |-> Readable(settings),
                 profile |-> IF n = NoName THEN None ELSE settings[n],
                 want |-> "keep", out |-> None, pointed |-> n # NoName /\ choice[w] = n]
<1>1. /\ command[w] = None /\ began < MaxProfileCommands /\ began' = began + 1
      /\ op \in {"edit", "delete", "ask"} => n \in Readable(settings) /\ WorksAlone(w, {n})
      /\ op \in {"add", "import", "switch"} => n = NoName
      /\ command' = [command EXCEPT ![w] = c]
      /\ UNCHANGED <<settings, secret, secretless, choice, edits>>
  BY DEF Begin
<1>2. /\ op \in {"edit", "delete", "ask"} => n \in Names /\ settings[n] # None /\ settings[n] \in ReadProfile
                                             /\ n # NoName
      /\ Readable(settings) \subseteq Names
  BY <1>1, SettingsRead, PsAssumption DEF Readable
<1>3. /\ c.op = op /\ c.at = "asks" /\ c.name = n /\ c.to = NoName /\ c.want = "keep" /\ c.out = None
      /\ c.profile = IF n = NoName THEN None ELSE settings[n]
      /\ c.pointed = (n # NoName /\ choice[w] = n)
  OBVIOUS
<1>4. op \in {"edit", "delete", "ask"} \/ op \in {"add", "import", "switch"}
  BY DEF PsOps
<1>5. c.profile \in ReadProfile \cup {None}
  BY <1>1, <1>2, <1>3, <1>4
<1>6. c \in PsCommand
  <2>1. c.profile \in ViyaProfile \cup {None}
    BY <1>5 DEF ReadProfile
  <2>2. (n # NoName /\ choice[w] = n) \in BOOLEAN /\ "asks" \in PsSteps /\ "keep" \in Wishes
    BY DEF PsSteps, Wishes
  <2>3. QED
    BY <1>2, <2>1, <2>2 DEF PsCommand
<1> HIDE DEF c
<1>7. ShapeFits(c)
  BY <1>1, <1>2, <1>3, <1>4, <1>5, <1>6 DEF ShapeFits, Gone
<1>8. \A h \in Names : LivesAt(c, h) => h = n /\ n # NoName /\ op \in {"edit", "delete", "ask"}
  BY <1>2, <1>3 DEF LivesAt
<1>9. op \in {"edit", "delete", "ask"} =>
        /\ \A v \in RunningWindows \ {w} : About(command[v]) \cap {n} = {}
        /\ c.profile = settings[n]
  BY <1>1, <1>2, <1>3, AloneIs
<1>10. FitsSettings(c, settings)
  BY <1>2, <1>3, <1>4, <1>8, <1>9 DEF FitsSettings, Making
<1>11. op \in {"edit", "delete", "ask"} => secret[settings[n].id] \in {NoClient, settings[n].client}
  <2>1. ASSUME op \in {"edit", "delete", "ask"}, NEW v \in RunningWindows, LivesAt(command[v], n)
        PROVE FALSE
    <3>1. v # w
      BY <1>1 DEF RunningWindows
    <3>2. n \in About(command[v])
      BY <1>2, <2>1, RunningFits, LivesAbout
    <3>3. QED
      BY <1>9, <2>1, <3>1, <3>2
  <2>2. QED
    BY <1>2, <2>1 DEF PsInv, KeepsSecrets
<1>12. FitsSecrets(c, settings, secret, secretless)
  BY <1>3, <1>8, <1>9, <1>11 DEF FitsSecrets, Making
<1>13. FitsWindow(c, choice'[w])
  BY <1>1, <1>3 DEF FitsWindow
<1>14. ASSUME NEW v \in RunningWindows \ {w} PROVE ApartFrom(c, command[v])
  <2>1. About(c) \cap About(command[v]) = {}
    <3>1. About(c) = {n} \ {NoName}
      BY <1>3 DEF About
    <3>2. QED
      BY <1>1, <1>4, <1>9, <3>1
  <2>2. QED
    BY <1>3, <2>1 DEF ApartFrom, Making
<1>15. PsTyped'
  <2>1. began' \in 0 .. MaxProfileCommands
    BY <1>1, PsBounds DEF PsInv, PsTyped
  <2>2. choice' \in [Windows -> Names \cup {NoName}]
    BY <1>1 DEF PsInv, PsTyped
  <2>3. QED
    BY <1>1, <1>6, <2>1, <2>2, TypedStays
<1>16. CommandFits(c, settings, secret, secretless, choice'[w])
  BY <1>7, <1>10, <1>12, <1>13 DEF CommandFits
<1>17. QED
  BY <1>1, <1>6, <1>14, <1>15, <1>16, CommandGoesOn

(* A command that is over where the secret fits.                           *)
LEMMA CommandIsOver ==
    ASSUME PsInv, NEW w \in RunningWindows, command' = [command EXCEPT ![w] = None],
           UNCHANGED <<settings, secret, secretless, began, edits>>,
           choice' \in [Windows -> Names \cup {NoName}],
           \A v \in Windows \ {w} : choice'[v] = choice[v],
           \A n \in Names : LivesAt(command[w], n) =>
               secret[settings[n].id] \in {NoClient, settings[n].client},
           Holding(command[w]) => secret[command[w].profile.id] = NoClient
    PROVE  PsInv'
<1>1. w \in Windows /\ began' \in 0 .. MaxProfileCommands
  BY DEF RunningWindows, PsInv, PsTyped
<1>2. PsTyped'
  BY <1>1, TypedStays
<1>3. QED
  BY <1>1, <1>2, CommandGoesOn

(* Where the secret is to be kept, it fits already.                        *)
LEMMA KeptFits ==
    ASSUME PsInv, NEW w \in RunningWindows, command[w].want = "keep"
    PROVE  /\ \A n \in Names : LivesAt(command[w], n) =>
               secret[settings[n].id] \in {NoClient, settings[n].client}
           /\ Holding(command[w]) => secret[command[w].profile.id] = NoClient
<1>1. /\ ShapeFits(command[w]) /\ FitsSettings(command[w], settings)
      /\ FitsSecrets(command[w], settings, secret, secretless)
  BY RunningFits
<1>2. ~Gone(command[w])
  BY <1>1 DEF ShapeFits
<1>3. QED
  BY <1>1, <1>2 DEF FitsSettings, FitsSecrets, Holding

LEMMA DismissesKeeps ==
    ASSUME PsInv, NEW w \in Windows, DismissesPrompt(w)
    PROVE  PsInv'
<1>1. /\ w \in RunningWindows /\ command[w].at = "asks" /\ command' = [command EXCEPT ![w] = None]
      /\ UNCHANGED <<settings, secret, secretless, choice, began, edits>>
  BY DEF DismissesPrompt, EndsCommand
<1>2. command[w].want = "keep"
  BY <1>1, RunningFits DEF ShapeFits
<1>3. choice' \in [Windows -> Names \cup {NoName}] /\ \A v \in Windows \ {w} : choice'[v] = choice[v]
  BY <1>1 DEF PsInv, PsTyped
<1>4. QED
  BY <1>1, <1>2, <1>3, KeptFits, CommandIsOver

LEMMA RefusedKeeps ==
    ASSUME PsMayMeet = {}, PsInv, NEW w \in Windows, Refused(w)
    PROVE  PsInv'
<1>1. /\ w \in RunningWindows /\ command' = [command EXCEPT ![w] = None]
      /\ UNCHANGED <<settings, secret, secretless, choice, began, edits>>
  BY DEF Refused, EndsCommand, Out
<1>2. command[w].want = "keep"
  BY RefusedIs
<1>3. choice' \in [Windows -> Names \cup {NoName}] /\ \A v \in Windows \ {w} : choice'[v] = choice[v]
  BY <1>1 DEF PsInv, PsTyped
<1>4. QED
  BY <1>1, <1>2, <1>3, KeptFits, CommandIsOver

LEMMA SwitchesKeeps ==
    ASSUME PsInv, NEW w \in Windows, NEW n \in Names \cup {NoName}, Switches(w, n)
    PROVE  PsInv'
<1>1. /\ w \in RunningWindows /\ command[w].at = "asks" /\ command' = [command EXCEPT ![w] = None]
      /\ choice' = [choice EXCEPT ![w] = n]
      /\ UNCHANGED <<settings, secret, secretless, began, edits>>
  BY DEF Switches, EndsCommand
<1>2. command[w].want = "keep"
  BY <1>1, RunningFits DEF ShapeFits
<1>3. choice' \in [Windows -> Names \cup {NoName}] /\ \A v \in Windows \ {w} : choice'[v] = choice[v]
  BY <1>1 DEF PsInv, PsTyped
<1>4. QED
  BY <1>1, <1>2, <1>3, KeptFits, CommandIsOver

LEMMA NextProfile ==
    ASSUME NEW p \in ReadProfile, NEW client \in Clients \cup {NoClient}
    PROVE  /\ [p EXCEPT !.client = client] \in ReadProfile
           /\ [p EXCEPT !.client = client].id = p.id
           /\ [p EXCEPT !.client = client].client = client
BY DEF ReadProfile, ViyaProfile

LEMMA FreshIs ==
    ASSUME PsInv, Fresh # {}, NEW client \in Clients \cup {NoClient}, NEW p,
           p = [id |-> CHOOSE i \in Fresh : TRUE, client |-> client, setup |-> 0, reads |-> TRUE]
    PROVE  /\ p \in ReadProfile /\ p # None /\ p.id \in Uuids /\ p.client = client
           /\ ~HasId(settings, p.id) /\ secret[p.id] = NoClient /\ p.id \notin secretless
           /\ \A v \in RunningWindows : Making(command[v]) => command[v].profile.id # p.id
<1>1. (CHOOSE i \in Fresh : TRUE) \in Fresh
  OBVIOUS
<1>2. p.id \in Fresh /\ p.client = client
  BY <1>1
<1>3. p.id \in Uuids
  BY <1>2 DEF Fresh
<1>4. 0 \in 0 .. MaxEdits
  BY PsBounds
<1>5. p \in ReadProfile
  BY <1>3, <1>4 DEF ReadProfile, ViyaProfile, Ids
<1>6. p # None
  BY <1>5, NoneIsNoObject DEF ReadProfile
<1>7. \A v \in RunningWindows : Making(command[v]) => command[v].profile # None
  BY RunningFits DEF ShapeFits, Making
<1>8. QED
  BY <1>2, <1>3, <1>5, <1>6, <1>7 DEF Fresh

(* A command goes on with the names and the profile's id it has.           *)
LEMMA GoesOnAsItWas ==
    ASSUME PsInv, NEW w \in RunningWindows, NEW c \in PsCommand,
           command' = [command EXCEPT ![w] = c],
           UNCHANGED <<settings, secret, secretless, began, edits>>,
           choice' \in [Windows -> Names \cup {NoName}],
           \A v \in Windows \ {w} : choice'[v] = choice[v],
           c.op = command[w].op, c.name = command[w].name, c.to = command[w].to,
           c.profile = command[w].profile,
           ShapeFits(c), FitsSettings(c, settings), FitsWindow(c, choice'[w]),
           FitsSecrets(c, settings, secret, secretless),
           (Making(c) <=> Making(command[w])), ~Gone(command[w]), ~Gone(c),
           \A h \in Names : LivesAt(command[w], h) => LivesAt(c, h),
           c.out = None \/ \A v \in RunningWindows \ {w} : command[v].out = None
    PROVE  PsInv'
<1>1. w \in Windows /\ command[w] # None /\ \A v \in RunningWindows \ {w} : ApartFrom(command[w], command[v])
  BY RunningFits
<1>2. c # None
  BY NoneIsNoObject
<1>3. PsTyped'
  <2>1. began' \in 0 .. MaxProfileCommands
    BY DEF PsInv, PsTyped
  <2>2. QED
    BY <1>1, <2>1, TypedStays
<1>4. About(c) = About(command[w])
  BY DEF About
<1>5. ASSUME NEW v \in RunningWindows \ {w} PROVE ApartFrom(c, command[v])
  BY <1>1, <1>4 DEF ApartFrom
<1>6. CommandFits(c, settings, secret, secretless, choice'[w])
  BY DEF CommandFits
<1>7. Holding(command[w]) => Holding(c)
  BY DEF Holding
<1>8. QED
  BY <1>1, <1>2, <1>3, <1>5, <1>6, <1>7, CommandGoesOn

LEMMA ConfirmsKeeps ==
    ASSUME PsInv, NEW w \in Windows, Confirms(w)
    PROVE  PsInv'
<1> DEFINE c == [command[w] EXCEPT !.at = "removes"]
<1>1. /\ w \in RunningWindows /\ command[w].at = "asks" /\ command[w].op = "delete"
      /\ UNCHANGED <<settings, secret, secretless, choice, began, edits>>
      /\ command' = [command EXCEPT ![w].at = "removes"]
  BY DEF Confirms, CommandGoes
<1>2. /\ command[w] \in PsCommand /\ ShapeFits(command[w]) /\ FitsSettings(command[w], settings)
      /\ FitsSecrets(command[w], settings, secret, secretless)
  BY <1>1, RunningFits
<1>3. command' = [command EXCEPT ![w] = c]
  BY <1>1
<1>4. /\ c \in PsCommand /\ c.op = "delete" /\ c.at = "removes" /\ c.name = command[w].name
      /\ c.to = command[w].to /\ c.profile = command[w].profile /\ c.want = command[w].want
      /\ c.out = command[w].out /\ c.pointed = command[w].pointed
  BY <1>1, <1>2 DEF PsCommand, PsSteps
<1> HIDE DEF c
<1>5. ShapeFits(c) /\ ~Gone(command[w]) /\ ~Gone(c) /\ ~Making(c) /\ ~Making(command[w]) /\ c.out = None
  BY <1>1, <1>2, <1>4 DEF ShapeFits, Gone, Making
<1>6. \A h \in Names : LivesAt(command[w], h) <=> LivesAt(c, h)
  BY <1>1, <1>4 DEF LivesAt
<1>7. FitsSettings(c, settings)
  BY <1>1, <1>2, <1>4, <1>5, <1>6 DEF FitsSettings
<1>8. FitsSecrets(c, settings, secret, secretless) /\ FitsWindow(c, choice'[w])
  BY <1>1, <1>2, <1>4, <1>5, <1>6 DEF FitsSecrets, FitsWindow
<1>9. choice' \in [Windows -> Names \cup {NoName}] /\ \A v \in Windows \ {w} : choice'[v] = choice[v]
  BY <1>1 DEF PsInv, PsTyped
<1>10. QED
  BY <1>1, <1>3, <1>4, <1>5, <1>6, <1>7, <1>8, <1>9, GoesOnAsItWas

LEMMA TypesSecretKeeps ==
    ASSUME PsInv, NEW w \in Windows, NEW typed \in BOOLEAN, TypesSecret(w, typed)
    PROVE  PsInv'
<1> DEFINE want == IF typed THEN "set" ELSE "none"
           c == [command[w] EXCEPT !.at = "secret", !.want = want]
<1>1. /\ w \in RunningWindows /\ command[w].at = "asks" /\ command[w].op = "ask"
      /\ UNCHANGED <<settings, secret, secretless, choice, began, edits>>
      /\ command' = [command EXCEPT ![w] = c]
  BY DEF TypesSecret
<1>2. /\ command[w] \in PsCommand /\ ShapeFits(command[w]) /\ FitsSettings(command[w], settings)
      /\ FitsSecrets(command[w], settings, secret, secretless)
  BY <1>1, RunningFits
<1>3. want \in {"set", "none"}
  OBVIOUS
<1> HIDE DEF want
<1>4. /\ c \in PsCommand /\ c.op = "ask" /\ c.at = "secret" /\ c.name = command[w].name
      /\ c.to = command[w].to /\ c.profile = command[w].profile /\ c.want = want
      /\ c.out = command[w].out /\ c.pointed = command[w].pointed
  BY <1>1, <1>2, <1>3 DEF PsCommand, PsSteps, Wishes
<1> HIDE DEF c
<1>5. ShapeFits(c) /\ ~Gone(command[w]) /\ ~Gone(c) /\ ~Making(c) /\ ~Making(command[w]) /\ c.out = None
  BY <1>1, <1>2, <1>3, <1>4 DEF ShapeFits, Gone, Making
<1>6. \A h \in Names : LivesAt(command[w], h) <=> LivesAt(c, h)
  BY <1>1, <1>4 DEF LivesAt
<1>7. FitsSettings(c, settings)
  BY <1>1, <1>2, <1>4, <1>5, <1>6 DEF FitsSettings
<1>8. FitsSecrets(c, settings, secret, secretless) /\ FitsWindow(c, choice'[w])
  BY <1>3, <1>4, <1>5 DEF FitsSecrets, FitsWindow
<1>9. choice' \in [Windows -> Names \cup {NoName}] /\ \A v \in Windows \ {w} : choice'[v] = choice[v]
  BY <1>1 DEF PsInv, PsTyped
<1>10. QED
  BY <1>1, <1>4, <1>5, <1>6, <1>7, <1>8, <1>9, GoesOnAsItWas

LEMMA WritesSettingsKeeps ==
    ASSUME PsMayMeet = {}, PsInv, NEW w \in Windows, WritesSettings(w)
    PROVE  PsInv'
<1> DEFINE wrote == Rewritten(settings, command[w])
           c == [command[w] EXCEPT !.out = wrote]
<1>1. /\ w \in RunningWindows /\ command[w].at \in {"upserts", "renames", "removes"}
      /\ command[w].out = None /\ Calm
      /\ UNCHANGED <<settings, secret, secretless, choice, began, edits>>
  BY DEF WritesSettings
<1>2. /\ command[w] \in PsCommand /\ ShapeFits(command[w]) /\ FitsSettings(command[w], settings)
      /\ FitsSecrets(command[w], settings, secret, secretless) /\ FitsWindow(command[w], choice[w])
  BY <1>1, RunningFits
<1>3. command[w].op \in PsOps
  BY <1>2 DEF PsCommand
<1>4. command[w].at \in {"renames", "removes"} =>
        /\ LivesAt(command[w], command[w].name) /\ command[w].name \in Names
        /\ settings[command[w].name] # None
  BY <1>2, <1>3 DEF ShapeFits, LivesAt, PsOps, FitsSettings
<1>5. command[w].at = "upserts" \/ command[w].name \in Readable(settings)
  BY <1>1, <1>4, SettingsRead
<1>6. command[w].at = "removes" => command[w].profile = settings[command[w].name]
  BY <1>2, <1>3 DEF ShapeFits, FitsSettings, PsOps, Gone
<1>7. command' = [command EXCEPT ![w] = c]
  BY <1>1, <1>2, <1>5, <1>6 DEF WritesSettings, PsInv, PsTyped, PsCommand
<1>8. wrote \in [Names -> ViyaProfile \cup {None}]
  <2>1. settings \in [Names -> ReadProfile \cup {None}] /\ ReadProfile \subseteq ViyaProfile
    BY DEF PsInv, PsTyped, ReadProfile
  <2>2. command[w].profile \in ReadProfile \cup {None}
    BY <1>2 DEF ShapeFits
  <2>3. command[w].at = "renames" => settings[command[w].name] \in ReadProfile \cup {None}
    BY <1>4, <2>1
  <2>4. /\ command[w].at = "upserts" => wrote = [settings EXCEPT ![command[w].to] = command[w].profile]
        /\ command[w].at = "renames" =>
             wrote = [settings EXCEPT ![command[w].to] = settings[command[w].name],
                                        ![command[w].name] = None]
        /\ command[w].at = "removes" => wrote = [settings EXCEPT ![command[w].name] = None]
    BY <1>2, <2>1, RewrittenIs
  <2> HIDE DEF wrote
  <2>5. CASE command[w].at = "upserts"
    BY <2>1, <2>2, <2>4, <2>5
  <2>6. CASE command[w].at = "renames"
    BY <2>1, <2>3, <2>4, <2>6
  <2>7. CASE command[w].at = "removes"
    BY <2>1, <2>4, <2>7
  <2>8. QED
    BY <1>1, <2>5, <2>6, <2>7
<1>9. wrote = Rewritten(settings, command[w])
  OBVIOUS
<1> HIDE DEF wrote
<1>10. /\ c \in PsCommand /\ c.op = command[w].op /\ c.at = command[w].at /\ c.name = command[w].name
       /\ c.to = command[w].to /\ c.profile = command[w].profile /\ c.want = command[w].want
       /\ c.out = wrote /\ c.pointed = command[w].pointed
  BY <1>2, <1>8 DEF PsCommand
<1> HIDE DEF c
<1>11. c.out = Rewritten(settings, c)
  BY <1>9, <1>10 DEF Rewritten, Kept
<1>12. (Making(c) <=> Making(command[w])) /\ ~Gone(command[w]) /\ ~Gone(c)
  BY <1>1, <1>10 DEF Gone, Making
<1>13. ShapeFits(c)
  BY <1>1, <1>2, <1>10, <1>12 DEF ShapeFits
<1>14. \A h \in Names : LivesAt(command[w], h) <=> LivesAt(c, h)
  BY <1>10 DEF LivesAt
<1>15. FitsSettings(c, settings)
  BY <1>2, <1>10, <1>11, <1>12, <1>14 DEF FitsSettings
<1>16. FitsSecrets(c, settings, secret, secretless) /\ FitsWindow(c, choice'[w])
  BY <1>1, <1>2, <1>10, <1>12, <1>14 DEF FitsSecrets, FitsWindow
<1>17. choice' \in [Windows -> Names \cup {NoName}] /\ \A v \in Windows \ {w} : choice'[v] = choice[v]
  BY <1>1 DEF PsInv, PsTyped
<1>18. \A v \in RunningWindows \ {w} : command[v].out = None
  BY <1>1, CalmIs
<1>19. QED
  BY <1>1, <1>7, <1>10, <1>12, <1>13, <1>14, <1>15, <1>16, <1>17, <1>18, GoesOnAsItWas

LEMMA PointsKeeps ==
    ASSUME PsInv, NEW w \in Windows, Points(w)
    PROVE  PsInv'
<1> DEFINE at == PointsAt(w, command[w])
<1>1. /\ w \in RunningWindows /\ command[w].at = "points" /\ choice' = [choice EXCEPT ![w] = at]
      /\ UNCHANGED <<settings, secret, secretless, began, edits>>
  BY DEF Points
<1>2. /\ command[w] \in PsCommand /\ ShapeFits(command[w]) /\ FitsSettings(command[w], settings)
      /\ FitsSecrets(command[w], settings, secret, secretless) /\ FitsWindow(command[w], choice[w])
  BY <1>1, RunningFits
<1>3. choice \in [Windows -> Names \cup {NoName}] /\ command[w].op \in PsOps
  BY <1>2 DEF PsInv, PsTyped, PsCommand
<1>4. /\ at \in Names \cup {NoName}
      /\ command[w].op = "edit" /\ command[w].pointed => at = command[w].to
  BY <1>1, <1>2, <1>3 DEF PointsAt, PsCommand, FitsWindow
<1> HIDE DEF at
<1>5. /\ choice' \in [Windows -> Names \cup {NoName}] /\ choice'[w] = at
      /\ \A v \in Windows \ {w} : choice'[v] = choice[v]
  BY <1>1, <1>3, <1>4
<1>6. CASE command[w].op = "edit"
  <2> DEFINE c == [command[w] EXCEPT !.at = "upserts"]
  <2>1. command' = [command EXCEPT ![w] = c]
    BY <1>6 DEF Points, CommandGoes
  <2>2. /\ c \in PsCommand /\ c.op = "edit" /\ c.at = "upserts" /\ c.name = command[w].name
        /\ c.to = command[w].to /\ c.profile = command[w].profile /\ c.want = command[w].want
        /\ c.out = command[w].out /\ c.pointed = command[w].pointed
    BY <1>2, <1>6 DEF PsCommand, PsSteps
  <2> HIDE DEF c
  <2>3. ShapeFits(c) /\ ~Gone(command[w]) /\ ~Gone(c) /\ ~Making(c) /\ ~Making(command[w]) /\ c.out = None
    BY <1>1, <1>2, <1>6, <2>2 DEF ShapeFits, Gone, Making
  <2>4. \A h \in Names : LivesAt(command[w], h) <=> LivesAt(c, h)
    BY <1>1, <1>6, <2>2 DEF LivesAt
  <2>5. FitsSettings(c, settings)
    BY <1>2, <1>6, <2>2, <2>3, <2>4 DEF FitsSettings
  <2>6. FitsSecrets(c, settings, secret, secretless)
    BY <1>1, <1>2, <1>6, <2>2, <2>3, <2>4 DEF FitsSecrets
  <2>7. FitsWindow(c, choice'[w])
    BY <1>4, <1>5, <1>6, <2>2 DEF FitsWindow
  <2>8. QED
    BY <1>1, <1>5, <1>6, <2>1, <2>2, <2>3, <2>4, <2>5, <2>6, <2>7, GoesOnAsItWas
<1>7. CASE command[w].op # "edit"
  <2>1. command' = [command EXCEPT ![w] = None]
    BY <1>7 DEF Points, EndsCommand
  <2>2. \A n \in Names : LivesAt(command[w], n) =>
          n = command[w].to /\ command[w].op \in {"add", "import"}
    BY <1>1, <1>2, <1>7 DEF LivesAt, ShapeFits
  <2>3. command[w].op \in {"add", "import"} =>
          /\ settings[command[w].to] = command[w].profile
          /\ secret[command[w].profile.id] \in {NoClient, command[w].profile.client}
    BY <1>1, <1>2 DEF FitsSettings, FitsSecrets
  <2>4. ~Holding(command[w])
    BY <1>1 DEF Holding, Making
  <2>5. QED
    BY <1>1, <1>5, <2>1, <2>2, <2>3, <2>4, CommandIsOver
<1>8. QED
  BY <1>6, <1>7

LEMMA ImportsKeeps ==
    ASSUME PsMayMeet = {}, PsInv, NEW w \in Windows, NEW n \in Names,
           NEW client \in Clients \cup {NoClient}, Imports(w, n, client)
    PROVE  PsInv'
<1> DEFINE p == [id |-> CHOOSE i \in Fresh : TRUE, client |-> client, setup |-> 0, reads |-> TRUE]
           c == [command[w] EXCEPT !.to = n, !.at = "upserts", !.profile = p]
<1>1. /\ w \in RunningWindows /\ command[w].at = "asks" /\ command[w].op = "import"
      /\ n \in Offered(command[w]) /\ WorksAlone(w, {n}) /\ Fresh # {}
      /\ command' = [command EXCEPT ![w] = c]
      /\ UNCHANGED <<settings, secret, secretless, choice, began, edits>>
  BY DEF Imports
<1>2. /\ w \in Windows /\ command[w] # None /\ command[w] \in PsCommand /\ ShapeFits(command[w])
      /\ \A v \in RunningWindows \ {w} : ApartFrom(command[w], command[v])
  BY <1>1, RunningFits
<1>3. /\ p \in ReadProfile /\ p # None /\ p.id \in Uuids /\ p.client = client
      /\ ~HasId(settings, p.id) /\ secret[p.id] = NoClient
      /\ \A v \in RunningWindows : Making(command[v]) => command[v].profile.id # p.id
  BY <1>1, FreshIs
<1>4. n \notin Readable(settings) /\ command[w].name = NoName /\ command[w].to = NoName
      /\ command[w].want = "keep" /\ command[w].out = None
  <2>1. validateProfileName(command[w], n)
    BY <1>1 DEF Offered
  <2>2. command[w].name = NoName /\ command[w].to = NoName
        /\ command[w].want = "keep" /\ command[w].out = None
    BY <1>1, <1>2 DEF ShapeFits
  <2>3. n # NoName
    BY PsAssumption
  <2>4. QED
    BY <2>1, <2>2, <2>3, FreeNameIs
<1>5. settings[n] = None /\ \A v \in RunningWindows \ {w} : About(command[v]) \cap {n} = {}
  BY <1>1, <1>4, SettingsRead, AloneIs
<1> HIDE DEF p
<1>6. /\ c \in PsCommand /\ c.op = "import" /\ c.at = "upserts" /\ c.name = NoName
      /\ c.to = n /\ c.profile = p /\ c.want = "keep" /\ c.out = None
  <2>1. p \in ViyaProfile
    BY <1>3 DEF ReadProfile
  <2>2. QED
    BY <1>1, <1>2, <1>4, <2>1 DEF PsCommand, PsSteps
<1> HIDE DEF c
<1>7. c # None
  BY <1>6, NoneIsNoObject
<1>8. ShapeFits(c)
  BY <1>3, <1>6 DEF ShapeFits, Gone
<1>9. \A h \in Names : ~LivesAt(c, h)
  BY <1>6 DEF LivesAt
<1>10. FitsSettings(c, settings)
  BY <1>3, <1>5, <1>6, <1>9 DEF FitsSettings
<1>11. FitsSecrets(c, settings, secret, secretless) /\ FitsWindow(c, choice'[w])
  BY <1>3, <1>6, <1>9 DEF FitsSecrets, FitsWindow
<1>12. CommandFits(c, settings, secret, secretless, choice'[w])
  BY <1>8, <1>10, <1>11 DEF CommandFits
<1>13. ASSUME NEW v \in RunningWindows \ {w} PROVE ApartFrom(c, command[v])
  <2>1. About(c) = {n} \ {NoName}
    BY <1>6 DEF About
  <2>2. QED
    BY <1>3, <1>5, <1>6, <2>1 DEF ApartFrom
<1>14. /\ choice' \in [Windows -> Names \cup {NoName}] /\ \A v \in Windows \ {w} : choice'[v] = choice[v]
       /\ began' \in 0 .. MaxProfileCommands
  BY <1>1 DEF PsInv, PsTyped
<1>15. PsTyped'
  BY <1>1, <1>2, <1>6, <1>14, TypedStays
<1>16. ~Holding(command[w]) /\ \A h \in Names : ~LivesAt(command[w], h)
  BY <1>1 DEF Holding, Making, Gone, LivesAt
<1>17. QED
  BY <1>1, <1>2, <1>6, <1>7, <1>12, <1>13, <1>14, <1>15, <1>16, CommandGoesOn

(* The form is filled in: of a new profile, or of one there is.            *)
LEMMA FilledKeeps ==
    ASSUME PsMayMeet = {}, PsInv, NEW w \in Windows, NEW n \in Names,
           NEW client \in Clients \cup {NoClient}, NEW typed \in BOOLEAN,
           Filled(w, n, client, typed)
    PROVE  PsInv'
<1> DEFINE d == command[w]
           new == [id |-> CHOOSE i \in Fresh : TRUE, client |-> client, setup |-> 0, reads |-> TRUE]
           p == IF d.op = "edit" THEN [d.profile EXCEPT !.client = client] ELSE new
           want == Wants(d, client, typed)
           asked == [d EXCEPT !.to = n, !.profile = p, !.want = want]
           at == IF asked.want = "keep" THEN Next1(asked) ELSE "secret"
           c == [asked EXCEPT !.at = at]
<1>1. /\ w \in RunningWindows /\ d.at = "asks" /\ d.op \in {"add", "edit"}
      /\ d.op = "add" => Fresh # {}
      /\ validateProfileName(d, n) /\ WorksAlone(w, {n})
      /\ command' = [command EXCEPT ![w] = c]
      /\ UNCHANGED <<settings, secret, secretless, choice, began, edits>>
  BY DEF Filled
<1>2. /\ w \in Windows /\ d # None /\ d \in PsCommand /\ ShapeFits(d) /\ FitsSettings(d, settings)
      /\ FitsSecrets(d, settings, secret, secretless) /\ FitsWindow(d, choice[w])
      /\ \A v \in RunningWindows \ {w} : ApartFrom(d, command[v])
  BY <1>1, RunningFits
<1>3. /\ d.to = NoName /\ d.want = "keep" /\ d.out = None
      /\ d.op = "add" => d.name = NoName
      /\ d.op = "edit" => d.name \in Names /\ d.profile \in ReadProfile /\ d.profile # None
                          /\ d.profile = settings[d.name] /\ LivesAt(d, d.name)
  BY <1>1, <1>2 DEF ShapeFits, FitsSettings, LivesAt, Gone
<1>4. /\ d.op = "edit" => settings[d.name] # None
                          /\ secret[d.profile.id] \in {NoClient, d.profile.client}
  BY <1>2, <1>3 DEF FitsSettings, FitsSecrets
<1>5. /\ p \in ReadProfile /\ p # None /\ p.client = client
      /\ d.op = "edit" => p.id = d.profile.id
      /\ d.op = "add" => /\ p.id \in Uuids /\ ~HasId(settings, p.id) /\ secret[p.id] = NoClient
                         /\ \A v \in RunningWindows : Making(command[v]) => command[v].profile.id # p.id
  <2>1. /\ d.op = "edit" => p = [d.profile EXCEPT !.client = client]
        /\ d.op = "add" => p = new
    OBVIOUS
  <2>2. d.op = "add" => Fresh # {} /\ p = [id |-> CHOOSE i \in Fresh : TRUE, client |-> client,
                                         setup |-> 0, reads |-> TRUE]
    BY <1>1
  <2> HIDE DEF p, new, d
  <2>3. CASE d.op = "edit"
    <3> DEFINE old == d.profile
               now == [old EXCEPT !.client = client]
    <3>4. old \in ReadProfile /\ p = now
      BY <1>3, <2>1, <2>3
    <3> HIDE DEF old
    <3>5. now \in ReadProfile /\ now.id = old.id /\ now.client = client
      BY <3>4, NextProfile
    <3> HIDE DEF now
    <3>1. p \in ReadProfile /\ p.id = d.profile.id /\ p.client = client
      BY <3>4, <3>5 DEF old
    <3>2. p # None
      BY <3>1, NoneIsNoObject DEF ReadProfile
    <3>6. QED
      BY <2>3, <3>1, <3>2
  <2>4. CASE d.op = "add"
    BY <2>2, <2>4, FreshIs
  <2>5. QED
    BY <1>1, <2>3, <2>4
<1>6. /\ want \in Wishes
      /\ d.op = "add" => want # "forget"
      /\ d.op = "edit" /\ want = "keep" => client = d.profile.client
  BY DEF Wants, Wishes
<1>7. \/ n = d.name /\ d.op = "edit"
      \/ n \notin Readable(settings) /\ settings[n] = None
  <2>1. n = d.name \/ n \notin Readable(settings)
    BY <1>1, FreeNameIs
  <2>2. n # NoName
    BY PsAssumption
  <2>3. QED
    BY <1>1, <1>3, <2>1, <2>2, SettingsRead
<1>8. \A v \in RunningWindows \ {w} : About(command[v]) \cap {n} = {}
  BY <1>1, AloneIs
<1> HIDE DEF p, want
<1>9. /\ asked \in PsCommand /\ asked.op = d.op /\ asked.name = d.name /\ asked.to = n /\ asked.profile = p
      /\ asked.want = want /\ asked.out = None /\ asked.pointed = d.pointed
  <2>1. p \in ViyaProfile
    BY <1>5 DEF ReadProfile
  <2>2. d \in PsCommand /\ d.out = None
    BY <1>2, <1>3
  <2> HIDE DEF d
  <2>3. QED
    BY <1>6, <2>1, <2>2 DEF PsCommand
<1> HIDE DEF asked
<1>10. /\ want # "keep" => at = "secret"
       /\ want = "keep" /\ d.op = "edit" /\ n # d.name => at = "renames"
       /\ want = "keep" /\ ~(d.op = "edit" /\ n # d.name) => at = "upserts"
  BY <1>1, <1>9 DEF Next1
<1> HIDE DEF at
<1>11. /\ c \in PsCommand /\ c.op = d.op /\ c.name = d.name /\ c.to = n /\ c.profile = p
       /\ c.want = want /\ c.out = None /\ c.pointed = d.pointed /\ c.at = at
  <2>1. at \in PsSteps
    BY <1>10 DEF PsSteps
  <2>2. QED
    BY <1>9, <2>1 DEF PsCommand
<1> HIDE DEF c
<1>12. c # None
  BY <1>11, NoneIsNoObject
<1>13. ShapeFits(c)
  <2>1. at \in {"secret", "renames", "upserts"} /\ (d.op = "add" => at # "renames")
    BY <1>10
  <2>2. QED
    BY <1>1, <1>3, <1>5, <1>6, <1>10, <1>11, <2>1 DEF ShapeFits, Gone
<1>14. /\ d.op = "edit" => \A h \in Names : LivesAt(c, h) <=> h = d.name
       /\ d.op = "add" => Making(c) /\ \A h \in Names : ~LivesAt(c, h)
       /\ d.op = "edit" => ~Making(c)
  BY <1>10, <1>11 DEF LivesAt, Making
<1>15. FitsSettings(c, settings)
  <2>1. CASE d.op = "edit"
    BY <1>3, <1>4, <1>5, <1>7, <1>10, <1>11, <1>14, <2>1 DEF FitsSettings
  <2>2. CASE d.op = "add"
    BY <1>5, <1>7, <1>10, <1>11, <1>14, <2>2 DEF FitsSettings
  <2>3. QED
    BY <1>1, <2>1, <2>2
<1>16. FitsSecrets(c, settings, secret, secretless)
  <2>1. CASE d.op = "edit"
    BY <1>3, <1>4, <1>5, <1>6, <1>10, <1>11, <1>14, <2>1 DEF FitsSecrets
  <2>2. CASE d.op = "add"
    BY <1>5, <1>10, <1>11, <1>14, <2>2 DEF FitsSecrets
  <2>3. QED
    BY <1>1, <2>1, <2>2
<1>17. FitsWindow(c, choice'[w])
  BY <1>1, <1>2, <1>10, <1>11 DEF FitsWindow
<1>18. CommandFits(c, settings, secret, secretless, choice'[w])
  BY <1>13, <1>15, <1>16, <1>17 DEF CommandFits
<1>19. ASSUME NEW v \in RunningWindows \ {w} PROVE ApartFrom(c, command[v])
  <2>1. About(c) \subseteq About(d) \cup {n}
    BY <1>11 DEF About
  <2>2. About(d) \cap About(command[v]) = {}
    BY <1>2 DEF ApartFrom
  <2>3. About(c) \cap About(command[v]) = {}
    BY <1>8, <2>1, <2>2
  <2>4. Making(c) /\ Making(command[v]) => c.profile.id # command[v].profile.id
    BY <1>1, <1>5, <1>11, <1>14
  <2>5. QED
    BY <1>11, <2>3, <2>4 DEF ApartFrom
<1>20. /\ choice' \in [Windows -> Names \cup {NoName}] /\ \A v \in Windows \ {w} : choice'[v] = choice[v]
       /\ began' \in 0 .. MaxProfileCommands
  BY <1>1 DEF PsInv, PsTyped
<1>21. PsTyped'
  BY <1>1, <1>2, <1>11, <1>20, TypedStays
<1>22. ~Holding(d) /\ \A h \in Names : LivesAt(d, h) => LivesAt(c, h)
  BY <1>1, <1>3, <1>14 DEF Holding, Making, Gone, LivesAt
<1>23. QED
  BY <1>1, <1>2, <1>11, <1>12, <1>18, <1>19, <1>20, <1>21, <1>22, CommandGoesOn

(* A profile at hand lives under a name, or is being made, or is gone.     *)
LEMMA LivesOrMade ==
    ASSUME NEW c, ShapeFits(c), c.profile # None, ~Gone(c)
    PROVE  Making(c) \/ \E h \in Names : LivesAt(c, h)
<1>1. c.op \in PsOps
  BY DEF ShapeFits, PsCommand
<1>2. CASE c.op \in {"edit", "ask", "delete"}
  <2>1. c.name \in Names /\ (c.op = "edit" /\ c.at # "asks" => c.to \in Names)
    BY <1>2 DEF ShapeFits
  <2>2. c.at \in PsSteps
    BY DEF ShapeFits, PsCommand
  <2>3. LivesAt(c, c.name) \/ (c.op = "edit" /\ c.at # "asks" /\ LivesAt(c, c.to))
    BY <1>2, <2>2 DEF ShapeFits, PsSteps, LivesAt, Gone
  <2>4. QED
    BY <2>1, <2>3
<1>3. CASE c.op \in {"add", "import"}
  <2>1. c.at # "asks" /\ c.to \in Names
    BY <1>3 DEF ShapeFits
  <2>2. Making(c) \/ LivesAt(c, c.to)
    BY <1>3, <2>1 DEF ShapeFits, LivesAt, Making
  <2>3. QED
    BY <2>1, <2>2
<1>4. QED
  BY <1>1, <1>2, <1>3 DEF ShapeFits, PsOps

(* No two commands are at work on one profile.                             *)
LEMMA IdsApart ==
    ASSUME PsInv, NEW w \in RunningWindows, NEW v \in RunningWindows \ {w},
           command[w].profile # None, ~Gone(command[w]),
           command[v].profile # None, ~Gone(command[v])
    PROVE  command[v].profile.id # command[w].profile.id
<1>1. /\ ShapeFits(command[w]) /\ FitsSettings(command[w], settings)
      /\ ShapeFits(command[v]) /\ FitsSettings(command[v], settings)
      /\ ApartFrom(command[w], command[v])
  BY RunningFits
<1> DEFINE c == command[w]
           d == command[v]
<1>2. /\ Making(c) \/ \E h \in Names : LivesAt(c, h)
      /\ Making(d) \/ \E h \in Names : LivesAt(d, h)
  BY <1>1, LivesOrMade
<1>3. /\ \A h \in Names : LivesAt(c, h) => h \in About(c) /\ settings[h] # None /\ settings[h].id = c.profile.id
      /\ \A h \in Names : LivesAt(d, h) => h \in About(d) /\ settings[h] # None /\ settings[h].id = d.profile.id
  BY <1>1, LivesAbout DEF FitsSettings
<1>4. /\ Making(c) => ~HasId(settings, c.profile.id)
      /\ Making(d) => ~HasId(settings, d.profile.id)
  BY <1>1 DEF FitsSettings
<1>5. About(c) \cap About(d) = {} /\ (Making(c) /\ Making(d) => c.profile.id # d.profile.id)
  BY <1>1 DEF ApartFrom
<1>6. OneName(settings)
  BY DEF PsInv
<1> HIDE DEF c, d
<1>7. c.profile.id # d.profile.id
  BY <1>2, <1>3, <1>4, <1>5, <1>6 DEF OneName, HasId
<1>8. QED
  BY <1>7 DEF c, d

LEMMA DoesIs ==
    ASSUME NEW p \in ViyaProfile, NEW what \in {"stores", "deletes", "lists", "unlists"},
           secret \in [Ids -> Clients \cup {NoClient}], secretless \subseteq Ids,
           Does(what, p)
    PROVE  /\ secret' \in [Ids -> Clients \cup {NoClient}] /\ secretless' \subseteq Ids
           /\ p.id \in Ids
           /\ \A i \in Ids : i # p.id => secret'[i] = secret[i] /\ (i \in secretless' <=> i \in secretless)
           /\ what = "stores" => secret'[p.id] = p.client /\ secretless' = secretless
           /\ what = "deletes" => secret'[p.id] = NoClient /\ secretless' = secretless
           /\ what = "lists" => secret' = secret
           /\ what = "unlists" => secret' = secret /\ p.id \notin secretless'
                                  /\ secretless' \subseteq secretless
<1>1. p.id \in Ids /\ p.client \in Clients \cup {NoClient}
  BY DEF ViyaProfile
<1>2. CASE what = "stores"
  BY <1>1, <1>2 DEF Does
<1>3. CASE what = "deletes"
  BY <1>1, <1>3 DEF Does
<1>4. CASE what = "lists"
  BY <1>1, <1>4 DEF Does
<1>5. CASE what = "unlists"
  BY <1>1, <1>5 DEF Does
<1>6. QED
  BY <1>2, <1>3, <1>4, <1>5

(* A command sees to the secret of its profile, and no other's.            *)
LEMMA SecretGoes ==
    ASSUME PsInv, NEW w \in RunningWindows, NEW c \in PsCommand \cup {None}, NEW p \in ViyaProfile,
           command[w].profile = p, p # None, command' = [command EXCEPT ![w] = c],
           UNCHANGED <<settings, choice, began, edits>>,
           secret' \in [Ids -> Clients \cup {NoClient}], secretless' \subseteq Ids,
           \A i \in Ids : i # p.id => secret'[i] = secret[i] /\ (i \in secretless' <=> i \in secretless),
           Gone(command[w]) => /\ \A i \in Ids : secret'[i] \in {secret[i], NoClient}
                               /\ secretless' \subseteq secretless,
           KeepsSecrets',
           c # None => /\ CommandFits(c, settings, secret', secretless', choice[w])
                       /\ About(c) = About(command[w]) /\ c.profile = p /\ c.out = None
                       /\ Making(c) => Making(command[w])
    PROVE  PsInv'
<1>1. w \in Windows /\ \A v \in RunningWindows \ {w} : ApartFrom(command[w], command[v])
  BY RunningFits
<1>2. PsTyped'
  BY <1>1 DEF PsInv, PsTyped
<1>3. OneName(settings')
  BY DEF PsInv
<1>4. \A v \in Windows \ {w} : choice'[v] = choice[v]
  OBVIOUS
<1>5. c # None => /\ CommandFits(c, settings', secret', secretless', choice'[w])
                  /\ \A v \in RunningWindows \ {w} : ApartFrom(c, command[v])
  BY <1>1 DEF ApartFrom
<1>6. ASSUME NEW v \in RunningWindows \ {w}
      PROVE  /\ command[v].out = None \/ settings' = settings
             /\ \A h \in About(command[v]) : settings'[h] = settings[h]
             /\ Making(command[v]) => ~HasId(settings', command[v].profile.id)
             /\ \/ command[v].profile = None \/ Gone(command[v])
                \/ /\ secret'[command[v].profile.id] \in {secret[command[v].profile.id], NoClient}
                   /\ command[v].profile.id \in secretless' => command[v].profile.id \in secretless
  <2>1. FitsSettings(command[v], settings) /\ ShapeFits(command[v])
    BY RunningFits
  <2>2. Making(command[v]) => ~HasId(settings', command[v].profile.id)
    BY <2>1 DEF FitsSettings
  <2>3. command[v].profile # None => command[v].profile.id \in Ids
    BY <2>1 DEF ShapeFits, ReadProfile, ViyaProfile
  <2>4. command[v].profile = None \/ Gone(command[v]) \/ Gone(command[w]) \/ command[v].profile.id # p.id
    BY IdsApart
  <2>5. QED
    BY <2>2, <2>3, <2>4
<1>7. QED
  BY <1>1, <1>2, <1>3, <1>4, <1>5, <1>6, PsStep

(* The first half only takes away.                                         *)
LEMMA FirstHalfKeeps ==
    ASSUME PsInv, NEW w \in Windows, FirstHalf(w)
    PROVE  PsInv'
<1> DEFINE d == command[w]
           p == d.profile
           what == FirstSecretStep(d.want)
           c == [d EXCEPT !.at = "secret2"]
<1>1. /\ w \in RunningWindows /\ d.at = "secret" /\ Does(what, p)
      /\ command' = [command EXCEPT ![w].at = "secret2"]
      /\ UNCHANGED <<settings, choice, began, edits>>
  BY DEF FirstHalf, CommandGoes
<1>2. command' = [command EXCEPT ![w] = c]
  BY <1>1
<1>3. /\ d \in PsCommand /\ ShapeFits(d) /\ FitsSettings(d, settings) /\ FitsWindow(d, choice[w])
      /\ secret \in [Ids -> Clients \cup {NoClient}] /\ secretless \subseteq Ids
  BY <1>1, RunningFits DEF PsInv, PsTyped
<1>4. /\ d.op \in {"add", "edit", "ask", "delete"} /\ p # None /\ p \in ViyaProfile
      /\ d.want \in {"set", "none", "forget"} /\ d.out = None
  <2>1. d.op \in PsOps /\ d.want \in Wishes
    BY <1>3 DEF PsCommand
  <2>2. d.op \in {"add", "edit", "ask", "delete"}
    BY <1>1, <1>3, <2>1 DEF ShapeFits, PsOps
  <2>3. p # None
    BY <1>1, <1>3, <2>2 DEF ShapeFits
  <2>4. p \in ViyaProfile
    BY <1>3, <2>3 DEF ShapeFits, ReadProfile
  <2>5. QED
    BY <1>1, <1>3, <2>1, <2>2, <2>3, <2>4 DEF ShapeFits, Wishes
<1>5. what \in {"deletes", "unlists"} /\ (what = "deletes" <=> d.want = "none")
  BY <1>4 DEF FirstSecretStep
<1>6. /\ c \in PsCommand /\ c.op = d.op /\ c.at = "secret2" /\ c.name = d.name /\ c.to = d.to
      /\ c.profile = p /\ c.want = d.want /\ c.out = None /\ c.pointed = d.pointed
  <2>1. d \in PsCommand /\ d.out = None
    BY <1>3, <1>4
  <2> HIDE DEF d
  <2>2. QED
    BY <2>1 DEF PsCommand, PsSteps
<1> HIDE DEF c, what
<1>7. /\ secret' \in [Ids -> Clients \cup {NoClient}] /\ secretless' \subseteq Ids /\ p.id \in Ids
      /\ \A i \in Ids : i # p.id => secret'[i] = secret[i] /\ (i \in secretless' <=> i \in secretless)
      /\ d.want = "none" => secret'[p.id] = NoClient
      /\ d.want = "set" => p.id \notin secretless'
      /\ \A i \in Ids : secret'[i] \in {secret[i], NoClient}
      /\ secretless' \subseteq secretless
  <2>1. p \in ViyaProfile /\ what \in {"stores", "deletes", "lists", "unlists"} /\ Does(what, p)
    BY <1>1, <1>4, <1>5
  <2> HIDE DEF p, d
  <2>2. /\ secret' \in [Ids -> Clients \cup {NoClient}] /\ secretless' \subseteq Ids
        /\ p.id \in Ids
        /\ \A i \in Ids : i # p.id => secret'[i] = secret[i] /\ (i \in secretless' <=> i \in secretless)
        /\ what = "deletes" => secret'[p.id] = NoClient /\ secretless' = secretless
        /\ what = "unlists" => secret' = secret /\ p.id \notin secretless'
                               /\ secretless' \subseteq secretless
    BY <1>3, <2>1, DoesIs
  <2>3. QED
    BY <1>4, <1>5, <2>2
<1>8. (Making(c) <=> Making(d)) /\ (Gone(c) <=> Gone(d)) /\ \A h : LivesAt(c, h) <=> LivesAt(d, h)
  BY <1>1, <1>6 DEF Making, Gone, LivesAt
<1>9. ShapeFits(c)
  BY <1>1, <1>3, <1>6, <1>8 DEF ShapeFits
<1>10. FitsSettings(c, settings)
  BY <1>1, <1>3, <1>6, <1>8 DEF FitsSettings
<1>11. FitsSecrets(c, settings, secret', secretless')
  BY <1>4, <1>6, <1>7 DEF FitsSecrets
<1>12. FitsWindow(c, choice[w])
  BY <1>1, <1>3, <1>6 DEF FitsWindow
<1>13. CommandFits(c, settings, secret', secretless', choice[w]) /\ About(c) = About(d)
  BY <1>6, <1>9, <1>10, <1>11, <1>12 DEF CommandFits, About
<1>14. c # None
  BY <1>6, NoneIsNoObject
<1>15. KeepsSecrets'
  <2>1. /\ \A v \in RunningWindows : v \in Windows /\ command[v] # None
        /\ command'[w] = c /\ \A v \in RunningWindows \ {w} : command'[v] = command[v]
        /\ RunningWindows' = RunningWindows
    BY <1>1, <1>2, <1>14 DEF RunningWindows, PsInv, PsTyped
  <2>2. \A v \in RunningWindows : /\ Holding(command'[v]) <=> Holding(command[v])
                                  /\ command'[v].profile = command[v].profile
                                  /\ \A h : LivesAt(command'[v], h) <=> LivesAt(command[v], h)
    BY <1>1, <1>6, <1>8, <2>1 DEF Holding
  <2>3. \A n \in Names : settings[n] # None => settings[n].id \in Ids
    BY DEF PsInv, PsTyped, ReadProfile, ViyaProfile
  <2>4. settings' = settings /\ \A i : HasId(settings', i) <=> HasId(settings, i)
    BY <1>1
  <2>5. \A n \in Names : settings[n] # None /\ ~(\E v \in RunningWindows : LivesAt(command'[v], n)) =>
          secret'[settings[n].id] \in {NoClient, settings[n].client}
    BY <1>7, <2>2, <2>3 DEF PsInv, KeepsSecrets
  <2>6. \A i \in Ids : secret'[i] # NoClient =>
          \/ HasId(settings, i)
          \/ \E v \in RunningWindows : Holding(command'[v]) /\ command'[v].profile.id = i
    BY <1>7, <2>2 DEF PsInv, KeepsSecrets
  <2>7. \A i \in secretless' : secret'[i] = NoClient
    BY <1>3, <1>7 DEF PsInv, KeepsSecrets
  <2>8. QED
    BY <2>1, <2>4, <2>5, <2>6, <2>7 DEF KeepsSecrets
<1>16. Gone(d) => /\ \A i \in Ids : secret'[i] \in {secret[i], NoClient}
                  /\ secretless' \subseteq secretless
  BY <1>7
<1> HIDE DEF p
<1>17. command[w].profile = p /\ p \in ViyaProfile /\ p # None
  BY <1>4 DEF p
<1>18. /\ CommandFits(c, settings, secret', secretless', choice[w])
       /\ About(c) = About(command[w]) /\ c.profile = p /\ c.out = None
       /\ Making(c) => Making(command[w])
  BY <1>6, <1>8, <1>13 DEF p
<1>19. /\ secret' \in [Ids -> Clients \cup {NoClient}] /\ secretless' \subseteq Ids
       /\ \A i \in Ids : i # p.id => secret'[i] = secret[i] /\ (i \in secretless' <=> i \in secretless)
  BY <1>7
<1>20. UNCHANGED <<settings, choice, began, edits>> /\ w \in RunningWindows
  BY <1>1
<1>21. c \in PsCommand \cup {None}
  BY <1>6
<1> HIDE DEF d
<1>22. QED
  BY <1>2, <1>15, <1>16, <1>17, <1>18, <1>19, <1>20, <1>21, SecretGoes DEF d

(* The second half writes what is to be kept, and the command goes on.     *)
LEMMA SecondHalfKeeps ==
    ASSUME PsInv, NEW w \in Windows, SecondHalf(w)
    PROVE  PsInv'
<1> DEFINE d == command[w]
           p == d.profile
           what == Second(d.want)
           at == Next1(d)
           c == IF at = "ends" THEN None ELSE [d EXCEPT !.at = at]
<1>1. /\ w \in RunningWindows /\ d.at = "secret2" /\ Does(what, p)
      /\ command' = [command EXCEPT ![w] = c]
      /\ UNCHANGED <<settings, choice, began, edits>>
  BY DEF SecondHalf, CommandGoes, EndsCommand
<1>2. /\ d \in PsCommand /\ ShapeFits(d) /\ FitsSettings(d, settings) /\ FitsWindow(d, choice[w])
      /\ FitsSecrets(d, settings, secret, secretless)
      /\ secret \in [Ids -> Clients \cup {NoClient}] /\ secretless \subseteq Ids
  BY <1>1, RunningFits DEF PsInv, PsTyped
<1>3. /\ d.op \in {"add", "edit", "ask", "delete"} /\ p # None /\ p \in ViyaProfile
      /\ d.want \in {"set", "none", "forget"} /\ d.out = None
  <2>1. d.op \in PsOps /\ d.want \in Wishes
    BY <1>2 DEF PsCommand
  <2>2. d.op \in {"add", "edit", "ask", "delete"}
    BY <1>1, <1>2, <2>1 DEF ShapeFits, PsOps
  <2>3. p # None
    BY <1>1, <1>2, <2>2 DEF ShapeFits
  <2>4. p \in ViyaProfile
    BY <1>2, <2>3 DEF ShapeFits, ReadProfile
  <2>5. QED
    BY <1>1, <1>2, <2>1, <2>2, <2>3, <2>4 DEF ShapeFits, Wishes
<1>4. /\ what \in {"stores", "deletes", "lists"}
      /\ (what = "stores" <=> d.want = "set") /\ (what = "lists" <=> d.want = "none")
  BY <1>3 DEF Second
<1>5. /\ d.op = "ask" => at = "ends" /\ d.want # "forget"
      /\ d.op = "edit" /\ d.to # d.name => at = "renames"
      /\ d.op = "edit" /\ d.to = d.name => at = "upserts"
      /\ d.op = "delete" => at = "points" /\ d.want = "forget"
      /\ d.op = "add" => at = "upserts" /\ d.want # "forget"
  BY <1>1, <1>2 DEF Next1, ShapeFits, Gone
<1>6. /\ secret' \in [Ids -> Clients \cup {NoClient}] /\ secretless' \subseteq Ids /\ p.id \in Ids
      /\ \A i \in Ids : i # p.id => secret'[i] = secret[i] /\ (i \in secretless' <=> i \in secretless)
      /\ d.want = "set" => secret'[p.id] = p.client /\ secretless' = secretless
      /\ d.want = "none" => secret'[p.id] = NoClient
      /\ d.want = "forget" => secret'[p.id] = NoClient /\ secretless' = secretless
  <2>1. p \in ViyaProfile /\ what \in {"stores", "deletes", "lists", "unlists"} /\ Does(what, p)
    BY <1>1, <1>3, <1>4
  <2>2. d.want = "none" => secret[p.id] = NoClient
    BY <1>1, <1>2 DEF FitsSecrets
  <2> HIDE DEF p, d, what
  <2>3. /\ secret' \in [Ids -> Clients \cup {NoClient}] /\ secretless' \subseteq Ids
        /\ p.id \in Ids
        /\ \A i \in Ids : i # p.id => secret'[i] = secret[i] /\ (i \in secretless' <=> i \in secretless)
        /\ what = "stores" => secret'[p.id] = p.client /\ secretless' = secretless
        /\ what = "deletes" => secret'[p.id] = NoClient /\ secretless' = secretless
        /\ what = "lists" => secret' = secret
    BY <1>2, <2>1, DoesIs
  <2>4. QED
    BY <1>3, <1>4, <2>2, <2>3
<1> HIDE DEF at, what
<1>7. d.op # "ask" =>
        /\ c \in PsCommand /\ c.op = d.op /\ c.at = at /\ c.name = d.name /\ c.to = d.to
        /\ c.profile = p /\ c.want = d.want /\ c.out = None /\ c.pointed = d.pointed
  <2>1. d \in PsCommand /\ d.out = None
    BY <1>2, <1>3
  <2>2. d.op # "ask" => at \in {"renames", "upserts", "points"} /\ at # "ends"
    BY <1>3, <1>5
  <2> HIDE DEF d
  <2>3. QED
    BY <2>1, <2>2 DEF PsCommand, PsSteps
<1>8. /\ d.op # "ask" => c # None
      /\ d.op = "ask" => c = None
      /\ c \in PsCommand \cup {None}
  BY <1>5, <1>7, NoneIsNoObject
<1> HIDE DEF c
<1>9. d.op # "ask" => /\ Making(c) <=> Making(d)
                      /\ Holding(c) <=> Making(d)
                      /\ Gone(c) <=> Gone(d)
                      /\ \A h : LivesAt(c, h) <=> LivesAt(d, h)
  BY <1>1, <1>3, <1>5, <1>7 DEF Making, Gone, Holding, LivesAt
<1>10. d.op # "ask" => ShapeFits(c)
  BY <1>1, <1>2, <1>3, <1>5, <1>7, <1>9 DEF ShapeFits
<1>11. d.op # "ask" => FitsSettings(c, settings)
  BY <1>1, <1>2, <1>3, <1>5, <1>7, <1>9 DEF FitsSettings
<1>12. d.op # "ask" => FitsSecrets(c, settings, secret', secretless')
  BY <1>3, <1>5, <1>6, <1>7 DEF FitsSecrets
<1>13. d.op # "ask" => FitsWindow(c, choice[w])
  BY <1>1, <1>2, <1>5, <1>7 DEF FitsWindow
<1>14. c # None => /\ CommandFits(c, settings, secret', secretless', choice[w])
                   /\ About(c) = About(command[w]) /\ c.profile = p /\ c.out = None
                   /\ Making(c) => Making(command[w])
  BY <1>7, <1>8, <1>9, <1>10, <1>11, <1>12, <1>13 DEF CommandFits, About
<1>15. Gone(d) => /\ \A i \in Ids : secret'[i] \in {secret[i], NoClient}
                  /\ secretless' \subseteq secretless
  BY <1>5, <1>6 DEF Gone
<1>16. d.op = "delete" => Gone(d)
  BY <1>1 DEF Gone
<1>17. d.op # "delete" => \/ Making(d) /\ ~HasId(settings, p.id)
                          \/ \E h \in Names : /\ LivesAt(d, h) /\ settings[h] # None
                                              /\ settings[h].id = p.id
  <2>1. d.op # "delete" => ~Gone(d)
    BY DEF Gone
  <2>2. QED
    BY <1>2, <1>3, <2>1, LivesOrMade DEF FitsSettings
<1>18. KeepsSecrets'
  <2>1. /\ \A v \in RunningWindows : v \in Windows /\ command[v] # None
        /\ command'[w] = c /\ \A v \in RunningWindows \ {w} : command'[v] = command[v]
        /\ \A v \in Windows \ {w} : v \in RunningWindows' <=> v \in RunningWindows
        /\ \A v \in RunningWindows' : v \in Windows
        /\ w \in RunningWindows' <=> c # None
    BY <1>1 DEF RunningWindows, PsInv, PsTyped
  <2>2. \A n \in Names : settings[n] # None => settings[n].id \in Ids
    BY DEF PsInv, PsTyped, ReadProfile, ViyaProfile
  <2>3. settings' = settings /\ \A i : HasId(settings', i) <=> HasId(settings, i)
    BY <1>1
  <2>4. ASSUME NEW n \in Names, settings[n] # None,
               ~(\E v \in RunningWindows' : LivesAt(command'[v], n))
        PROVE  secret'[settings[n].id] \in {NoClient, settings[n].client}
    <3>1. CASE LivesAt(d, n)
      <4>1. d.op = "ask"
        BY <1>8, <1>9, <2>1, <2>4, <3>1
      <4>2. n = d.name /\ p = settings[d.name]
        BY <1>2, <3>1, <4>1 DEF LivesAt, FitsSettings, Gone
      <4>3. QED
        BY <1>3, <1>5, <1>6, <4>1, <4>2
    <3>2. CASE ~LivesAt(d, n)
      <4>1. ~(\E v \in RunningWindows : LivesAt(command[v], n))
        BY <2>1, <2>4, <3>2
      <4>2. secret[settings[n].id] \in {NoClient, settings[n].client} /\ settings[n].id \in Ids
        BY <2>2, <2>4, <4>1 DEF PsInv, KeepsSecrets
      <4>3. CASE settings[n].id # p.id
        BY <1>6, <4>2, <4>3
      <4>4. CASE settings[n].id = p.id
        <5>1. HasId(settings, p.id)
          BY <2>4, <4>4 DEF HasId
        <5>2. d.op = "delete"
          BY <1>17, <2>4, <3>2, <4>4, <5>1 DEF PsInv, OneName
        <5>3. QED
          BY <1>15, <1>16, <4>2, <5>2
      <4>5. QED
        BY <4>3, <4>4
    <3>3. QED
      BY <3>1, <3>2
  <2>5. ASSUME NEW i \in Ids, secret'[i] # NoClient, ~HasId(settings, i)
        PROVE  \E v \in RunningWindows' : Holding(command'[v]) /\ command'[v].profile.id = i
    <3>1. CASE i = p.id
      <4>1. d.op # "delete"
        BY <1>5, <1>6, <2>5, <3>1
      <4>2. Making(d) /\ d.op # "ask"
        BY <1>17, <2>5, <3>1, <4>1 DEF HasId, Making
      <4>3. QED
        BY <1>7, <1>8, <1>9, <2>1, <3>1, <4>2
    <3>2. CASE i # p.id
      <4>1. PICK v \in RunningWindows : Holding(command[v]) /\ command[v].profile.id = i
        BY <1>6, <2>5, <3>2 DEF PsInv, KeepsSecrets
      <4>2. v # w
        BY <3>2, <4>1
      <4>3. QED
        BY <2>1, <4>1, <4>2
    <3>3. QED
      BY <3>1, <3>2
  <2>6. ASSUME NEW i \in secretless' PROVE secret'[i] = NoClient
    <3>1. d.want = "set" => p.id \notin secretless
      BY <1>1, <1>2 DEF FitsSecrets
    <3>2. \A j \in secretless : secret[j] = NoClient
      BY DEF PsInv, KeepsSecrets
    <3>3. CASE i = p.id
      BY <1>3, <1>6, <2>6, <3>1, <3>3
    <3>4. CASE i # p.id
      BY <1>6, <2>6, <3>2, <3>4
    <3>5. QED
      BY <3>3, <3>4
  <2>7. QED
    BY <2>3, <2>4, <2>5, <2>6 DEF KeepsSecrets
<1> HIDE DEF p
<1>19. command[w].profile = p /\ p \in ViyaProfile /\ p # None
  BY <1>3 DEF p
<1>20. /\ secret' \in [Ids -> Clients \cup {NoClient}] /\ secretless' \subseteq Ids
       /\ \A i \in Ids : i # p.id => secret'[i] = secret[i] /\ (i \in secretless' <=> i \in secretless)
  BY <1>6
<1>21. UNCHANGED <<settings, choice, began, edits>> /\ w \in RunningWindows
  BY <1>1
<1>22. command' = [command EXCEPT ![w] = c]
  BY <1>1
<1> HIDE DEF d
<1>23. QED
  BY <1>8, <1>14, <1>15, <1>18, <1>19, <1>20, <1>21, <1>22, SecretGoes DEF d

(* What a command at its write knows, and what it has written.             *)
LEMMA WritingIs ==
    ASSUME PsInv, NEW w \in RunningWindows, command[w].out # None
    PROVE  /\ command[w].at \in {"upserts", "renames", "removes"}
           /\ command[w].profile \in ReadProfile /\ command[w].profile # None /\ ~Gone(command[w])
           /\ command[w].at = "upserts" =>
                /\ command[w].op \in {"add", "import", "edit"} /\ command[w].to \in Names
                /\ Making(command[w]) \/ (command[w].op = "edit" /\ settings[command[w].to] # None
                                          /\ settings[command[w].to].id = command[w].profile.id)
           /\ command[w].at = "renames" =>
                /\ command[w].op = "edit" /\ command[w].to \in Names /\ command[w].name \in Names
                /\ command[w].to # command[w].name /\ settings[command[w].to] = None
                /\ settings[command[w].name] # None
                /\ settings[command[w].name].id = command[w].profile.id
           /\ command[w].at = "removes" =>
                /\ command[w].op = "delete" /\ command[w].name \in Names /\ command[w].to = NoName
                /\ settings[command[w].name] = command[w].profile
<1> DEFINE d == command[w]
<1>1. ShapeFits(d) /\ FitsSettings(d, settings) /\ d.op \in PsOps
  BY RunningFits DEF ShapeFits, PsCommand
<1> SUFFICES /\ d.at \in {"upserts", "renames", "removes"}
             /\ d.profile \in ReadProfile /\ d.profile # None /\ ~Gone(d)
             /\ d.at = "upserts" =>
                  /\ d.op \in {"add", "import", "edit"} /\ d.to \in Names
                  /\ Making(d) \/ (d.op = "edit" /\ settings[d.to] # None /\ settings[d.to].id = d.profile.id)
             /\ d.at = "renames" =>
                  /\ d.op = "edit" /\ d.to \in Names /\ d.name \in Names /\ d.to # d.name
                  /\ settings[d.to] = None /\ settings[d.name] # None
                  /\ settings[d.name].id = d.profile.id
             /\ d.at = "removes" =>
                  /\ d.op = "delete" /\ d.name \in Names /\ d.to = NoName
                  /\ settings[d.name] = d.profile
  OBVIOUS
<1> HIDE DEF d
<1>2. d.at \in {"upserts", "renames", "removes"}
  BY <1>1 DEF ShapeFits, d
<1>3. ~Gone(d) /\ d.profile \in ReadProfile \cup {None}
  BY <1>1, <1>2 DEF Gone, ShapeFits
<1>4. /\ d.at = "upserts" => d.op \in {"add", "import", "edit"} /\ d.to \in Names /\ d.profile # None
      /\ d.at = "renames" => /\ d.op = "edit" /\ d.to \in Names /\ d.profile # None
                             /\ d.name \in Names /\ d.to # d.name
      /\ d.at = "removes" => d.op = "delete" /\ d.name \in Names /\ d.to = NoName /\ d.profile # None
  <2>1. CASE d.at = "upserts"
    BY <1>1, <2>1 DEF ShapeFits, PsOps
  <2>2. CASE d.at = "renames"
    BY <1>1, <2>2 DEF ShapeFits, PsOps
  <2>3. CASE d.at = "removes"
    BY <1>1, <2>3 DEF ShapeFits, PsOps
  <2>4. QED
    BY <1>2, <2>1, <2>2, <2>3
<1>5. CASE d.at = "upserts"
  <2>1. d.op \in {"add", "import"} => Making(d)
    BY <1>5 DEF Making
  <2>2. d.op = "edit" => LivesAt(d, d.to)
    BY <1>5 DEF LivesAt
  <2>3. QED
    BY <1>1, <1>3, <1>4, <1>5, <2>1, <2>2 DEF FitsSettings
<1>6. CASE d.at = "renames"
  <2>1. LivesAt(d, d.name)
    BY <1>4, <1>6 DEF LivesAt
  <2>2. QED
    BY <1>1, <1>3, <1>4, <1>6, <2>1 DEF FitsSettings
<1>7. CASE d.at = "removes"
  BY <1>1, <1>3, <1>4, <1>7 DEF FitsSettings
<1>8. QED
  BY <1>2, <1>5, <1>6, <1>7

LEMMA WhatIsWritten ==
    ASSUME PsInv, NEW w \in RunningWindows, command[w].out # None,
           NEW s2, s2 = command[w].out
    PROVE  /\ command[w].at = "upserts" => s2 = [settings EXCEPT ![command[w].to] = command[w].profile]
           /\ command[w].at = "renames" =>
                s2 = [settings EXCEPT ![command[w].to] = settings[command[w].name], ![command[w].name] = None]
           /\ command[w].at = "removes" => s2 = [settings EXCEPT ![command[w].name] = None]
<1>1. command[w] \in PsCommand /\ command[w].out = Rewritten(settings, command[w])
  BY RunningFits DEF FitsSettings
<1>2. settings \in [Names -> ReadProfile \cup {None}]
  BY DEF PsInv, PsTyped
<1>3. QED
  BY <1>1, <1>2, RewrittenIs

(* What is in the setting once the write of command d has landed.          *)
LEMMA LandedIs ==
    ASSUME PsInv, NEW w \in RunningWindows, command[w].out # None,
           NEW s2, s2 = command[w].out, NEW p, p = command[w].profile, NEW d, d = command[w]
    PROVE  /\ s2 \in [Names -> ReadProfile \cup {None}] /\ OneName(s2)
           /\ \A i : HasId(s2, i) <=> IF i = p.id THEN d.at # "removes" ELSE HasId(settings, i)
           /\ \A n \in Names : n \notin About(d) => s2[n] = settings[n]
           /\ \A n \in Names : s2[n] # None /\ n # d.to => s2[n] = settings[n] /\ ~LivesAt(d, n)
           /\ d.at = "upserts" => s2[d.to] = p
           /\ d.at = "renames" => s2[d.to] = settings[d.name]
<1>1. /\ d.at \in {"upserts", "renames", "removes"}
      /\ p \in ReadProfile /\ p # None /\ ~Gone(d)
      /\ d.at = "upserts" =>
           /\ d.op \in {"add", "import", "edit"} /\ d.to \in Names
           /\ Making(d) \/ (d.op = "edit" /\ settings[d.to] # None /\ settings[d.to].id = p.id)
      /\ d.at = "renames" =>
           /\ d.op = "edit" /\ d.to \in Names /\ d.name \in Names /\ d.to # d.name
           /\ settings[d.to] = None /\ settings[d.name] # None /\ settings[d.name].id = p.id
      /\ d.at = "removes" =>
           d.op = "delete" /\ d.name \in Names /\ d.to = NoName /\ settings[d.name] = p
  BY WritingIs
<1>2. /\ d.at = "upserts" => s2 = [settings EXCEPT ![d.to] = p]
      /\ d.at = "renames" => s2 = [settings EXCEPT ![d.to] = settings[d.name], ![d.name] = None]
      /\ d.at = "removes" => s2 = [settings EXCEPT ![d.name] = None]
  BY WhatIsWritten
<1>3. settings \in [Names -> ReadProfile \cup {None}] /\ OneName(settings)
  BY DEF PsInv, PsTyped
<1>4. Making(d) => ~HasId(settings, p.id)
  <2>1. FitsSettings(command[w], settings)
    BY RunningFits
  <2>2. QED
    BY <2>1 DEF FitsSettings
<1>5. NoName \notin Names /\ (Making(d) /\ d.at = "upserts" => settings[d.to] = None)
  <2>1. FitsSettings(command[w], settings)
    BY RunningFits
  <2>2. QED
    BY <2>1, PsAssumption DEF FitsSettings
<1>6. CASE d.at = "upserts"
  <2>1. s2[d.to] = p /\ \A n \in Names : n # d.to => s2[n] = settings[n]
    BY <1>1, <1>2, <1>3, <1>6
  <2>2. s2 \in [Names -> ReadProfile \cup {None}]
    BY <1>1, <1>2, <1>3, <1>6
  <2>3. \A n \in Names : n # d.to /\ settings[n] # None => settings[n].id # p.id
    BY <1>1, <1>3, <1>4, <1>6 DEF OneName, HasId
  <2>4. OneName(s2)
    BY <1>3, <2>1, <2>3 DEF OneName
  <2>5. \A i : HasId(s2, i) <=> IF i = p.id THEN TRUE ELSE HasId(settings, i)
    <3>1. ASSUME NEW i, HasId(s2, i), i # p.id PROVE HasId(settings, i)
      BY <2>1, <3>1 DEF HasId
    <3>2. ASSUME NEW i, HasId(settings, i), i # p.id PROVE HasId(s2, i)
      <4>1. PICK n \in Names : settings[n] # None /\ settings[n].id = i
        BY <3>2 DEF HasId
      <4>2. n # d.to
        BY <1>1, <1>5, <1>6, <3>2, <4>1
      <4>3. QED
        BY <2>1, <4>1, <4>2 DEF HasId
    <3>3. HasId(s2, p.id)
      BY <1>1, <1>6, <2>1 DEF HasId
    <3>4. QED
      BY <3>1, <3>2, <3>3
  <2>6. \A n \in Names : n # d.to => ~LivesAt(d, n)
    BY <1>1, <1>6 DEF LivesAt
  <2>7. \A n \in Names : n \notin About(d) => n # d.to
    BY <1>5 DEF About
  <2>8. QED
    BY <1>6, <2>1, <2>2, <2>4, <2>5, <2>6, <2>7
<1>7. CASE d.at = "renames"
  <2>1. /\ s2[d.to] = settings[d.name] /\ s2[d.name] = None
        /\ \A n \in Names : n # d.to /\ n # d.name => s2[n] = settings[n]
    BY <1>1, <1>2, <1>3, <1>7
  <2>2. s2 \in [Names -> ReadProfile \cup {None}]
    BY <1>1, <1>2, <1>3, <1>7
  <2>3. OneName(s2)
    BY <1>1, <1>3, <1>7, <2>1 DEF OneName
  <2>4. \A i : HasId(s2, i) <=> HasId(settings, i)
    BY <1>1, <1>7, <2>1 DEF HasId
  <2>5. HasId(settings, p.id)
    BY <1>1, <1>7 DEF HasId
  <2>6. \A n \in Names : n # d.name => ~LivesAt(d, n)
    BY <1>7 DEF LivesAt
  <2>7. \A n \in Names : n \notin About(d) => n # d.to /\ n # d.name
    BY <1>5 DEF About
  <2>8. QED
    BY <1>7, <2>1, <2>2, <2>3, <2>4, <2>5, <2>6, <2>7
<1>8. CASE d.at = "removes"
  <2>1. s2[d.name] = None /\ \A n \in Names : n # d.name => s2[n] = settings[n]
    BY <1>1, <1>2, <1>3, <1>8
  <2>2. s2 \in [Names -> ReadProfile \cup {None}]
    BY <1>1, <1>2, <1>3, <1>8
  <2>3. OneName(s2)
    BY <1>3, <2>1 DEF OneName
  <2>4. \A n \in Names : n # d.name /\ settings[n] # None => settings[n].id # p.id
    BY <1>1, <1>3, <1>8 DEF OneName
  <2>5. \A i : HasId(s2, i) <=> IF i = p.id THEN FALSE ELSE HasId(settings, i)
    BY <1>1, <1>8, <2>1, <2>4 DEF HasId
  <2>6. \A n \in Names : n # d.name => ~LivesAt(d, n)
    BY <1>1, <1>8 DEF LivesAt
  <2>7. \A n \in Names : n \notin About(d) => n # d.name
    BY <1>5 DEF About
  <2>8. QED
    BY <1>8, <2>1, <2>2, <2>3, <2>5, <2>6, <2>7
<1>9. QED
  BY <1>1, <1>6, <1>7, <1>8

(* The write lands: the profile has a new name, or new contents, or is     *)
(* gone.                                                                   *)
LEMMA WriteLandsKeeps ==
    ASSUME PsInv, NEW w \in Windows, WriteLands(w)
    PROVE  PsInv'
<1> DEFINE d == command[w]
           p == d.profile
           s2 == settings'
           ends == d.at = "upserts" /\ ~(d.op # "edit" /\ Cardinality(Readable(s2)) = 1)
           c == IF ends THEN None
                ELSE IF d.at = "removes" THEN [d EXCEPT !.out = None, !.at = "secret", !.want = "forget"]
                ELSE [d EXCEPT !.out = None, !.at = "points"]
<1>1. /\ w \in RunningWindows /\ d.out # None /\ settings' = d.out
      /\ UNCHANGED <<secret, secretless, choice, began, edits>>
  BY DEF WriteLands, Out
<1>2. /\ d.at \in {"upserts", "renames", "removes"}
      /\ p \in ReadProfile /\ p # None /\ ~Gone(d)
      /\ d.at = "upserts" =>
           /\ d.op \in {"add", "import", "edit"} /\ d.to \in Names
           /\ Making(d) \/ (d.op = "edit" /\ settings[d.to] # None /\ settings[d.to].id = p.id)
      /\ d.at = "renames" =>
           /\ d.op = "edit" /\ d.to \in Names /\ d.name \in Names /\ d.to # d.name
           /\ settings[d.to] = None /\ settings[d.name] # None /\ settings[d.name].id = p.id
      /\ d.at = "removes" =>
           d.op = "delete" /\ d.name \in Names /\ d.to = NoName /\ settings[d.name] = p
  BY <1>1, WritingIs
<1>3. command' = [command EXCEPT ![w] = c]
  BY <1>1, <1>2 DEF WriteLands, EndsCommand
<1>4. /\ s2 \in [Names -> ReadProfile \cup {None}] /\ OneName(s2)
      /\ \A i : HasId(s2, i) <=> IF i = p.id THEN d.at # "removes" ELSE HasId(settings, i)
      /\ \A n \in Names : n \notin About(d) => s2[n] = settings[n]
      /\ \A n \in Names : s2[n] # None /\ n # d.to => s2[n] = settings[n] /\ ~LivesAt(d, n)
      /\ d.at = "upserts" => s2[d.to] = p
      /\ d.at = "renames" => s2[d.to] = settings[d.name]
  <2> DEFINE e == command[w]
             q == command[w].profile
  <2>1. s2 = command[w].out /\ command[w].out # None /\ q = command[w].profile /\ e = command[w]
    BY <1>1
  <2> HIDE DEF s2, e, q
  <2>2. /\ s2 \in [Names -> ReadProfile \cup {None}] /\ OneName(s2)
        /\ \A i : HasId(s2, i) <=> IF i = q.id THEN e.at # "removes" ELSE HasId(settings, i)
        /\ \A n \in Names : n \notin About(e) => s2[n] = settings[n]
        /\ \A n \in Names : s2[n] # None /\ n # e.to => s2[n] = settings[n] /\ ~LivesAt(e, n)
        /\ e.at = "upserts" => s2[e.to] = q
        /\ e.at = "renames" => s2[e.to] = settings[e.name]
    BY <1>1, <2>1, LandedIs
  <2>3. QED
    BY <2>2 DEF e, q
<1>5. /\ d \in PsCommand /\ ShapeFits(d) /\ FitsSettings(d, settings) /\ FitsWindow(d, choice[w])
      /\ FitsSecrets(d, settings, secret, secretless)
      /\ \A v \in RunningWindows \ {w} : ApartFrom(d, command[v])
  BY <1>1, RunningFits
<1>6. s2 = settings'
  OBVIOUS
<1> HIDE DEF s2, ends
<1>7. ~ends =>
        /\ c \in PsCommand /\ c.op = d.op /\ c.name = d.name /\ c.to = d.to /\ c.profile = p
        /\ c.out = None /\ c.pointed = d.pointed
        /\ c.at = IF d.at = "removes" THEN "secret" ELSE "points"
        /\ c.want = IF d.at = "removes" THEN "forget" ELSE d.want
  <2>1. d \in PsCommand
    BY <1>5
  <2> HIDE DEF d
  <2>2. QED
    BY <2>1 DEF PsCommand, PsSteps, Wishes
<1>8. /\ ends => c = None /\ d.at = "upserts"
      /\ ~ends => c # None
      /\ d.at = "upserts" /\ ~ends => d.op \in {"add", "import"}
      /\ c \in PsCommand \cup {None}
  BY <1>2, <1>7, NoneIsNoObject DEF ends
<1> HIDE DEF c
<1>9. c # None => /\ ~Making(c) /\ (Gone(c) <=> d.at = "removes")
                  /\ Holding(c) <=> d.at = "removes"
                  /\ \A h : LivesAt(c, h) <=> d.at # "removes" /\ h = d.to
  BY <1>2, <1>7, <1>8 DEF Making, Gone, Holding, LivesAt
<1>10. c # None => ShapeFits(c)
  BY <1>2, <1>5, <1>7, <1>8, <1>9 DEF ShapeFits
<1>11. c # None => FitsSettings(c, s2)
  BY <1>2, <1>4, <1>7, <1>8, <1>9 DEF FitsSettings
<1>12. c # None => FitsSecrets(c, s2, secret, secretless)
  <2>1. /\ d.op \in {"add", "import", "edit"} => secret[p.id] \in {NoClient, p.client}
        /\ d.at = "renames" /\ d.want = "keep" => secret[p.id] \in {NoClient, settings[d.name].client}
    BY <1>2, <1>5 DEF FitsSecrets, LivesAt
  <2>2. QED
    BY <1>2, <1>4, <1>7, <1>8, <1>9, <2>1 DEF FitsSecrets
<1>13. c # None => FitsWindow(c, choice[w])
  BY <1>2, <1>5, <1>7, <1>8 DEF FitsWindow
<1>14. c # None => /\ CommandFits(c, s2, secret, secretless, choice[w])
                   /\ \A v \in RunningWindows \ {w} : ApartFrom(c, command[v])
  BY <1>5, <1>7, <1>8, <1>9, <1>10, <1>11, <1>12, <1>13 DEF CommandFits, ApartFrom, About
<1>15. ASSUME NEW v \in RunningWindows \ {w}
       PROVE  /\ command[v].out = None
              /\ \A h \in About(command[v]) : s2[h] = settings[h]
              /\ Making(command[v]) => ~HasId(s2, command[v].profile.id)
  <2>1. command[v].out = None /\ About(d) \cap About(command[v]) = {}
    BY <1>1, <1>5 DEF ApartFrom
  <2>2. ShapeFits(command[v]) /\ FitsSettings(command[v], settings)
    BY RunningFits
  <2>3. \A h \in About(command[v]) : h \in Names
    BY <2>2 DEF ShapeFits, PsCommand, About
  <2>4. \A h \in About(command[v]) : s2[h] = settings[h]
    BY <1>4, <2>1, <2>3
  <2>5. ASSUME Making(command[v]) PROVE ~HasId(s2, command[v].profile.id)
    <3>1. command[v].profile # None /\ ~Gone(command[v]) /\ ~HasId(settings, command[v].profile.id)
      BY <2>2, <2>5 DEF ShapeFits, FitsSettings, Making, Gone
    <3>2. command[v].profile.id # p.id
      BY <1>1, <1>2, <3>1, IdsApart
    <3>3. QED
      BY <1>4, <3>1, <3>2
  <2>6. QED
    BY <2>1, <2>4, <2>5
<1>16. KeepsSecrets'
  <2>1. /\ \A v \in RunningWindows : v \in Windows /\ command[v] # None
        /\ command'[w] = c /\ \A v \in RunningWindows \ {w} : command'[v] = command[v]
        /\ \A v \in Windows \ {w} : v \in RunningWindows' <=> v \in RunningWindows
        /\ \A v \in RunningWindows' : v \in Windows
        /\ w \in RunningWindows' <=> c # None
    BY <1>1, <1>3 DEF RunningWindows, PsInv, PsTyped
  <2>2. ASSUME NEW n \in Names, s2[n] # None,
               ~(\E v \in RunningWindows' : LivesAt(command'[v], n))
        PROVE  secret[s2[n].id] \in {NoClient, s2[n].client}
    <3>1. CASE n = d.to
      <4>1. d.at = "upserts"
        BY <1>2, <1>8, <1>9, <2>1, <2>2, <3>1, PsAssumption
      <4>2. secret[p.id] \in {NoClient, p.client}
        BY <1>2, <1>5, <4>1 DEF FitsSecrets
      <4>3. QED
        BY <1>4, <3>1, <4>1, <4>2
    <3>2. CASE n # d.to
      <4>1. s2[n] = settings[n] /\ ~LivesAt(d, n)
        BY <1>4, <2>2, <3>2
      <4>2. ~(\E v \in RunningWindows : LivesAt(command[v], n))
        BY <2>1, <2>2, <4>1
      <4>3. QED
        BY <2>2, <4>1, <4>2 DEF PsInv, KeepsSecrets
    <3>3. QED
      BY <3>1, <3>2
  <2>3. ASSUME NEW i \in Ids, secret[i] # NoClient, ~HasId(s2, i)
        PROVE  \E v \in RunningWindows' : Holding(command'[v]) /\ command'[v].profile.id = i
    <3>1. CASE i = p.id
      <4>1. d.at = "removes" /\ c # None
        BY <1>4, <1>8, <2>3, <3>1
      <4>2. QED
        BY <1>1, <1>7, <1>8, <1>9, <2>1, <3>1, <4>1
    <3>2. CASE i # p.id
      <4>1. ~HasId(settings, i)
        BY <1>4, <2>3, <3>2
      <4>2. PICK v \in RunningWindows : Holding(command[v]) /\ command[v].profile.id = i
        BY <2>3, <4>1 DEF PsInv, KeepsSecrets
      <4>3. v # w
        BY <3>2, <4>2
      <4>4. QED
        BY <2>1, <4>2, <4>3
    <3>3. QED
      BY <3>1, <3>2
  <2>4. \A i \in secretless : secret[i] = NoClient
    BY DEF PsInv, KeepsSecrets
  <2>5. secret' = secret /\ secretless' = secretless /\ settings' = s2
    BY <1>1, <1>6
  <2>6. \A i : HasId(settings', i) <=> HasId(s2, i)
    BY <2>5
  <2>7. QED
    BY <2>2, <2>3, <2>4, <2>5, <2>6 DEF KeepsSecrets
<1>17. PsTyped'
  <2>1. settings' \in [Names -> ReadProfile \cup {None}]
    BY <1>4, <1>6
  <2>2. command' \in [Windows -> PsCommand \cup {None}]
    BY <1>3, <1>8 DEF PsInv, PsTyped
  <2>3. QED
    BY <1>1, <2>1, <2>2 DEF PsInv, PsTyped
<1>18. /\ OneName(settings') /\ (\A v \in Windows \ {w} : choice'[v] = choice[v])
       /\ c # None => /\ CommandFits(c, settings', secret', secretless', choice'[w])
                      /\ \A v \in RunningWindows \ {w} : ApartFrom(c, command[v])
  BY <1>1, <1>4, <1>6, <1>14
<1>19. ASSUME NEW v \in RunningWindows \ {w}
       PROVE  /\ command[v].out = None \/ settings' = settings
              /\ \A h \in About(command[v]) : settings'[h] = settings[h]
              /\ Making(command[v]) => ~HasId(settings', command[v].profile.id)
              /\ \/ command[v].profile = None \/ Gone(command[v])
                 \/ /\ secret'[command[v].profile.id] \in {secret[command[v].profile.id], NoClient}
                    /\ command[v].profile.id \in secretless' => command[v].profile.id \in secretless
  BY <1>1, <1>6, <1>15
<1>20. QED
  BY <1>3, <1>8, <1>16, <1>17, <1>18, <1>19, PsStep

LEMMA ByHandIs ==
    ASSUME PsMayMeet = {}, NEW n \in Names, ByHand(n)
    PROVE  /\ edits < MaxEdits /\ edits' = edits + 1 /\ Calm /\ ~Busy({n})
           /\ IF settings[n] # None
              THEN settings' = [settings EXCEPT ![n].setup = edits', ![n].reads = TRUE]
              ELSE /\ ~HasId(settings, n) /\ secret[n] = NoClient
                   /\ \E client \in Clients \cup {NoClient} :
                        settings' = [settings EXCEPT ![n] =
                          [id |-> n, client |-> client, setup |-> edits', reads |-> TRUE]]
           /\ UNCHANGED <<secret, secretless, choice, command, began>>
BY DEF ByHand

LEMMA OneMoreEdit ==
    ASSUME NEW e, e \in 0 .. MaxEdits, e < MaxEdits
    PROVE  e + 1 \in 0 .. MaxEdits
BY PsBounds

(* A profile is edited or written by hand, and nothing is at work on it.   *)
LEMMA ByHandKeeps ==
    ASSUME PsMayMeet = {}, PsInv, NEW n \in Names, ByHand(n)
    PROVE  PsInv'
<1> DEFINE s2 == settings'
<1>1. /\ edits < MaxEdits /\ edits' = edits + 1 /\ Calm /\ ~Busy({n})
      /\ UNCHANGED <<secret, secretless, choice, command, began>>
  BY ByHandIs
<1>2. settings \in [Names -> ReadProfile \cup {None}] /\ OneName(settings) /\ edits \in 0 .. MaxEdits
  BY DEF PsInv, PsTyped
<1>3. edits' \in 0 .. MaxEdits
  BY <1>1, <1>2, OneMoreEdit
<1>4. /\ s2 \in [Names -> ReadProfile \cup {None}] /\ s2[n] # None
      /\ \A m \in Names \ {n} : s2[m] = settings[m]
      /\ \/ settings[n] # None /\ s2[n].id = settings[n].id /\ s2[n].client = settings[n].client
         \/ /\ settings[n] = None /\ s2[n].id = n /\ ~HasId(settings, n) /\ secret[n] = NoClient
  <2>1. CASE settings[n] # None
    <3> DEFINE p == [settings[n] EXCEPT !.setup = edits', !.reads = TRUE]
    <3>1. settings' = [settings EXCEPT ![n] = p]
      <4>1. settings' = [settings EXCEPT ![n].setup = edits', ![n].reads = TRUE]
        BY <2>1, ByHandIs
      <4>2. QED
        BY <1>2, <2>1, <4>1 DEF ReadProfile, ViyaProfile
    <3>2. p \in ReadProfile /\ p.id = settings[n].id /\ p.client = settings[n].client
      BY <1>2, <1>3, <2>1 DEF ReadProfile, ViyaProfile
    <3>3. p # None
      BY <3>2, NoneIsNoObject DEF ReadProfile
    <3> HIDE DEF p
    <3>4. QED
      BY <1>2, <2>1, <3>1, <3>2, <3>3
  <2>2. CASE settings[n] = None
    <3>1. PICK client \in Clients \cup {NoClient} :
                 settings' = [settings EXCEPT ![n] =
                   [id |-> n, client |-> client, setup |-> edits', reads |-> TRUE]]
      BY <2>2, ByHandIs
    <3> DEFINE p == [id |-> n, client |-> client, setup |-> edits', reads |-> TRUE]
    <3>2. p \in ReadProfile /\ p.id = n
      BY <1>3 DEF ReadProfile, ViyaProfile, Ids
    <3>3. p # None /\ settings' = [settings EXCEPT ![n] = p]
      BY <3>1, <3>2, NoneIsNoObject DEF ReadProfile
    <3>4. ~HasId(settings, n) /\ secret[n] = NoClient
      BY <2>2, ByHandIs
    <3> HIDE DEF p
    <3>5. QED
      BY <1>2, <2>2, <3>2, <3>3, <3>4
  <2>3. QED
    BY <2>1, <2>2
<1> HIDE DEF s2
<1>5. OneName(s2)
  BY <1>2, <1>4 DEF OneName, HasId
<1>6. \A i : HasId(settings, i) => HasId(s2, i)
  <2>1. ASSUME NEW i, NEW m \in Names, settings[m] # None, settings[m].id = i
        PROVE  s2[m] # None /\ s2[m].id = i
    BY <1>4, <2>1
  <2>2. QED
    BY <2>1 DEF HasId
<1>7. \A i \in Uuids : HasId(s2, i) => HasId(settings, i)
  <2>1. \A i \in Uuids : i # n
    BY PsAssumption
  <2>2. ASSUME NEW i \in Uuids, NEW m \in Names, s2[m] # None, s2[m].id = i
        PROVE  settings[m] # None /\ settings[m].id = i
    BY <1>4, <2>1, <2>2
  <2>3. QED
    BY <2>2 DEF HasId
<1>8. ASSUME NEW v \in RunningWindows
      PROVE  CommandFits(command[v], s2, secret, secretless, choice[v])
  <2> DEFINE d == command[v]
  <2>1. CommandFits(d, settings, secret, secretless, choice[v]) /\ ShapeFits(d) /\ FitsSettings(d, settings)
    BY RunningFits
  <2>2. d.out = None
    <3>1. \A u \in RunningWindows : command[u].out = None
      BY <1>1, CalmIs
    <3>2. QED
      BY <3>1
  <2>3. n \notin About(d)
    BY <1>1 DEF Busy
  <2>4. \A h \in About(d) : h \in Names
    BY <2>1 DEF ShapeFits, PsCommand, About
  <2>5. Making(d) => ~HasId(s2, d.profile.id)
    BY <1>7, <2>1 DEF FitsSettings
  <2> HIDE DEF d
  <2>6. \A h \in About(d) : s2[h] = settings[h]
    BY <1>4, <2>3, <2>4
  <2>7. CommandFits(d, s2, secret, secretless, choice[v])
    BY <2>1, <2>2, <2>5, <2>6, CommandStays
  <2>8. QED
    BY <2>7 DEF d
<1>9. \A m \in Names : s2[m] # None /\ ~(\E w \in RunningWindows : LivesAt(command[w], m)) =>
          secret[s2[m].id] \in {NoClient, s2[m].client}
  <2>1. ASSUME NEW m \in Names, s2[m] # None, ~(\E w \in RunningWindows : LivesAt(command[w], m))
        PROVE  secret[s2[m].id] \in {NoClient, s2[m].client}
    <3>1. settings[m] # None => secret[settings[m].id] \in {NoClient, settings[m].client}
      BY <2>1 DEF PsInv, KeepsSecrets
    <3>2. QED
      BY <1>4, <2>1, <3>1
  <2>2. QED
    BY <2>1
<1>10. /\ \A i \in Ids : secret[i] # NoClient =>
           \/ HasId(s2, i)
           \/ \E w \in RunningWindows : Holding(command[w]) /\ command[w].profile.id = i
       /\ \A i \in secretless : secret[i] = NoClient
  BY <1>6 DEF PsInv, KeepsSecrets
<1>11. /\ settings' = s2 /\ command' = command /\ RunningWindows' = RunningWindows
       /\ \A i : HasId(settings', i) <=> HasId(s2, i)
       /\ UNCHANGED <<secret, secretless, choice, began>>
  BY <1>1 DEF s2, RunningWindows
<1>12. KeepsSecrets'
  BY <1>9, <1>10, <1>11 DEF KeepsSecrets
<1>13. Commanded'
  <2>1. \A v, w \in RunningWindows : v # w => ApartFrom(command[v], command[w])
    BY DEF PsInv, Commanded
  <2>2. QED
    BY <1>8, <1>11, <2>1 DEF Commanded
<1>14. PsTyped'
  <2>1. settings' \in [Names -> ReadProfile \cup {None}]
    BY <1>4, <1>11
  <2>2. QED
    BY <1>3, <1>11, <2>1 DEF PsInv, PsTyped
<1>15. OneName(settings')
  BY <1>5, <1>11
<1>16. QED
  BY <1>12, <1>13, <1>14, <1>15 DEF PsInv

LEMMA PsStands ==
    ASSUME PsInv, UNCHANGED psVars
    PROVE  PsInv'
<1>1. /\ settings' = settings /\ secret' = secret /\ secretless' = secretless /\ choice' = choice
      /\ command' = command /\ began' = began /\ edits' = edits /\ RunningWindows' = RunningWindows
  BY DEF psVars, RunningWindows
<1>2. PsTyped' /\ OneName(settings')
  BY <1>1 DEF PsInv, PsTyped
<1>3. Commanded'
  BY <1>1 DEF PsInv, Commanded
<1>4. \A i : HasId(settings', i) <=> HasId(settings, i)
  BY <1>1
<1>5. KeepsSecrets'
  BY <1>1, <1>4 DEF PsInv, KeepsSecrets
<1>6. QED
  BY <1>2, <1>3, <1>5 DEF PsInv

LEMMA PsKept ==
    ASSUME PsMayMeet = {}, PsInv, [PsNext]_psVars
    PROVE  PsInv'
<1>1. CASE \E w \in Windows, op \in PsOps, n \in Names \cup {NoName} : Begin(w, op, n)
  BY <1>1, BeginKeeps
<1>2. CASE \E w \in Windows, n \in Names, client \in Clients \cup {NoClient}, typed \in BOOLEAN :
              Filled(w, n, client, typed)
  BY <1>2, FilledKeeps
<1>3. CASE \E w \in Windows, n \in Names, client \in Clients \cup {NoClient} : Imports(w, n, client)
  BY <1>3, ImportsKeeps
<1>4. CASE \E w \in Windows : DismissesPrompt(w)
  BY <1>4, DismissesKeeps
<1>5. CASE \E w \in Windows : Confirms(w)
  BY <1>5, ConfirmsKeeps
<1>6. CASE \E w \in Windows : FirstHalf(w)
  BY <1>6, FirstHalfKeeps
<1>7. CASE \E w \in Windows : SecondHalf(w)
  BY <1>7, SecondHalfKeeps
<1>8. CASE \E w \in Windows : WritesSettings(w)
  BY <1>8, WritesSettingsKeeps
<1>9. CASE \E w \in Windows : WriteLands(w)
  BY <1>9, WriteLandsKeeps
<1>10. CASE \E w \in Windows : Refused(w)
  BY <1>10, RefusedKeeps
<1>11. CASE \E w \in Windows : Points(w)
  BY <1>11, PointsKeeps
<1>12. CASE \E w \in Windows, typed \in BOOLEAN : TypesSecret(w, typed)
  BY <1>12, TypesSecretKeeps
<1>13. CASE \E w \in Windows, n \in Names \cup {NoName} : Switches(w, n)
  BY <1>13, SwitchesKeeps
<1>14. CASE \E n \in Names : ByHand(n)
  BY <1>14, ByHandKeeps
<1>15. CASE UNCHANGED psVars
  BY <1>15, PsStands
<1>16. QED
  BY <1>1, <1>2, <1>3, <1>4, <1>5, <1>6, <1>7, <1>8, <1>9, <1>10, <1>11, <1>12, <1>13, <1>14, <1>15 DEF PsNext

(* What PsInv says of the shape of the state and of the secrets.           *)
LEMMA PsShows == PsInv => PsTypeOK /\ SecretsFit
<1> SUFFICES ASSUME PsInv PROVE PsTypeOK /\ SecretsFit
  OBVIOUS
<1>1. PsTypeOK
  <2>1. ReadProfile \cup {None} \subseteq ViyaProfile \cup {None}
    BY DEF ReadProfile
  <2>2. settings \in [Names -> ViyaProfile \cup {None}]
    BY <2>1 DEF PsInv, PsTyped
  <2>3. QED
    BY <2>2 DEF PsInv, PsTyped, PsTypeOK
<1>2. ASSUME NEW n \in Names, settings[n] # None, ~InHand(settings[n].id)
      PROVE  secret[settings[n].id] \in {NoClient, settings[n].client}
  <2>1. ASSUME NEW w \in RunningWindows, LivesAt(command[w], n) PROVE FALSE
    <3>1. ShapeFits(command[w]) /\ FitsSettings(command[w], settings)
      BY RunningFits
    <3>2. command[w].profile.id = settings[n].id
      BY <2>1, <3>1 DEF FitsSettings
    <3>3. command[w].profile # None
      BY <2>1, <3>1 DEF ShapeFits, LivesAt
    <3>4. QED
      BY <1>2, <3>2, <3>3 DEF InHand
  <2>2. QED
    BY <1>2, <2>1 DEF PsInv, KeepsSecrets
<1>3. ASSUME NEW i \in Ids, secret[i] # NoClient, ~HasId(settings, i) PROVE InHand(i)
  <2>1. PICK w \in RunningWindows : Holding(command[w]) /\ command[w].profile.id = i
    BY <1>3 DEF PsInv, KeepsSecrets
  <2>2. ShapeFits(command[w])
    BY RunningFits
  <2>3. command[w].profile # None
    BY <2>1, <2>2 DEF ShapeFits, Holding, Making, Gone
  <2>4. QED
    BY <2>1, <2>3 DEF InHand
<1>4. \A i \in secretless : secret[i] = NoClient
  BY DEF PsInv, KeepsSecrets
<1>5. QED
  BY <1>1, <1>2, <1>3, <1>4 DEF SecretsFit

LEMMA PsOnlyItsOwn ==
    ASSUME PsInv, [PsNext]_psVars
    PROVE  [\A n \in Readable(settings) :
              settings'[n] # settings[n] => edits' # edits \/ (\E w \in Out : n \in About(command[w]))]_psVars
<1> SUFFICES ASSUME PsNext, NEW n \in Readable(settings), settings'[n] # settings[n], edits' = edits
             PROVE  \E w \in Out : n \in About(command[w])
  OBVIOUS
<1>1. n \in Names
  BY DEF Readable
<1>2. ASSUME NEW m \in Names, ByHand(m) PROVE FALSE
  <2>1. edits' = edits + 1 /\ edits \in 0 .. MaxEdits
    BY <1>2, Zenon DEF ByHand, PsInv, PsTyped
  <2>2. QED
    BY <2>1, PsBounds
<1>3. ASSUME NEW w \in Windows, WriteLands(w) PROVE n \in About(command[w]) /\ w \in Out
  <2>1. w \in Out /\ w \in RunningWindows /\ command[w].out # None /\ settings' = command[w].out
    BY <1>3 DEF WriteLands, Out
  <2> DEFINE s2 == settings'
             p == command[w].profile
             d == command[w]
  <2>2. s2 = command[w].out /\ p = command[w].profile /\ d = command[w]
    BY <2>1
  <2> HIDE DEF s2, p, d
  <2>3. \A m \in Names : m \notin About(d) => s2[m] = settings[m]
    BY <2>1, <2>2, LandedIs
  <2>4. QED
    BY <1>1, <2>1, <2>3 DEF s2, d
<1>4. ASSUME \A w \in Windows : ~WriteLands(w), \A m \in Names : ~ByHand(m) PROVE settings' = settings
  <2>1. \A w : \A op, n1 : Begin(w, op, n1) => settings' = settings
    BY DEF Begin
  <2>2. \A w, n1, client : (\A typed : Filled(w, n1, client, typed) => settings' = settings)
                            /\ (Imports(w, n1, client) => settings' = settings)
    <3>1. ASSUME NEW w, NEW n1, NEW client, NEW typed, Filled(w, n1, client, typed)
          PROVE  settings' = settings
      BY <3>1, Zenon DEF Filled
    <3>2. ASSUME NEW w, NEW n1, NEW client, Imports(w, n1, client)
          PROVE  settings' = settings
      BY <3>2, Zenon DEF Imports
    <3>3. QED
      BY <3>1, <3>2
  <2>3. \A w : /\ DismissesPrompt(w) \/ Confirms(w) => settings' = settings
               /\ FirstHalf(w) \/ SecondHalf(w) => settings' = settings
               /\ Refused(w) \/ Points(w) => settings' = settings
    BY DEF DismissesPrompt, Confirms, FirstHalf, SecondHalf, Refused, Points
  <2>4. \A w : WritesSettings(w) => settings' = settings
    BY DEF WritesSettings
  <2>5. \A w, n1 : /\ TypesSecret(w, n1) => settings' = settings
                   /\ Switches(w, n1) => settings' = settings
    BY DEF TypesSecret, Switches
  <2>6. QED
    BY <1>4, <2>1, <2>2, <2>3, <2>4, <2>5 DEF PsNext
<1>5. QED
  BY <1>2, <1>3, <1>4

LEMMA PsFollows ==
    ASSUME PsInv
    PROVE  \A w \in RunningWindows : command[w].op = "edit" /\ command[w].at = "upserts"
             => ~command[w].pointed \/ choice[w] = command[w].to
BY RunningFits DEF FitsWindow

(* Once nothing is at work on a profile, the secret kept for it is its     *)
(* client's, none is kept for a profile there is none of, and a client     *)
(* with a stored secret is at no moment recorded as having none (store.ts, *)
(* setSecret and clearSecret; commands.ts, editProfile).  Provided what    *)
(* PsMayMeet names does not happen: no write fails once the secret is      *)
(* changed, and no two commands are at work on one profile.                *)
THEOREM SecretsStayFit ==
    ASSUME PsMayMeet = {}
    PROVE  WorkbenchSpec => []SecretsFit
<1>1. WorkbenchInit => PsInv
  BY PsBegins DEF WorkbenchInit
<1>2. PsInv /\ [WorkbenchNext]_workbenchVars => PsInv'
  BY PsKept, PartsStep
<1>3. QED
  BY <1>1, <1>2, PsShows, PTL DEF WorkbenchSpec

(* A command changes no profile but its own, though it writes the whole    *)
(* setting (store.ts, upsert, rename and remove).                          *)
THEOREM OtherProfilesStay ==
    ASSUME PsMayMeet = {}
    PROVE  WorkbenchSpec => OthersSurvive
<1>1. WorkbenchInit => PsInv
  BY PsBegins DEF WorkbenchInit
<1>2. PsInv /\ [WorkbenchNext]_workbenchVars => PsInv'
  BY PsKept, PartsStep
<1>3. PsInv /\ [WorkbenchNext]_workbenchVars
        => [\A n \in Readable(settings) :
              settings'[n] # settings[n] => edits' # edits \/ (\E w \in Out : n \in About(command[w]))]_psVars
  BY PsOnlyItsOwn, PartsStep
<1>4. QED
  BY <1>1, <1>2, <1>3, PTL DEF WorkbenchSpec, OthersSurvive

(* A window that pointed at a profile points at it under its new name when *)
(* the command that renames it is done (store.ts, rename).                 *)
THEOREM RenamesAreFollowed ==
    ASSUME PsMayMeet = {}
    PROVE  WorkbenchSpec => RenameIsFollowed
<1>1. WorkbenchInit => PsInv
  BY PsBegins DEF WorkbenchInit
<1>2. PsInv /\ [WorkbenchNext]_workbenchVars => PsInv'
  BY PsKept, PartsStep
<1>3. PsInv => [\A w \in RunningWindows : command'[w] = None /\ command[w].op = "edit" /\ command[w].at = "upserts"
                  => ~command[w].pointed \/ choice[w] = command[w].to]_psVars
  BY PsFollows
<1>4. QED
  BY <1>1, <1>2, <1>3, PTL DEF WorkbenchSpec, RenameIsFollowed

-----------------------------------------------------------------------------
(* Notebooks.  A call is at one of its cells; the cells of two calls for   *)
(* one notebook are apart; one call at most has a run to read.             *)
CallFits(c) ==
    /\ calls[c].pc = "idle" => calls[c] = IdleCall
    /\ calls[c].pc # "idle" => /\ calls[c].notebook \in Notebooks
                               /\ calls[c].cell \in CellNumbers
                               /\ calls[c].cell \notin calls[c].left
    /\ calls[c].told \in {Absent, calls[c].notebook}
    /\ Running(c) => slot = c /\ runs[calls[c].backend] = c
    /\ Reads(c) => calls[c].backend \in NbBackends /\ calls[c].backend[1] = nbActive

Apart(c, d) ==
    calls[c].pc # "idle" /\ calls[d].pc # "idle" /\ calls[c].notebook = calls[d].notebook =>
        /\ calls[c].cell # calls[d].cell /\ calls[c].cell \notin calls[d].left
        /\ calls[d].cell \notin calls[c].left /\ calls[c].left \cap calls[d].left = {}

OneReads == \A c, d \in NbCalls : Reads(c) /\ Reads(d) => c = d

NbInv ==
    /\ NbTypeOK /\ StartedIsEnded
    /\ \A c \in NbCalls : CallFits(c)
    /\ \A c, d \in NbCalls : c # d => Apart(c, d)
    /\ OneReads

OthersAt(c) == {CellOf(d) : d \in {e \in NbCalls \ {c} : calls[e].pc # "idle"}}

LEMMA NextCellIs ==
    ASSUME NEW ks, ks \subseteq CellNumbers, ks # {}
    PROVE  NextCell(ks) \in ks
<1>1. ks \subseteq Nat
  BY NotebookAssumption
<1>2. PICK k \in ks : \A j \in ks : ~(<<j, k>> \in OpToRel(<, Nat))
  BY <1>1, NatLessThanWellFounded, WFMin, Zenon
<1>3. \A j \in ks : k <= j
  <2> TAKE j \in ks
  <2>1. ~(j < k)
    BY <1>1, <1>2 DEF OpToRel
  <2>2. QED
    BY <1>1, <2>1
<1>4. QED
  BY <1>2, <1>3, Zenon DEF NextCell

LEMMA NbBegins == NbInit => NbInv
<1> SUFFICES ASSUME NbInit PROVE NbInv
  OBVIOUS
<1>1. 0 \in 0 .. MaxConnections
  BY NotebookAssumption
<1>2. IdleCall \in Call /\ IdleCall.pc = "idle" /\ IdleCall.told = Absent
  BY DEF IdleCall, Call
<1>3. \A c \in NbCalls : calls[c] = IdleCall
  BY DEF NbInit
<1>4. NbTypeOK
  BY <1>1, <1>2 DEF NbInit, NbTypeOK
<1>5. StartedIsEnded
  BY <1>2, <1>3 DEF NbInit, StartedIsEnded
<1>6. QED
  BY <1>2, <1>3, <1>4, <1>5 DEF NbInv, CallFits, Apart, OneReads, Reads, Running

(* The other calls' cells, as one call goes on.                            *)
LEMMA OthersAre ==
    ASSUME NbInv, NEW c \in NbCalls
    PROVE  /\ calls[c].pc = "idle" => unended = OthersAt(c)
           /\ calls[c].pc # "idle" => /\ unended \ {CellOf(c)} = OthersAt(c)
                                      /\ unended = OthersAt(c) \cup {CellOf(c)}
<1>1. unended = {CellOf(d) : d \in {e \in NbCalls : calls[e].pc # "idle"}}
  BY DEF NbInv, StartedIsEnded
<1>2. CASE calls[c].pc = "idle"
  BY <1>1, <1>2 DEF OthersAt
<1>3. CASE calls[c].pc # "idle"
  <2>1. unended = OthersAt(c) \cup {CellOf(c)}
    BY <1>1, <1>3 DEF OthersAt
  <2>2. CellOf(c) \notin OthersAt(c)
    <3>1. SUFFICES ASSUME NEW d \in NbCalls \ {c}, calls[d].pc # "idle", CellOf(d) = CellOf(c)
                   PROVE  FALSE
      BY DEF OthersAt
    <3>2. calls[d].notebook = calls[c].notebook /\ calls[d].cell = calls[c].cell
      BY <3>1 DEF CellOf
    <3>3. QED
      BY <1>3, <3>1, <3>2 DEF NbInv, Apart
  <2>3. QED
    BY <1>3, <2>1, <2>2
<1>4. QED
  BY <1>2, <1>3

(* One call changes, and what it shares with the others stays as they      *)
(* need it.                                                                *)
LEMMA CallMoves ==
    ASSUME NbInv, NEW c \in NbCalls, NEW call \in Call, calls' = [calls EXCEPT ![c] = call],
           NbTypeOK', CallFits(c)',
           \A d \in NbCalls \ {c} : calls[d].pc # "idle" => Apart(c, d)',
           unended' = (IF call.pc = "idle" THEN OthersAt(c)
                       ELSE OthersAt(c) \cup {<<call.notebook, call.cell>>}),
           \A d \in NbCalls \ {c} :
              /\ Running(d) => slot' = slot /\ runs'[calls[d].backend] = d
              /\ Reads(d) => nbActive' = nbActive /\ call.pc \notin {"streaming", "draining"}
    PROVE  NbInv'
<1>1. calls \in [NbCalls -> Call] /\ calls'[c] = call
      /\ \A d \in NbCalls \ {c} : calls'[d] = calls[d]
  BY DEF NbInv, NbTypeOK
<1>2. StartedIsEnded'
  <2>1. \A d \in NbCalls \ {c} : CellOf(d)' = CellOf(d) /\ calls'[d].pc = calls[d].pc
    BY <1>1 DEF CellOf
  <2>2. CellOf(c)' = <<call.notebook, call.cell>> /\ calls'[c].pc = call.pc
    BY <1>1 DEF CellOf
  <2>3. OthersAt(c)' = OthersAt(c)
    BY <2>1 DEF OthersAt
  <2>4. {CellOf(d) : d \in {e \in NbCalls : calls[e].pc # "idle"}}'
          = IF calls'[c].pc = "idle" THEN OthersAt(c)' ELSE OthersAt(c)' \cup {CellOf(c)'}
    BY DEF OthersAt
  <2>5. QED
    BY <2>2, <2>3, <2>4 DEF StartedIsEnded
<1>3. ASSUME NEW d \in NbCalls PROVE CallFits(d)'
  <2>1. CASE d # c
    <3>1. calls'[d] = calls[d] /\ CallFits(d)
      BY <1>1, <2>1 DEF NbInv
    <3>2. Running(d)' = Running(d) /\ Reads(d)' = Reads(d)
      BY <3>1 DEF Running, Reads
    <3>3. /\ Running(d) => slot' = slot /\ runs'[calls[d].backend] = d
          /\ Reads(d) => nbActive' = nbActive
      BY <2>1
    <3>4. QED
      BY <3>1, <3>2, <3>3 DEF CallFits
  <2>2. QED
    BY <2>1
<1>4. ASSUME NEW d \in NbCalls, NEW e \in NbCalls, d # e PROVE Apart(d, e)'
  <2>1. CASE d # c /\ e # c
    <3>1. Apart(d, e) /\ calls'[d] = calls[d] /\ calls'[e] = calls[e]
      BY <1>1, <1>4, <2>1 DEF NbInv
    <3>2. QED
      BY <3>1 DEF Apart
  <2>2. CASE d = c
    <3>1. calls'[e] = calls[e] /\ e \in NbCalls \ {c}
      BY <1>1, <1>4, <2>2
    <3>2. QED
      BY <2>2, <3>1 DEF Apart
  <2>3. CASE e = c
    <3>1. calls'[d] = calls[d] /\ d \in NbCalls \ {c}
      BY <1>1, <1>4, <2>3
    <3>2. calls[d].pc # "idle" => Apart(c, d)'
      BY <3>1
    <3>3. QED
      BY <2>3, <3>1, <3>2 DEF Apart
  <2>4. QED
    BY <2>1, <2>2, <2>3
<1>5. OneReads'
  <2>1. ASSUME NEW d \in NbCalls \ {c} PROVE Reads(d)' = Reads(d) /\ (Reads(d) => ~Reads(c)')
    BY <1>1, <2>1 DEF Reads
  <2>2. QED
    BY <2>1 DEF NbInv, OneReads
<1>6. QED
  BY <1>2, <1>3, <1>4, <1>5 DEF NbInv

(* A call begins its next cell, or is over.                                *)
LEMMA ProceedsKeeps ==
    ASSUME NbInv, NEW c \in NbCalls, NEW given, given.notebook \in Notebooks,
           given.left \subseteq CellNumbers, Proceeds(c, given, OthersAt(c)),
           \A d \in NbCalls \ {c} :
              calls[d].pc # "idle" /\ calls[d].notebook = given.notebook =>
                calls[d].cell \notin given.left /\ calls[d].left \cap given.left = {},
           UNCHANGED <<nbActive, connections, runs, open>>,
           slot' = slot \/ (slot' = Absent /\ \A d \in NbCalls \ {c} : ~Running(d)),
           problems' \subseteq Cells
    PROVE  NbInv'
<1>1. /\ calls \in [NbCalls -> Call] /\ slot' \in NbCalls \cup {Absent}
      /\ unended \subseteq Cells
  BY DEF NbInv, NbTypeOK
<1>2. \A d \in NbCalls \ {c} :
         /\ Running(d) => slot' = slot /\ runs'[calls[d].backend] = d
         /\ Reads(d) => nbActive' = nbActive
  BY DEF NbInv, CallFits
<1>3. OthersAt(c) \subseteq Cells
  BY <1>1, OthersAre
<1>4. CASE calls' = [calls EXCEPT ![c] = IdleCall] /\ unended' = OthersAt(c)
  <2>1. IdleCall \in Call /\ IdleCall.pc = "idle" /\ IdleCall.told = Absent
    BY DEF IdleCall, Call
  <2>2. calls'[c] = IdleCall /\ calls' \in [NbCalls -> Call]
    BY <1>1, <1>4, <2>1
  <2>3. NbTypeOK'
    BY <1>1, <1>3, <1>4, <2>2 DEF NbInv, NbTypeOK
  <2>4. CallFits(c)'
    BY <2>1, <2>2 DEF CallFits, Running, Reads
  <2>5. \A d \in NbCalls \ {c} : Apart(c, d)'
    BY <2>1, <2>2 DEF Apart
  <2>6. QED
    BY <1>2, <1>4, <2>1, <2>3, <2>4, <2>5, CallMoves
<1>5. CASE given.left # {} /\ ~(calls' = [calls EXCEPT ![c] = IdleCall] /\ unended' = OthersAt(c))
  <2> DEFINE k == NextCell(given.left)
             call == [IdleCall EXCEPT !.pc = "connecting", !.notebook = given.notebook,
                                      !.cell = k, !.left = given.left \ {k}]
  <2>1. k \in given.left /\ k \in CellNumbers
    BY <1>5, NextCellIs
  <2>2. /\ calls' = [calls EXCEPT ![c] = call]
        /\ unended' = OthersAt(c) \cup {<<given.notebook, k>>}
    BY <1>5 DEF Proceeds
  <2> HIDE DEF k
  <2>3. /\ call \in Call /\ call.pc = "connecting" /\ call.notebook = given.notebook
        /\ call.cell = k /\ call.left = given.left \ {k} /\ call.told = Absent
    BY <2>1 DEF IdleCall, Call
  <2> HIDE DEF call
  <2>4. calls'[c] = call /\ \A d \in NbCalls \ {c} : calls'[d] = calls[d]
    BY <1>1, <2>2
  <2>5. calls' \in [NbCalls -> Call] /\ unended' \subseteq Cells
    BY <1>1, <1>3, <2>1, <2>2, <2>3 DEF Cells
  <2>6. NbTypeOK'
    BY <1>1, <2>5 DEF NbInv, NbTypeOK
  <2>7. CallFits(c)'
    BY <2>1, <2>3, <2>4 DEF CallFits, Running, Reads
  <2>8. ASSUME NEW d \in NbCalls \ {c}, calls[d].pc # "idle" PROVE Apart(c, d)'
    BY <2>1, <2>3, <2>4, <2>8 DEF Apart
  <2>9. QED
    BY <1>2, <2>2, <2>3, <2>6, <2>7, <2>8, CallMoves
<1>6. QED
  BY <1>4, <1>5 DEF Proceeds

LEMMA EndsKeeps ==
    ASSUME NbInv, NEW c \in NbCalls, calls[c].pc # "idle", EndsCell(c),
           UNCHANGED <<nbActive, connections, runs, open>>,
           slot' = slot \/ (slot' = Absent /\ \A d \in NbCalls \ {c} : ~Running(d)),
           problems' \subseteq Cells
    PROVE  NbInv'
<1>1. /\ calls[c].notebook \in Notebooks /\ calls[c].left \subseteq CellNumbers
  BY DEF NbInv, NbTypeOK, CallFits, Call
<1>2. Proceeds(c, calls[c], OthersAt(c))
  BY OthersAre DEF EndsCell
<1>3. \A d \in NbCalls \ {c} :
         calls[d].pc # "idle" /\ calls[d].notebook = calls[c].notebook =>
           calls[d].cell \notin calls[c].left /\ calls[d].left \cap calls[c].left = {}
  BY DEF NbInv, Apart
<1>4. QED
  BY <1>1, <1>2, <1>3, ProceedsKeeps

(* A call changes as to how its cell runs.                                 *)
LEMMA CellGoesOn ==
    ASSUME NbInv, NEW c \in NbCalls, NEW call \in Call, calls' = [calls EXCEPT ![c] = call],
           calls[c].pc # "idle", call.pc # "idle", call.notebook = calls[c].notebook,
           call.cell = calls[c].cell, call.left = calls[c].left,
           call.told \in {Absent, call.notebook},
           call.pc = "streaming" => slot' = c /\ runs'[call.backend] = c,
           call.pc \in {"streaming", "draining"} =>
             call.backend \in NbBackends /\ call.backend[1] = nbActive,
           UNCHANGED <<nbActive, connections, open, unended>>,
           runs' \in [NbBackends -> NbCalls \cup {Absent}], slot' \in NbCalls \cup {Absent},
           problems' \subseteq Cells,
           \A d \in NbCalls \ {c} :
              /\ Running(d) => slot' = slot /\ runs'[calls[d].backend] = d
              /\ Reads(d) => call.pc \notin {"streaming", "draining"}
    PROVE  NbInv'
<1>1. /\ calls \in [NbCalls -> Call] /\ calls'[c] = call /\ calls' \in [NbCalls -> Call]
      /\ \A d \in NbCalls \ {c} : calls'[d] = calls[d]
  BY DEF NbInv, NbTypeOK
<1>2. NbTypeOK'
  BY <1>1 DEF NbInv, NbTypeOK
<1>3. CallFits(c)'
  <2>1. CallFits(c)
    BY DEF NbInv
  <2>2. QED
    BY <1>1, <2>1 DEF CallFits, Running, Reads
<1>4. ASSUME NEW d \in NbCalls \ {c}, calls[d].pc # "idle" PROVE Apart(c, d)'
  <2>1. Apart(c, d) /\ calls'[d] = calls[d]
    BY <1>1 DEF NbInv
  <2>2. QED
    BY <1>1, <2>1 DEF Apart
<1>5. unended' = OthersAt(c) \cup {<<call.notebook, call.cell>>}
  BY OthersAre DEF CellOf
<1>6. QED
  BY <1>2, <1>3, <1>4, <1>5, CallMoves

LEMMA ExecuteKeeps ==
    ASSUME NbInv, NEW c \in NbCalls, Execute(c)
    PROVE  NbInv'
<1>1. PICK n \in open, numbers \in SUBSET CellNumbers :
         /\ \A k \in numbers : <<n, k>> \notin unended
         /\ \A d \in NbCalls : calls[d].notebook = n => calls[d].left \cap numbers = {}
         /\ Proceeds(c, [notebook |-> n, left |-> numbers], unended)
  BY DEF Execute
<1> DEFINE given == [notebook |-> n, left |-> numbers]
<1>2. /\ unended = OthersAt(c) /\ calls[c].pc = "idle" /\ n \in Notebooks
      /\ UNCHANGED <<nbActive, connections, runs, open, slot, problems>> /\ problems \subseteq Cells
  BY OthersAre DEF Execute, NbInv, NbTypeOK
<1>3. Proceeds(c, given, OthersAt(c)) /\ given.notebook = n /\ given.left = numbers
  BY <1>1, <1>2
<1> HIDE DEF given
<1>4. ASSUME NEW d \in NbCalls \ {c}, calls[d].pc # "idle", calls[d].notebook = n
      PROVE  calls[d].cell \notin numbers
  <2>1. <<n, calls[d].cell>> \in unended
    BY <1>2, <1>4 DEF OthersAt, CellOf
  <2>2. QED
    BY <1>1, <2>1
<1>5. QED
  BY <1>1, <1>2, <1>3, <1>4, ProceedsKeeps

LEMMA ConnectedKeeps ==
    ASSUME NbInv, NEW c \in NbCalls, Connected(c), "drain" \notin MayMeet
    PROVE  NbInv'
<1>1. /\ calls[c].pc = "connecting" /\ calls[c] \in Call
      /\ UNCHANGED <<nbActive, connections, open, unended>> /\ CallFits(c)
      /\ problems \subseteq Cells /\ slot \in NbCalls \cup {Absent}
      /\ runs \in [NbBackends -> NbCalls \cup {Absent}]
  BY DEF Connected, NbInv, NbTypeOK
<1>2. CASE NbBusy(nbActive)
  <2> DEFINE call == [calls[c] EXCEPT !.pc = "refused"]
  <2>1. calls' = [calls EXCEPT ![c] = call] /\ UNCHANGED <<runs, slot, problems>>
    BY <1>2 DEF Connected
  <2>2. /\ call \in Call /\ call.pc = "refused" /\ call.notebook = calls[c].notebook
        /\ call.cell = calls[c].cell /\ call.left = calls[c].left /\ call.told = calls[c].told
    BY <1>1 DEF Call
  <2> HIDE DEF call
  <2>3. \A d \in NbCalls \ {c} : Running(d) => runs[calls[d].backend] = d
    BY DEF NbInv, CallFits
  <2>4. call.told \in {Absent, call.notebook}
    BY <1>1, <2>2 DEF CallFits
  <2>5. QED
    BY <1>1, <2>1, <2>2, <2>3, <2>4, CellGoesOn
<1>3. CASE ~NbBusy(nbActive)
  <2> DEFINE b == Current(nbActive)
             call == [calls[c] EXCEPT !.pc = "streaming", !.backend = b]
  <2>1. b \in NbBackends /\ b[1] = nbActive
    BY DEF NbInv, NbTypeOK, Current, NbBackends
  <2>2. /\ calls' = [calls EXCEPT ![c] = call] /\ runs' = [runs EXCEPT ![b] = c] /\ slot' = c
        /\ problems' \subseteq Cells
    BY <1>1, <1>3 DEF Connected, NbInv, NbTypeOK
  <2> HIDE DEF b
  <2>3. /\ call \in Call /\ call.pc = "streaming" /\ call.notebook = calls[c].notebook
        /\ call.cell = calls[c].cell /\ call.left = calls[c].left /\ call.told = calls[c].told
        /\ call.backend = b
    BY <1>1, <2>1 DEF Call
  <2> HIDE DEF call
  <2>4. runs' \in [NbBackends -> NbCalls \cup {Absent}] /\ runs'[b] = c
    BY <1>1, <2>1, <2>2
  <2>5. ASSUME NEW d \in NbCalls \ {c}, Reads(d) PROVE FALSE
    <3>1. calls[d].backend \in NbBackends /\ calls[d].backend[1] = nbActive
      BY <2>5 DEF NbInv, CallFits
    <3>2. CASE calls[d].pc = "draining"
      BY <1>3, <3>1, <3>2 DEF Connected, Drains
    <3>3. CASE Running(d)
      <4>1. runs[calls[d].backend] = d
        BY <3>3 DEF NbInv, CallFits
      <4>2. PICK p \in NbProfiles, n \in 0 .. MaxConnections : calls[d].backend = <<p, n>>
        BY <3>1 DEF NbBackends
      <4>3. p = nbActive
        BY <3>1, <4>2
      <4>4. runs[<<nbActive, n>>] = d
        BY <4>1, <4>2, <4>3
      <4>5. d # Absent
        BY NotebookAssumption
      <4>6. QED
        BY <1>3, <4>4, <4>5 DEF NbBusy
    <3>4. QED
      BY <2>5, <3>2, <3>3 DEF Reads, Running
  <2>6. call.told \in {Absent, call.notebook}
    BY <1>1, <2>3 DEF CallFits
  <2>7. \A d \in NbCalls \ {c} : ~Running(d)
    BY <2>5 DEF Running, Reads
  <2>8. QED
    BY <1>1, <2>1, <2>2, <2>3, <2>4, <2>5, <2>6, <2>7, CellGoesOn
<1>4. QED
  BY <1>2, <1>3

LEMMA RunEndsKeeps ==
    ASSUME NbInv, NEW b \in NbBackends, RunEnds(b)
    PROVE  NbInv'
<1> DEFINE c == runs[b]
<1>1. /\ c \in NbCalls /\ runs' = [runs EXCEPT ![b] = Absent]
      /\ UNCHANGED <<nbActive, connections, open, slot, unended, problems>>
      /\ calls \in [NbCalls -> Call] /\ runs \in [NbBackends -> NbCalls \cup {Absent}]
      /\ problems \subseteq Cells /\ slot \in NbCalls \cup {Absent}
  BY DEF RunEnds, NbInv, NbTypeOK
<1>2. runs' \in [NbBackends -> NbCalls \cup {Absent}] /\ \A e \in NbBackends \ {b} : runs'[e] = runs[e]
  BY <1>1
<1>3. CASE Running(c) /\ calls[c].backend = b
  <2>1. PICK how \in NbOutcomes :
          calls' = [calls EXCEPT ![c] = [calls[c] EXCEPT !.pc = "draining", !.outcome = how]]
    BY <1>1, <1>3 DEF RunEnds, NbOutcomes
  <2> DEFINE call == [calls[c] EXCEPT !.pc = "draining", !.outcome = how]
  <2>2. /\ call \in Call /\ call.pc = "draining" /\ call.notebook = calls[c].notebook
        /\ call.cell = calls[c].cell /\ call.left = calls[c].left /\ call.told = calls[c].told
        /\ call.backend = b /\ calls[c].pc # "idle"
    <3>1. calls[c] \in Call /\ calls[c].pc = "streaming" /\ calls[c].backend = b
      BY <1>1, <1>3 DEF Running
    <3> HIDE DEF c
    <3>2. QED
      BY <3>1 DEF Call
  <2>3. calls' = [calls EXCEPT ![c] = call]
    BY <2>1
  <2> HIDE DEF call
  <2>4. call.told \in {Absent, call.notebook} /\ b[1] = nbActive
    BY <1>1, <1>3, <2>2 DEF NbInv, CallFits, Reads, Running
  <2>5. \A d \in NbCalls \ {c} : ~Reads(d) /\ ~Running(d)
    BY <1>1, <1>3 DEF NbInv, OneReads, Reads, Running
  <2>6. QED
    <3> HIDE DEF c
    <3> QED BY <1>1, <1>2, <2>2, <2>3, <2>4, <2>5, CellGoesOn
<1>4. CASE ~(Running(c) /\ calls[c].backend = b)
  <2>1. UNCHANGED calls
    BY <1>4 DEF RunEnds
  <2>2. NbTypeOK'
    BY <1>1, <1>2, <2>1 DEF NbInv, NbTypeOK
  <2>3. ASSUME NEW d \in NbCalls PROVE CallFits(d)'
    <3>1. CallFits(d)
      BY DEF NbInv
    <3>2. ASSUME Running(d) PROVE runs'[calls[d].backend] = d
      <4>1. runs[calls[d].backend] = d /\ calls[d].backend \in NbBackends
        BY <3>1, <3>2 DEF CallFits, Reads, Running
      <4>2. calls[d].backend # b
        BY <1>4, <3>2, <4>1
      <4>3. QED
        BY <1>2, <4>1, <4>2
    <3>3. QED
      BY <1>1, <2>1, <3>1, <3>2 DEF CallFits, Running, Reads
  <2>4. QED
    BY <1>1, <2>1, <2>2, <2>3 DEF NbInv, StartedIsEnded, CellOf, Apart, OneReads, Reads
<1>5. QED
  BY <1>3, <1>4

LEMMA SettlesKeeps ==
    ASSUME NbInv, NEW c \in NbCalls,
           NotConnected(c) \/ RefusedCell(c) \/ SettlesCell(c)
    PROVE  NbInv'
<1>1. problems \subseteq Cells
  BY DEF NbInv, NbTypeOK
<1>2. CASE NotConnected(c) \/ RefusedCell(c)
  BY <1>1, <1>2, EndsKeeps DEF NotConnected, RefusedCell
<1>3. CASE SettlesCell(c)
  <2>1. calls[c].pc = "draining" /\ EndsCell(c) /\ slot' = Absent /\ problems' = Publishes(c)
        /\ UNCHANGED <<nbActive, connections, runs, open>>
    BY <1>3 DEF SettlesCell
  <2>2. problems' \subseteq Cells
    BY <1>1, <2>1 DEF NbInv, NbTypeOK, Publishes, CallFits, CellOf, Cells
  <2>3. \A d \in NbCalls \ {c} : ~Running(d)
    BY <2>1 DEF NbInv, OneReads, Reads, Running
  <2>4. QED
    BY <2>1, <2>2, <2>3, EndsKeeps
<1>4. QED
  BY <1>2, <1>3

LEMMA RejectedKeeps ==
    ASSUME NbInv, NEW c \in NbCalls, OutputRejected(c)
    PROVE  NbInv'
<1>1. /\ Reads(c) /\ slot' = Absent /\ calls' = [calls EXCEPT ![c] = IdleCall]
      /\ unended' = unended \ {CellOf(c)} /\ calls[c].pc # "idle"
      /\ UNCHANGED <<nbActive, connections, runs, open, problems>>
  BY DEF OutputRejected, Throws, Reads
<1>2. IdleCall \in Call /\ IdleCall.pc = "idle" /\ IdleCall.told = Absent
  BY DEF IdleCall, Call
<1>3. unended' = OthersAt(c) /\ unended' \subseteq Cells
  BY <1>1, OthersAre DEF NbInv, NbTypeOK
<1>4. calls'[c] = IdleCall /\ calls' \in [NbCalls -> Call]
  BY <1>1, <1>2 DEF NbInv, NbTypeOK
<1>5. NbTypeOK'
  BY <1>1, <1>3, <1>4 DEF NbInv, NbTypeOK
<1>6. CallFits(c)' /\ \A d \in NbCalls \ {c} : Apart(c, d)'
  BY <1>2, <1>4 DEF CallFits, Running, Reads, Apart
<1>7. \A d \in NbCalls \ {c} : ~Running(d)
  BY <1>1 DEF NbInv, OneReads, Reads, Running
<1>8. QED
  BY <1>1, <1>2, <1>3, <1>5, <1>6, <1>7, CallMoves

LEMMA InterruptKeeps ==
    ASSUME NbInv, NEW n \in Notebooks, Interrupt(n)
    PROVE  NbInv'
<1> DEFINE c == slot
           call == [calls[c] EXCEPT !.told = n]
<1>1. /\ c \in NbCalls /\ Running(c) /\ calls[c].notebook = n
      /\ calls' = [calls EXCEPT ![c] = call]
      /\ UNCHANGED <<nbActive, connections, runs, open, slot, unended, problems>>
      /\ problems \subseteq Cells /\ runs \in [NbBackends -> NbCalls \cup {Absent}]
      /\ calls[c] \in Call
  BY DEF Interrupt, Hits, NbInv, NbTypeOK
<1>2. /\ call \in Call /\ call.pc = calls[c].pc /\ call.notebook = n
      /\ call.cell = calls[c].cell /\ call.left = calls[c].left /\ call.told = n
      /\ call.backend = calls[c].backend /\ calls[c].pc # "idle"
  BY <1>1 DEF Call, Running
<1> HIDE DEF call
<1>3. \A d \in NbCalls \ {c} : ~Reads(d) /\ ~Running(d)
  BY <1>1 DEF NbInv, OneReads, Reads, Running
<1>4. /\ runs[calls[c].backend] = c /\ calls[c].backend \in NbBackends
      /\ calls[c].backend[1] = nbActive
  BY <1>1 DEF NbInv, CallFits, Reads, Running
<1>5. QED
  <2> HIDE DEF c
  <2>1. slot' = c /\ slot' \in NbCalls
    BY <1>1 DEF c
  <2> QED BY <1>1, <1>2, <1>3, <1>4, <2>1, CellGoesOn

LEMMA NbBound ==
    ASSUME NEW n \in 0 .. MaxConnections, n < MaxConnections
    PROVE  n + 1 \in 0 .. MaxConnections
<1>1. MaxConnections \in Nat
  BY NotebookAssumption
<1>2. QED
  BY <1>1

LEMMA SurroundingsKeep ==
    ASSUME NbInv, "switch" \notin MayMeet,
           \/ \E n \in Notebooks : CloseNotebook(n) \/ OpenNotebook(n)
           \/ \E p \in NbProfiles : Reconnects(p)
           \/ SwitchesActive \/ UNCHANGED nbVars
    PROVE  NbInv'
<1>1. UNCHANGED <<runs, calls, slot, unended>>
  BY DEF CloseNotebook, OpenNotebook, Reconnects, SwitchesActive, nbVars
<1>2. nbActive' = nbActive \/ \A c \in NbCalls : ~Reads(c)
  BY DEF CloseNotebook, OpenNotebook, Reconnects, SwitchesActive, nbVars, Reads
<1>3. NbTypeOK'
  <2>1. CASE \E p \in NbProfiles : Reconnects(p)
    <3>1. PICK p \in NbProfiles : Reconnects(p)
      BY <2>1
    <3>2. connections[p] \in 0 .. MaxConnections /\ connections[p] < MaxConnections
          /\ connections' = [connections EXCEPT ![p] = connections[p] + 1]
      BY <3>1 DEF Reconnects, NbInv, NbTypeOK
    <3>3. connections[p] + 1 \in 0 .. MaxConnections
      BY <3>2, NbBound
    <3>4. connections' \in [NbProfiles -> 0 .. MaxConnections]
      BY <3>2, <3>3 DEF NbInv, NbTypeOK
    <3>5. QED
      BY <1>1, <3>1, <3>4 DEF Reconnects, NbInv, NbTypeOK
  <2>2. CASE ~(\E p \in NbProfiles : Reconnects(p))
    BY <1>1, <2>2 DEF CloseNotebook, OpenNotebook, SwitchesActive, nbVars, NbInv, NbTypeOK
  <2>3. QED
    BY <2>1, <2>2
<1>4. \A c \in NbCalls : CallFits(c)'
  BY <1>1, <1>2 DEF NbInv, CallFits, Running, Reads
<1>5. QED
  BY <1>1, <1>3, <1>4 DEF NbInv, StartedIsEnded, CellOf, Apart, OneReads, Reads

LEMMA NbKept ==
    ASSUME MayMeet \cap {"switch", "drain"} = {}, NbInv, [NbNext]_nbVars
    PROVE  NbInv'
<1>1. "switch" \notin MayMeet /\ "drain" \notin MayMeet
  OBVIOUS
<1>2. QED
  BY <1>1, ExecuteKeeps, ConnectedKeeps, RunEndsKeeps, SettlesKeeps, RejectedKeeps,
     InterruptKeeps, SurroundingsKeep DEF NbNext, CallStep

LEMMA NbShows == NbInv => NbTypeOK /\ StartedIsEnded /\ InterruptReaches /\ InterruptIsOwn
BY DEF NbInv, CallFits, InterruptReaches, InterruptIsOwn

LEMMA NbStartsOpen ==
    ASSUME [NbNext]_nbVars, NEW cell \in unended' \ unended
    PROVE  cell[1] \in open
<1>1. ASSUME NEW c, NEW given, NEW others, Proceeds(c, given, others), others \subseteq unended
      PROVE  cell[1] \in open
  BY <1>1 DEF Proceeds, MayStart
<1>2. PICK c \in NbCalls : Execute(c) \/ EndsCell(c)
  BY DEF NbNext, nbVars, CallStep, NotConnected, Connected, RefusedCell, SettlesCell,
     OutputRejected, Throws, RunEnds, Interrupt, CloseNotebook, OpenNotebook, Reconnects,
     SwitchesActive
<1>3. CASE Execute(c)
  BY <1>1, <1>3 DEF Execute
<1>4. CASE EndsCell(c)
  <2>1. Proceeds(c, calls[c], unended \ {CellOf(c)})
    BY <1>4 DEF EndsCell
  <2>2. QED
    BY <1>1, <2>1
<1>5. QED
  BY <1>2, <1>3, <1>4

(* The cells shown as executing are those a call is at, on every way out;  *)
(* a cell that runs on the backend can be interrupted, and only for its    *)
(* own notebook.  (Provided the active profile stays while a call is under *)
(* way, and no cell starts while the output of another is still written.)  *)
THEOREM CellsStayOwn ==
    ASSUME MayMeet \cap {"switch", "drain"} = {}
    PROVE  WorkbenchSpec => [](StartedIsEnded /\ InterruptReaches /\ InterruptIsOwn)
<1>1. WorkbenchInit => NbInv
  BY NbBegins DEF WorkbenchInit
<1>2. NbInv /\ [WorkbenchNext]_workbenchVars => NbInv'
  BY NbKept, PartsStep
<1>3. NbInv => StartedIsEnded /\ InterruptReaches /\ InterruptIsOwn
  BY NbShows
<1>4. QED
  BY <1>1, <1>2, <1>3, PTL DEF WorkbenchSpec

(* No cell of a closed notebook is started, whatever else goes on.         *)
THEOREM StartsOnlyOpen == WorkbenchSpec => NothingStartsClosed
<1>1. [WorkbenchNext]_workbenchVars => [\A cell \in unended' \ unended : cell[1] \in open]_nbVars
  BY NbStartsOpen, PartsStep
<1>2. QED
  BY <1>1, PTL DEF WorkbenchSpec, NothingStartsClosed

-----------------------------------------------------------------------------
(* The interactive window.  Who is at work on a notebook's cells is the    *)
(* first of the chain; a cell is inserted as the last one.                 *)
HasWindow == {"revealing", "queued", "inserting", "waiting", "executing", "pausing"}
Working(s) ==
    \/ commands[s].pc \in {"inserting", "waiting", "executing", "pausing"}
    \/ commands[s].again /\ commands[s].pc \in {"creating", "revealing"}
InChain(s) == \E i \in 1 .. Len(chain) : chain[i] = s
HoldsAt(w, k, s) == k + 1 \in 1 .. Len(cells[w]) /\ cells[w][k + 1] = s

SelectionFits(s) ==
    /\ commands[s].pc = "idle" => ~commands[s].again
    /\ commands[s].pc \in HasWindow => commands[s].window \in IwWindows
    /\ Working(s) => chain # <<>> /\ Head(chain) = s
    /\ commands[s].pc = "queued" => InChain(s)
    /\ commands[s].pc = "inserting" => commands[s].index = Len(cells[commands[s].window])
    /\ commands[s].pc \in {"waiting", "executing", "pausing"} =>
         HoldsAt(commands[s].window, commands[s].index, s)

IwTracks ==
    /\ tracked \in 0 .. opened
    /\ creating => tracked = 0 \/ ~IsOpen(tracked)

IwInv ==
    /\ IwTypeOK /\ IwTracks /\ OneWindow /\ RunsItsOwn
    /\ \A s \in Selections : SelectionFits(s)

LEMMA IwMax == MaxWindows \in Nat
BY InteractiveAssumption

LEMMA IwBegins == IwInit => IwInv
<1> SUFFICES ASSUME IwInit PROVE IwInv
  OBVIOUS
<1>1. 0 \in 0 .. MaxWindows
  BY IwMax
<1>2. IdleCommand \in CommandState /\ IdleCommand.pc = "idle" /\ IdleCommand.again = FALSE
  BY <1>1 DEF IdleCommand, CommandState, Steps
<1>3. \A s \in Selections : commands[s] = IdleCommand
  BY DEF IwInit
<1>4. IwTypeOK
  <2>1. <<>> \in Seq(Selections \cup {TheUser}) /\ <<>> \in Seq(Selections)
    OBVIOUS
  <2>2. QED
    BY <1>1, <1>2, <2>1 DEF IwInit, IwTypeOK
<1>5. IwTracks /\ OneWindow /\ RunsItsOwn
  BY DEF IwInit, IwTracks, OneWindow, RunsItsOwn, IsOpen
<1>6. QED
  BY <1>2, <1>3, <1>4, <1>5 DEF IwInv, SelectionFits, Working, HasWindow

(* A cell inserted at the end.                                             *)
LEMMA InsertedLast ==
    ASSUME NEW S, NEW q \in Seq(S), NEW e \in S
    PROVE  /\ InsertAt(q, Len(q) + 1, e) \in Seq(S)
           /\ Len(InsertAt(q, Len(q) + 1, e)) = Len(q) + 1
           /\ InsertAt(q, Len(q) + 1, e)[Len(q) + 1] = e
           /\ \A i \in 1 .. Len(q) : InsertAt(q, Len(q) + 1, e)[i] = q[i]
<1>1. Len(q) \in Nat /\ Len(q) + 1 - 1 = Len(q)
  OBVIOUS
<1>2. SubSeq(q, 1, Len(q) + 1 - 1) = q
  <2>1. SubSeq(q, 1, Len(q)) = q
    OBVIOUS
  <2>2. QED
    BY <1>1, <2>1, Zenon
<1>3. SubSeq(q, Len(q) + 1, Len(q)) = <<>>
  OBVIOUS
<1>4. InsertAt(q, Len(q) + 1, e) = q \o <<e>> \o <<>>
  <2> DEFINE a == SubSeq(q, 1, Len(q) + 1 - 1)
             b == SubSeq(q, Len(q) + 1, Len(q))
  <2>1. InsertAt(q, Len(q) + 1, e) = a \o <<e>> \o b
    BY DEF InsertAt
  <2>2. a = q /\ b = <<>>
    BY <1>2, <1>3
  <2> HIDE DEF a, b
  <2>3. QED
    BY <2>1, <2>2
<1>5. q \o <<e>> \o <<>> = Append(q, e)
  OBVIOUS
<1>6. QED
  BY <1>4, <1>5

(* The user's cell, wherever it is.                                        *)
LEMMA InsertedAnywhere ==
    ASSUME NEW S, NEW q \in Seq(S), NEW e \in S, NEW k \in 1 .. Len(q) + 1
    PROVE  InsertAt(q, k, e) \in Seq(S)
<1>1. SubSeq(q, 1, k - 1) \in Seq(S) /\ SubSeq(q, k, Len(q)) \in Seq(S)
  OBVIOUS
<1>2. QED
  BY <1>1 DEF InsertAt

(* The chain goes on as the first is over: who is queued stays in it.      *)
LEMMA TurnsPass ==
    ASSUME chain \in Seq(Selections), NEW gone, NextTurn(gone)
    PROVE  /\ chain' \in Seq(Selections)
           /\ \A s \in Selections \ gone : InChain(s) => InChain(s)'
           /\ \A s \in Selections \ gone : chain # <<>> /\ Head(chain) = s
                => chain' = chain
<1>1. CASE chain # <<>> /\ Head(chain) \in gone
  <2>1. chain' = Tail(chain) /\ chain' \in Seq(Selections) /\ Len(chain') = Len(chain) - 1
        /\ \A i \in 1 .. Len(chain') : chain'[i] = chain[i + 1]
    BY <1>1 DEF NextTurn
  <2>2. ASSUME NEW s \in Selections \ gone, InChain(s) PROVE InChain(s)'
    <3>1. PICK i \in 1 .. Len(chain) : chain[i] = s
      BY <2>2 DEF InChain
    <3>2. Len(chain) \in Nat /\ Head(chain) = chain[1]
      OBVIOUS
    <3>3. i # 1
      BY <1>1, <3>1, <3>2
    <3>4. i - 1 \in 1 .. Len(chain') /\ i - 1 + 1 = i
      BY <2>1, <3>1, <3>2, <3>3
    <3>5. chain'[i - 1] = s
      BY <2>1, <3>1, <3>4
    <3>6. QED
      BY <3>4, <3>5 DEF InChain
  <2>3. QED
    BY <1>1, <2>1, <2>2, Zenon
<1>2. CASE ~(chain # <<>> /\ Head(chain) \in gone)
  BY <1>2 DEF NextTurn, InChain
<1>3. QED
  BY <1>1, <1>2

(* A command that is neither at work nor queued asks nothing of the chain. *)
LEMMA SelectionStays ==
    ASSUME IwInv, NEW s \in Selections, commands'[s] = commands[s],
           ~Working(s) \/ UNCHANGED cells,
           InChain(s) => InChain(s)',
           chain # <<>> /\ Head(chain) = s => chain' # <<>> /\ Head(chain') = s
    PROVE  SelectionFits(s)'
<1>1. SelectionFits(s)
  BY DEF IwInv
<1>2. Working(s)' = Working(s)
  BY DEF Working
<1>3. commands[s].pc \in {"inserting", "waiting", "executing", "pausing"} =>
        Working(s) /\ commands[s].window \in IwWindows
  BY <1>1 DEF Working, SelectionFits, HasWindow
<1>4. commands[s].pc \in {"inserting", "waiting", "executing", "pausing"} => cells' = cells
  BY <1>3
<1>5. QED
  BY <1>1, <1>2, <1>4 DEF SelectionFits, HoldsAt

LEMMA IwLens == IwInv => \A w \in IwWindows : cells[w] \in Seq(Selections \cup {TheUser})
BY DEF IwInv, IwTypeOK

(* One command goes on, the notebooks' cells stay.                         *)
LEMMA SelectionMoves ==
    ASSUME IwInv, NEW s \in Selections, NEW mine \in CommandState,
           commands' = [commands EXCEPT ![s] = mine], UNCHANGED cells,
           IwTypeOK', IwTracks', OneWindow', RunsItsOwn', SelectionFits(s)',
           \A t \in Selections \ {s} : InChain(t) => InChain(t)',
           \A t \in Selections \ {s} : chain # <<>> /\ Head(chain) = t
             => chain' # <<>> /\ Head(chain') = t
    PROVE  IwInv'
<1>1. commands' \in [Selections -> CommandState]
      /\ \A t \in Selections \ {s} : commands'[t] = commands[t]
  BY DEF IwInv, IwTypeOK
<1>2. ASSUME NEW t \in Selections, t # s PROVE SelectionFits(t)'
  BY <1>1, <1>2, SelectionStays
<1>3. QED
  BY <1>2 DEF IwInv

(* What is tracked, as a command obtains its notebook.                     *)
LEMMA ObtainsIs ==
    ASSUME IwInv, NEW s \in Selections, NEW mine \in CommandState, NEW track \in 0 .. opened,
           Obtains(s, mine, track)
    PROVE  \E after \in CommandState :
             /\ commands' = [commands EXCEPT ![s] = after]
             /\ after.again = mine.again /\ after.index = mine.index
             /\ \/ after.pc = "revealing" /\ after.window = track /\ track \in IwWindows
                     /\ IsOpen(track) /\ UNCHANGED creating
                \/ after.pc = "creating" /\ creating' = TRUE /\ (track = 0 \/ ~IsOpen(track))
<1>1. CASE track # 0 /\ IsOpen(track)
  <2> DEFINE after == [mine EXCEPT !.pc = "revealing", !.window = track]
  <2>1. track \in IwWindows /\ track \in 0 .. MaxWindows
    BY <1>1, IwMax DEF IwInv, IwTypeOK, IwWindows
  <2>2. /\ after \in CommandState /\ after.pc = "revealing" /\ after.window = track
        /\ after.again = mine.again /\ after.index = mine.index
    BY <2>1 DEF CommandState, Steps
  <2>3. commands' = [commands EXCEPT ![s] = after] /\ UNCHANGED creating
    BY <1>1 DEF Obtains
  <2> HIDE DEF after
  <2>4. QED
    BY <1>1, <2>1, <2>2, <2>3
<1>2. CASE ~(track # 0 /\ IsOpen(track))
  <2> DEFINE after == [mine EXCEPT !.pc = "creating"]
  <2>2. /\ after \in CommandState /\ after.pc = "creating"
        /\ after.again = mine.again /\ after.index = mine.index
    BY DEF CommandState, Steps
  <2>3. commands' = [commands EXCEPT ![s] = after] /\ creating' = TRUE
    BY <1>2 DEF Obtains
  <2> HIDE DEF after
  <2>4. QED
    BY <1>2, <2>2, <2>3
<1>3. QED
  BY <1>1, <1>2

LEMMA RunSelectionKeeps ==
    ASSUME IwInv, NEW s \in Selections, RunSelection(s)
    PROVE  IwInv'
<1>1. /\ commands[s].pc = "idle" /\ Obtains(s, commands[s], tracked)
      /\ UNCHANGED <<tracked, opened, closed, cells, selected, chain, ran, refused>>
  BY DEF RunSelection, At
<1>2. commands[s] \in CommandState /\ tracked \in 0 .. opened
  BY DEF IwInv, IwTypeOK, IwTracks
<1>3. PICK after \in CommandState :
         /\ commands' = [commands EXCEPT ![s] = after]
         /\ after.again = commands[s].again /\ after.index = commands[s].index
         /\ \/ after.pc = "revealing" /\ after.window = tracked /\ tracked \in IwWindows
                 /\ IsOpen(tracked) /\ UNCHANGED creating
            \/ after.pc = "creating" /\ creating' = TRUE /\ (tracked = 0 \/ ~IsOpen(tracked))
  BY <1>1, <1>2, ObtainsIs
<1>4. commands[s].again = FALSE
  BY <1>1, <1>2 DEF IwInv, SelectionFits, CommandState
<1>5. commands'[s] = after /\ creating' \in BOOLEAN /\ commands' \in [Selections -> CommandState]
  BY <1>2, <1>3 DEF IwInv, IwTypeOK
<1>6. IwTypeOK' /\ OneWindow' /\ RunsItsOwn'
  BY <1>1, <1>5 DEF IwInv, IwTypeOK, OneWindow, RunsItsOwn, IsOpen
<1>7. IwTracks'
  BY <1>1, <1>3 DEF IwInv, IwTracks, IsOpen
<1>8. SelectionFits(s)'
  BY <1>3, <1>4, <1>5 DEF SelectionFits, HasWindow, Working
<1>9. QED
  BY <1>1, <1>3, <1>6, <1>7, <1>8, SelectionMoves DEF InChain

(* A command that is over leaves the chain to the next one.                *)
LEMMA OverKeeps ==
    ASSUME IwInv, NEW s \in Selections, Over(s), UNCHANGED cells,
           UNCHANGED <<tracked, creating, opened, closed, selected>>,
           refused \subseteq refused', refused' \subseteq IwWindows,
           ran' \subseteq Selections \X (Selections \cup {TheUser}), RunsItsOwn'
    PROVE  IwInv'
<1> DEFINE mine == [commands[s] EXCEPT !.pc = "done"]
<1>1. commands' = [commands EXCEPT ![s] = mine] /\ NextTurn({s})
  BY DEF Over
<1>2. commands[s] \in CommandState /\ commands \in [Selections -> CommandState]
  BY DEF IwInv, IwTypeOK
<1>3. mine \in CommandState /\ mine.pc = "done"
  BY <1>2 DEF CommandState, Steps
<1> HIDE DEF mine
<1>4. commands'[s] = mine /\ commands' \in [Selections -> CommandState]
  BY <1>1, <1>2, <1>3
<1>5. chain \in Seq(Selections)
  BY DEF IwInv, IwTypeOK
<1>6. /\ chain' \in Seq(Selections)
      /\ \A t \in Selections \ {s} : InChain(t) => InChain(t)'
      /\ \A t \in Selections \ {s} : chain # <<>> /\ Head(chain) = t => chain' = chain
  BY <1>1, <1>5, TurnsPass
<1>7. IwTypeOK' /\ OneWindow' /\ IwTracks'
  BY <1>4, <1>6 DEF IwInv, IwTypeOK, OneWindow, IwTracks, IsOpen
<1>8. SelectionFits(s)'
  BY <1>3, <1>4 DEF SelectionFits, HasWindow, Working
<1>9. QED
  BY <1>1, <1>3, <1>6, <1>7, <1>8, SelectionMoves

LEMMA RevealedKeeps ==
    ASSUME IwInv, NEW s \in Selections, Revealed(s)
    PROVE  IwInv'
<1> DEFINE w == commands[s].window
<1>1. /\ commands[s].pc = "revealing" /\ commands[s] \in CommandState
      /\ UNCHANGED <<tracked, creating, opened, closed, cells, selected, ran, refused>>
      /\ commands \in [Selections -> CommandState] /\ chain \in Seq(Selections)
  BY DEF Revealed, At, IwInv, IwTypeOK
<1>2. w \in IwWindows
  BY <1>1 DEF IwInv, SelectionFits, HasWindow
<1>3. cells[w] \in Seq(Selections \cup {TheUser})
  BY <1>2 DEF IwInv, IwTypeOK
<1>4. Len(cells[w]) \in Nat
  BY <1>3
<1>5. CASE commands[s].again
  <2> DEFINE mine == [commands[s] EXCEPT !.pc = "inserting", !.index = Len(cells[w])]
  <2>1. commands' = [commands EXCEPT ![s] = mine] /\ UNCHANGED chain
    BY <1>1, <1>5 DEF Revealed
  <2>2. /\ mine \in CommandState /\ mine.pc = "inserting"
        /\ mine.index = Len(cells[w]) /\ mine.window = w
    BY <1>1, <1>4 DEF CommandState, Steps
  <2> HIDE DEF mine
  <2>3. commands'[s] = mine /\ commands' \in [Selections -> CommandState]
    BY <1>1, <2>1, <2>2
  <2>4. Head(chain) = s /\ chain # <<>>
    BY <1>1, <1>5 DEF IwInv, SelectionFits, Working
  <2>5. SelectionFits(s)'
    BY <1>1, <1>2, <2>1, <2>2, <2>3, <2>4 DEF SelectionFits, HasWindow, Working
  <2>6. IwTypeOK' /\ OneWindow' /\ IwTracks' /\ RunsItsOwn'
    BY <1>1, <2>1, <2>3 DEF IwInv, IwTypeOK, OneWindow, IwTracks, IsOpen, RunsItsOwn
  <2>7. QED
    BY <1>1, <2>1, <2>2, <2>5, <2>6, SelectionMoves DEF InChain
<1>6. CASE ~commands[s].again
  <2> DEFINE mine == [commands[s] EXCEPT !.pc = "queued"]
  <2>1. commands' = [commands EXCEPT ![s] = mine] /\ chain' = Append(chain, s)
    BY <1>1, <1>6 DEF Revealed
  <2>2. /\ mine \in CommandState /\ mine.pc = "queued" /\ mine.window = w
        /\ mine.again = commands[s].again
    BY <1>1 DEF CommandState, Steps
  <2> HIDE DEF mine
  <2>3. commands'[s] = mine /\ commands' \in [Selections -> CommandState]
    BY <1>1, <2>1, <2>2
  <2>4. /\ chain' \in Seq(Selections) /\ Len(chain') = Len(chain) + 1 /\ Len(chain) \in Nat
        /\ chain'[Len(chain) + 1] = s /\ \A i \in 1 .. Len(chain) : chain'[i] = chain[i]
    BY <1>1, <2>1
  <2>5. InChain(s)' /\ \A t \in Selections : InChain(t) => InChain(t)'
    BY <2>4 DEF InChain
  <2>6. \A t \in Selections : chain # <<>> /\ Head(chain) = t => chain' # <<>> /\ Head(chain') = t
    <3>1. CASE chain = <<>>
      BY <3>1
    <3>2. CASE chain # <<>>
      <4>1. 1 \in 1 .. Len(chain) /\ Head(chain) = chain[1]
        BY <1>1, <3>2
      <4>2. chain' # <<>> /\ Head(chain') = chain'[1]
        BY <2>1, <2>4
      <4>3. QED
        BY <2>4, <4>1, <4>2
    <3>3. QED
      BY <3>1, <3>2
  <2>7. SelectionFits(s)'
    BY <1>2, <1>6, <2>2, <2>3, <2>5 DEF SelectionFits, HasWindow, Working
  <2>8. IwTypeOK' /\ OneWindow' /\ IwTracks' /\ RunsItsOwn'
    BY <1>1, <2>3, <2>4 DEF IwInv, IwTypeOK, OneWindow, IwTracks, IsOpen, RunsItsOwn
  <2>9. QED
    BY <1>1, <2>1, <2>2, <2>5, <2>6, <2>7, <2>8, SelectionMoves
<1>7. QED
  BY <1>5, <1>6

LEMMA InsertKeeps ==
    ASSUME IwInv, NEW s \in Selections, Insert(s)
    PROVE  IwInv'
<1> DEFINE w == commands[s].window
           mine == [commands[s] EXCEPT !.pc = "inserting", !.index = Len(cells[w])]
<1>1. /\ commands[s].pc = "queued" /\ commands[s] \in CommandState /\ Head(chain) = s
      /\ UNCHANGED <<tracked, creating, opened, closed, cells, selected, chain, ran, refused>>
      /\ commands \in [Selections -> CommandState] /\ chain \in Seq(Selections)
      /\ commands' = [commands EXCEPT ![s] = mine]
  BY DEF Insert, At, IwInv, IwTypeOK, MyTurn
<1>2. w \in IwWindows /\ InChain(s)
  BY <1>1 DEF IwInv, SelectionFits, HasWindow
<1>3. cells[w] \in Seq(Selections \cup {TheUser})
  BY <1>2 DEF IwInv, IwTypeOK
<1>4. Len(cells[w]) \in Nat
  BY <1>3
<1>5. /\ mine \in CommandState /\ mine.pc = "inserting"
      /\ mine.index = Len(cells[w]) /\ mine.window = w
  BY <1>1, <1>4 DEF CommandState, Steps
<1> HIDE DEF mine
<1>6. commands'[s] = mine /\ commands' \in [Selections -> CommandState]
  BY <1>1, <1>5
<1>7. chain # <<>>
  BY <1>2 DEF InChain
<1>8. SelectionFits(s)'
  BY <1>1, <1>2, <1>5, <1>6, <1>7 DEF SelectionFits, HasWindow, Working
<1>9. IwTypeOK' /\ OneWindow' /\ IwTracks' /\ RunsItsOwn'
  BY <1>1, <1>6 DEF IwInv, IwTypeOK, OneWindow, IwTracks, IsOpen, RunsItsOwn
<1>10. QED
  BY <1>1, <1>5, <1>8, <1>9, SelectionMoves DEF InChain

LEMMA InsertedKeeps ==
    ASSUME IwInv, NEW s \in Selections, Inserted(s)
    PROVE  IwInv'
<1> DEFINE w == commands[s].window
           grown == InsertAt(cells[w], commands[s].index + 1, s)
<1>1. /\ commands[s].pc = "inserting" /\ commands[s] \in CommandState
      /\ UNCHANGED <<tracked, creating, opened, closed, selected, chain, ran, refused>>
      /\ commands \in [Selections -> CommandState] /\ chain \in Seq(Selections)
      /\ cells' = [cells EXCEPT ![w] = grown]
  BY DEF Inserted, At, IwInv, IwTypeOK
<1>2. PICK next \in {"executing", "waiting"} :
         commands' = [commands EXCEPT ![s] = [commands[s] EXCEPT !.pc = next]]
  BY <1>1 DEF Inserted
<1> DEFINE mine == [commands[s] EXCEPT !.pc = next]
<1>3. /\ mine \in CommandState /\ mine.pc = next /\ mine.window = w
      /\ mine.index = commands[s].index
  BY <1>1 DEF CommandState, Steps
<1>4. commands' = [commands EXCEPT ![s] = mine]
  BY <1>2
<1> HIDE DEF mine
<1>5. /\ commands'[s] = mine /\ commands' \in [Selections -> CommandState]
      /\ \A t \in Selections \ {s} : commands'[t] = commands[t]
  BY <1>1, <1>3, <1>4
<1>6. /\ w \in IwWindows /\ commands[s].index = Len(cells[w]) /\ chain # <<>> /\ Head(chain) = s
  BY <1>1 DEF IwInv, SelectionFits, HasWindow, Working
<1>7. cells[w] \in Seq(Selections \cup {TheUser}) /\ cells \in [IwWindows -> Seq(Selections \cup {TheUser})]
  BY <1>6 DEF IwInv, IwTypeOK
<1>8. /\ grown \in Seq(Selections \cup {TheUser}) /\ Len(grown) = Len(cells[w]) + 1
      /\ grown[Len(cells[w]) + 1] = s
  <2> DEFINE row == cells[w]
             writers == Selections \cup {TheUser}
  <2>1. grown = InsertAt(row, Len(row) + 1, s) /\ s \in writers /\ row \in Seq(writers)
    BY <1>6, <1>7
  <2> HIDE DEF grown, row, writers
  <2>2. /\ grown \in Seq(writers) /\ Len(grown) = Len(row) + 1 /\ grown[Len(row) + 1] = s
    BY <2>1, InsertedLast
  <2>3. QED
    BY <2>2 DEF row, writers
<1> HIDE DEF grown
<1>9. cells'[w] = grown /\ cells' \in [IwWindows -> Seq(Selections \cup {TheUser})]
  BY <1>1, <1>6, <1>7, <1>8
<1>10. mine.index + 1 \in 1 .. Len(grown) /\ grown[mine.index + 1] = s
  <2>1. Len(cells[w]) \in Nat
    BY <1>7
  <2>2. QED
    BY <1>3, <1>6, <1>8, <2>1
<1>11. SelectionFits(s)'
  <2>1. /\ commands'[s].pc \in {"executing", "waiting"} /\ commands'[s].window \in IwWindows
        /\ chain' # <<>> /\ Head(chain') = s
    BY <1>1, <1>3, <1>5, <1>6
  <2>2. /\ commands'[s].index + 1 \in 1 .. Len(cells'[commands'[s].window])
        /\ cells'[commands'[s].window][commands'[s].index + 1] = s
    BY <1>3, <1>5, <1>9, <1>10
  <2>3. QED
    BY <2>1, <2>2 DEF SelectionFits, HoldsAt
<1>12. \A t \in Selections \ {s} : ~Working(t)
  BY <1>6 DEF IwInv, SelectionFits
<1>13. ASSUME NEW t \in Selections \ {s} PROVE SelectionFits(t)'
  <2>1. t \in Selections /\ ~Working(t) /\ commands'[t] = commands[t]
    BY <1>5, <1>12
  <2>2. (InChain(t) => InChain(t)') /\ (chain # <<>> /\ Head(chain) = t => chain' # <<>> /\ Head(chain') = t)
    BY <1>1 DEF InChain
  <2>3. QED
    BY <2>1, <2>2, SelectionStays
<1>14. IwTypeOK' /\ OneWindow' /\ IwTracks' /\ RunsItsOwn'
  BY <1>1, <1>5, <1>9 DEF IwInv, IwTypeOK, OneWindow, IwTracks, IsOpen, RunsItsOwn
<1>15. QED
  BY <1>11, <1>13, <1>14 DEF IwInv

LEMMA NotRevealedKeeps ==
    ASSUME IwInv, NEW s \in Selections, NotRevealed(s)
    PROVE  IwInv'
<1>1. /\ Over(s)
      /\ UNCHANGED <<tracked, creating, opened, closed, cells, selected, ran, refused>>
  BY DEF NotRevealed
<1>2. /\ refused' \subseteq IwWindows /\ ran' \subseteq Selections \X (Selections \cup {TheUser})
      /\ RunsItsOwn'
  BY <1>1 DEF IwInv, IwTypeOK, RunsItsOwn
<1>3. QED
  BY <1>1, <1>2, OverKeeps

LEMMA NotInsertedKeeps ==
    ASSUME IwInv, NEW s \in Selections, NotInserted(s)
    PROVE  IwInv'
<1> DEFINE w == commands[s].window
           left == IF tracked = w THEN 0 ELSE tracked
<1>1. /\ commands[s].pc = "inserting" /\ refused' = refused \cup {w}
      /\ UNCHANGED <<opened, closed, cells, selected, ran>>
      /\ commands[s] \in CommandState /\ chain \in Seq(Selections)
      /\ commands \in [Selections -> CommandState]
  BY DEF NotInserted, At, IwInv, IwTypeOK
<1>2. w \in IwWindows /\ chain # <<>> /\ Head(chain) = s
  BY <1>1 DEF IwInv, SelectionFits, HasWindow, Working
<1>3. /\ refused' \subseteq IwWindows /\ ran' \subseteq Selections \X (Selections \cup {TheUser})
      /\ RunsItsOwn'
  BY <1>1, <1>2 DEF IwInv, IwTypeOK, RunsItsOwn
<1>4. CASE commands[s].again
  <2>1. Over(s) /\ UNCHANGED <<tracked, creating>>
    BY <1>4 DEF NotInserted
  <2>2. QED
    BY <1>1, <1>3, <2>1, OverKeeps
<1>5. CASE ~commands[s].again
  <2> DEFINE before == [commands[s] EXCEPT !.again = TRUE]
  <2>1. tracked' = left /\ Obtains(s, before, left) /\ UNCHANGED chain
    BY <1>5 DEF NotInserted
  <2>2. before \in CommandState /\ before.again = TRUE
    BY <1>1 DEF CommandState
  <2>3. left \in 0 .. opened /\ opened \in 0 .. MaxWindows
    BY IwMax DEF IwInv, IwTypeOK, IwTracks
  <2> HIDE DEF before, left
  <2>4. PICK after \in CommandState :
           /\ commands' = [commands EXCEPT ![s] = after]
           /\ after.again = before.again /\ after.index = before.index
           /\ \/ after.pc = "revealing" /\ after.window = left /\ left \in IwWindows
                   /\ IsOpen(left) /\ UNCHANGED creating
              \/ after.pc = "creating" /\ creating' = TRUE /\ (left = 0 \/ ~IsOpen(left))
    BY <2>1, <2>2, <2>3, ObtainsIs
  <2>5. commands'[s] = after /\ creating' \in BOOLEAN /\ commands' \in [Selections -> CommandState]
    BY <1>1, <2>4 DEF IwInv, IwTypeOK
  <2>6. left \in 0 .. MaxWindows
    BY <2>3, IwMax
  <2>7. IwTypeOK' /\ RunsItsOwn'
    BY <1>1, <1>3, <2>1, <2>5, <2>6 DEF IwInv, IwTypeOK
  <2>8. left = 0 \/ left = tracked
    BY DEF left
  <2>9. IwTracks'
    <3>1. creating' => left = 0 \/ ~IsOpen(left)
      BY <2>4, <2>8 DEF IwInv, IwTracks
    <3>2. QED
      BY <1>1, <2>1, <2>3, <3>1 DEF IwTracks, IsOpen
  <2>10. OneWindow'
    <3>1. \A v \in 1 .. opened : IsOpen(v) /\ v # left => v \in refused'
      BY <1>1 DEF IwInv, OneWindow, left
    <3>2. QED
      BY <1>1, <2>1, <3>1 DEF OneWindow, IsOpen
  <2>11. SelectionFits(s)'
    <3>1. /\ commands'[s].pc \in {"revealing", "creating"}
          /\ commands'[s].pc = "revealing" => commands'[s].window \in IwWindows
          /\ chain' # <<>> /\ Head(chain') = s
      BY <1>2, <2>1, <2>4, <2>5
    <3>2. QED
      BY <3>1 DEF SelectionFits, HasWindow
  <2>12. QED
    BY <1>1, <2>1, <2>4, <2>7, <2>9, <2>10, <2>11, SelectionMoves DEF InChain
<1>6. QED
  BY <1>4, <1>5

LEMMA WaitedKeeps ==
    ASSUME IwInv, NEW s \in Selections, NEW next \in {"executing", "pausing"},
           commands[s].pc \in {"waiting", "executing"},
           commands' = [commands EXCEPT ![s].pc = next],
           UNCHANGED <<tracked, creating, opened, closed, cells, selected, chain, ran, refused>>
    PROVE  IwInv'
<1> DEFINE mine == [commands[s] EXCEPT !.pc = next]
<1>1. /\ commands[s] \in CommandState /\ commands \in [Selections -> CommandState]
      /\ commands' = [commands EXCEPT ![s] = mine]
  BY DEF IwInv, IwTypeOK
<1>2. /\ mine \in CommandState /\ mine.pc = next /\ mine.window = commands[s].window
      /\ mine.index = commands[s].index
  BY <1>1 DEF CommandState, Steps
<1> HIDE DEF mine
<1>3. commands'[s] = mine /\ commands' \in [Selections -> CommandState]
  BY <1>1, <1>2
<1>4. /\ commands[s].window \in IwWindows /\ chain # <<>> /\ Head(chain) = s
      /\ HoldsAt(commands[s].window, commands[s].index, s)
  BY DEF IwInv, SelectionFits, HasWindow, Working
<1>5. SelectionFits(s)'
  <2>1. /\ commands'[s].pc \in {"executing", "pausing"}
        /\ commands'[s].window \in IwWindows /\ chain' # <<>> /\ Head(chain') = s
        /\ HoldsAt(commands[s].window, commands[s].index, s)'
    BY <1>2, <1>3, <1>4 DEF HoldsAt
  <2>2. QED
    BY <1>2, <1>3, <1>4, <2>1 DEF SelectionFits, HasWindow, Working, HoldsAt
<1>6. IwTypeOK' /\ OneWindow' /\ IwTracks' /\ RunsItsOwn'
  BY <1>3 DEF IwInv, IwTypeOK, OneWindow, IwTracks, IsOpen, RunsItsOwn
<1>7. QED
  BY <1>1, <1>2, <1>5, <1>6, SelectionMoves DEF InChain

LEMMA ExecutedKeeps ==
    ASSUME IwInv, NEW s \in Selections, Executed(s)
    PROVE  IwInv'
<1> DEFINE w == commands[s].window
<1>1. /\ commands[s].pc \in {"executing", "pausing"} /\ Over(s)
      /\ ran' = ran \cup {<<s, cells[w][commands[s].index + 1]>>}
      /\ UNCHANGED <<tracked, creating, opened, closed, cells, selected, refused>>
  BY DEF Executed, At
<1>2. cells[w][commands[s].index + 1] = s
  BY <1>1 DEF IwInv, SelectionFits, HoldsAt
<1>3. /\ refused' \subseteq IwWindows /\ ran' \subseteq Selections \X (Selections \cup {TheUser})
      /\ RunsItsOwn'
  BY <1>1, <1>2 DEF IwInv, IwTypeOK, RunsItsOwn
<1>4. QED
  BY <1>1, <1>3, OverKeeps

LEMMA NotExecutedKeeps ==
    ASSUME IwInv, NEW s \in Selections, NotExecuted(s)
    PROVE  IwInv'
<1>1. UNCHANGED <<tracked, creating, opened, closed, cells, selected, ran, refused>>
  BY DEF NotExecuted
<1>2. CASE At(s, "executing") /\ commands' = [commands EXCEPT ![s].pc = "pausing"] /\ UNCHANGED chain
  BY <1>1, <1>2, WaitedKeeps DEF At
<1>3. CASE Over(s)
  <2>1. /\ refused' \subseteq IwWindows /\ ran' \subseteq Selections \X (Selections \cup {TheUser})
        /\ RunsItsOwn'
    BY <1>1 DEF IwInv, IwTypeOK, RunsItsOwn
  <2>2. QED
    BY <1>1, <1>3, <2>1, OverKeeps
<1>4. QED
  BY <1>2, <1>3 DEF NotExecuted

(* The notebook is there: those who waited for it reveal it.               *)
LEMMA CreatedKeeps ==
    ASSUME IwInv, Created
    PROVE  IwInv'
<1>1. /\ creating /\ opened < MaxWindows /\ opened' = opened + 1 /\ tracked' = opened'
      /\ creating' = FALSE
      /\ UNCHANGED <<closed, cells, selected, chain, ran, refused>>
      /\ commands \in [Selections -> CommandState] /\ opened \in 0 .. MaxWindows
  BY Zenon DEF Created, IwInv, IwTypeOK
<1>2. opened' \in 0 .. MaxWindows /\ opened' \in IwWindows /\ opened \in Nat /\ opened' \in Nat
  BY <1>1, IwMax DEF IwWindows
<1>3. \A s \in Selections :
        commands'[s] = IF commands[s].pc = "creating"
                       THEN [commands[s] EXCEPT !.pc = "revealing", !.window = opened']
                       ELSE commands[s]
  BY Zenon DEF Created, At
<1>4. \A s \in Selections : commands[s].pc = "creating" =>
        /\ commands'[s] \in CommandState /\ commands'[s].pc = "revealing"
        /\ commands'[s].window = opened' /\ commands'[s].again = commands[s].again
  <2>1. ASSUME NEW s \in Selections, commands[s].pc = "creating"
        PROVE  /\ commands'[s] \in CommandState /\ commands'[s].pc = "revealing"
               /\ commands'[s].window = opened' /\ commands'[s].again = commands[s].again
    <3>1. commands[s] \in CommandState
      BY <1>1
    <3>2. commands'[s] = [commands[s] EXCEPT !.pc = "revealing", !.window = opened']
      BY <1>3, <2>1, Zenon
    <3>3. QED
      BY <1>2, <3>1, <3>2 DEF CommandState, Steps
  <2>2. QED
    BY <2>1
<1>5. commands' \in [Selections -> CommandState]
  <2>1. \A s \in Selections : commands'[s] \in CommandState
    BY <1>1, <1>3, <1>4, Zenon
  <2>2. commands' = [s \in Selections |-> commands'[s]]
    BY Zenon DEF Created
  <2>3. QED
    BY <2>1, <2>2
<1>6. closed' \subseteq 1 .. opened'
  BY <1>1, <1>2 DEF IwInv, IwTypeOK
<1>7. IwTypeOK' /\ RunsItsOwn'
  BY <1>1, <1>2, <1>5, <1>6 DEF IwInv, IwTypeOK, RunsItsOwn
<1>8. IwTracks'
  BY <1>1, <1>2 DEF IwTracks
<1>9. OneWindow'
  <2>1. ASSUME NEW v \in 1 .. opened', v # opened', v \notin closed PROVE v \in refused
    <3>1. v \in 1 .. opened
      BY <1>1, <1>2, <2>1
    <3>2. IsOpen(v)
      BY <2>1, <3>1 DEF IsOpen
    <3>3. v # tracked
      BY <1>1, <3>1, <3>2 DEF IwInv, IwTracks
    <3>4. QED
      BY <3>1, <3>2, <3>3 DEF IwInv, OneWindow
  <2>2. QED
    BY <1>1, <2>1 DEF OneWindow, IsOpen
<1>10. ASSUME NEW s \in Selections PROVE SelectionFits(s)'
  <2>1. CASE commands[s].pc = "creating"
    <3>1. SelectionFits(s)
      BY DEF IwInv
    <3>2. QED
      BY <1>1, <1>2, <1>4, <2>1, <3>1 DEF SelectionFits, HasWindow, Working
  <2>2. CASE commands[s].pc # "creating"
    <3>1. /\ commands'[s] = commands[s] /\ UNCHANGED cells /\ (InChain(s) => InChain(s)')
          /\ chain # <<>> /\ Head(chain) = s => chain' # <<>> /\ Head(chain') = s
      BY <1>1, <1>3, <2>2, Zenon DEF InChain
    <3>2. QED
      BY <3>1, SelectionStays
  <2>3. QED
    BY <2>1, <2>2
<1>11. QED
  BY <1>7, <1>8, <1>9, <1>10 DEF IwInv

LEMMA NotCreatedKeeps ==
    ASSUME IwInv, NotCreated
    PROVE  IwInv'
<1> DEFINE gone == {s \in Selections : At(s, "creating")}
<1>1. /\ creating' = FALSE /\ NextTurn(gone)
      /\ UNCHANGED <<tracked, opened, closed, cells, selected, ran, refused>>
      /\ commands \in [Selections -> CommandState] /\ chain \in Seq(Selections)
  BY DEF NotCreated, IwInv, IwTypeOK
<1>2. \A s \in Selections :
        commands'[s] = IF s \in gone THEN [commands[s] EXCEPT !.pc = "done"] ELSE commands[s]
  BY DEF NotCreated
<1>3. \A s \in gone : commands'[s] \in CommandState /\ commands'[s].pc = "done"
  <2>1. ASSUME NEW s \in gone
        PROVE  commands'[s] \in CommandState /\ commands'[s].pc = "done"
    <3>1. commands[s] \in CommandState /\ commands'[s] = [commands[s] EXCEPT !.pc = "done"]
      BY <1>1, <1>2
    <3>2. QED
      BY <3>1 DEF CommandState, Steps
  <2>2. QED
    BY <2>1
<1>4. commands' \in [Selections -> CommandState]
  <2>1. \A s \in Selections : commands'[s] \in CommandState
    BY <1>1, <1>2, <1>3
  <2>2. commands' = [s \in Selections |-> commands'[s]]
    BY DEF NotCreated
  <2>3. QED
    BY <2>1, <2>2
<1> HIDE DEF gone
<1>5. /\ chain' \in Seq(Selections)
      /\ \A t \in Selections \ gone : InChain(t) => InChain(t)'
      /\ \A t \in Selections \ gone : chain # <<>> /\ Head(chain) = t => chain' = chain
  BY <1>1, TurnsPass
<1>6. IwTypeOK' /\ RunsItsOwn' /\ IwTracks' /\ OneWindow'
  BY <1>1, <1>4, <1>5 DEF IwInv, IwTypeOK, RunsItsOwn, IwTracks, OneWindow, IsOpen
<1>7. ASSUME NEW s \in Selections PROVE SelectionFits(s)'
  <2>1. CASE s \in gone
    BY <1>3, <2>1 DEF SelectionFits, HasWindow, Working
  <2>2. CASE s \notin gone
    <3>1. /\ commands'[s] = commands[s] /\ UNCHANGED cells /\ (InChain(s) => InChain(s)')
          /\ chain # <<>> /\ Head(chain) = s => chain' # <<>> /\ Head(chain') = s
      BY <1>1, <1>2, <1>5, <2>2
    <3>2. QED
      BY <3>1, SelectionStays
  <2>3. QED
    BY <2>1, <2>2
<1>8. QED
  BY <1>6, <1>7 DEF IwInv

LEMMA SelectsKeeps ==
    ASSUME IwInv, NEW w \in IwWindows, Selects(w)
    PROVE  IwInv'
<1>1. /\ UNCHANGED <<tracked, creating, opened, closed, cells, chain, ran, refused>>
      /\ commands \in [Selections -> CommandState] /\ selected' \subseteq IwWindows
  BY DEF Selects, IwInv, IwTypeOK
<1>2. \A s \in Selections :
        \/ commands'[s] = commands[s]
        \/ commands[s].pc = "waiting" /\ commands'[s] = [commands[s] EXCEPT !.pc = "executing"]
  BY DEF Selects, At
<1>3. commands' \in [Selections -> CommandState]
  <2>1. ASSUME NEW s \in Selections PROVE commands'[s] \in CommandState
    <3>1. commands[s] \in CommandState
      BY <1>1
    <3>2. [commands[s] EXCEPT !.pc = "executing"] \in CommandState
      BY <3>1 DEF CommandState, Steps
    <3>3. QED
      BY <1>2, <3>1, <3>2
  <2>2. commands' = [s \in Selections |-> commands'[s]]
    BY <1>1 DEF Selects
  <2>3. QED
    BY <2>1, <2>2
<1>4. IwTypeOK' /\ RunsItsOwn' /\ IwTracks' /\ OneWindow'
  BY <1>1, <1>3 DEF IwInv, IwTypeOK, RunsItsOwn, IwTracks, OneWindow, IsOpen
<1>5. ASSUME NEW s \in Selections PROVE SelectionFits(s)'
  <2>1. CASE commands'[s] = commands[s]
    <3>1. /\ UNCHANGED cells /\ (InChain(s) => InChain(s)')
          /\ chain # <<>> /\ Head(chain) = s => chain' # <<>> /\ Head(chain') = s
      BY <1>1 DEF InChain
    <3>2. QED
      BY <2>1, <3>1, SelectionStays
  <2>2. CASE /\ commands[s].pc = "waiting"
             /\ commands'[s] = [commands[s] EXCEPT !.pc = "executing"]
    <3>1. /\ commands[s].window \in IwWindows /\ chain # <<>> /\ Head(chain) = s
          /\ HoldsAt(commands[s].window, commands[s].index, s)
      BY <2>2 DEF IwInv, SelectionFits, HasWindow, Working
    <3>2. commands[s] \in CommandState
      BY <1>1
    <3>3. /\ commands'[s].pc = "executing" /\ commands'[s].window = commands[s].window
          /\ commands'[s].index = commands[s].index
      BY <2>2, <3>2 DEF CommandState
    <3>4. QED
      BY <1>1, <3>1, <3>3 DEF SelectionFits, HasWindow, Working, HoldsAt
  <2>3. QED
    BY <1>2, <2>1, <2>2
<1>6. QED
  BY <1>4, <1>5 DEF IwInv

LEMMA ClosesKeeps ==
    ASSUME IwInv, NEW w \in IwWindows, Closes(w)
    PROVE  IwInv'
<1>1. /\ IsOpen(w) /\ closed' = closed \cup {w} /\ selected' = selected \ {w}
      /\ UNCHANGED <<tracked, creating, opened, cells, chain, commands, ran, refused>>
  BY DEF Closes
<1>2. IwTypeOK' /\ RunsItsOwn' /\ IwTracks' /\ OneWindow'
  BY <1>1 DEF IwInv, IwTypeOK, RunsItsOwn, IwTracks, OneWindow, IsOpen
<1>3. ASSUME NEW s \in Selections PROVE SelectionFits(s)'
  <2>1. /\ commands'[s] = commands[s] /\ UNCHANGED cells /\ (InChain(s) => InChain(s)')
        /\ chain # <<>> /\ Head(chain) = s => chain' # <<>> /\ Head(chain') = s
    BY <1>1 DEF InChain
  <2>2. QED
    BY <2>1, SelectionStays
<1>4. QED
  BY <1>2, <1>3 DEF IwInv

(* The user edits as no command is at work.                                *)
LEMMA EditsKeeps ==
    ASSUME IwInv, NEW w \in IwWindows, Edits(w),
           \A s \in Selections : commands[s].pc \in {"idle", "done"}
    PROVE  IwInv'
<1>1. UNCHANGED <<tracked, creating, opened, closed, selected, chain, commands, ran, refused>>
  BY DEF Edits
<1>2. PICK k \in 1 .. Len(cells[w]) + 1 :
         cells' = [cells EXCEPT ![w] = InsertAt(@, k, TheUser)]
  BY DEF Edits
<1> DEFINE row == cells[w]
           writers == Selections \cup {TheUser}
           grown == InsertAt(row, k, TheUser)
<1>3. row \in Seq(writers) /\ cells \in [IwWindows -> Seq(writers)] /\ TheUser \in writers
      /\ k \in 1 .. Len(row) + 1 /\ cells' = [cells EXCEPT ![w] = grown]
  BY <1>2 DEF IwInv, IwTypeOK
<1> HIDE DEF row, writers, grown
<1>4. grown \in Seq(writers)
  BY <1>3, InsertedAnywhere DEF grown
<1>5. cells' \in [IwWindows -> Seq(writers)]
  BY <1>3, <1>4
<1>6. IwTypeOK' /\ RunsItsOwn' /\ IwTracks' /\ OneWindow'
  BY <1>1, <1>5 DEF IwInv, IwTypeOK, RunsItsOwn, IwTracks, OneWindow, IsOpen, writers
<1>7. ASSUME NEW s \in Selections PROVE SelectionFits(s)'
  <2>1. /\ ~Working(s) /\ commands'[s] = commands[s] /\ (InChain(s) => InChain(s)')
        /\ chain # <<>> /\ Head(chain) = s => chain' # <<>> /\ Head(chain') = s
    BY <1>1 DEF InChain, Working
  <2>2. QED
    BY <2>1, SelectionStays
<1>8. QED
  BY <1>6, <1>7 DEF IwInv

LEMMA IwKept ==
    ASSUME "edits" \notin IwMayMeet
    PROVE  IwInv /\ [IwNext]_iwVars => IwInv'
<1> SUFFICES ASSUME IwInv, [IwNext]_iwVars PROVE IwInv'
  OBVIOUS
<1>1. CASE UNCHANGED iwVars
  BY <1>1 DEF iwVars, IwInv, IwTypeOK, IwTracks, OneWindow, RunsItsOwn, IsOpen, SelectionFits,
     Working, InChain, HoldsAt
<1>2. ASSUME NEW s \in Selections, SelectionStep(s) PROVE IwInv'
  <2>1. CASE RunSelection(s)
    BY <2>1, RunSelectionKeeps
  <2>2. CASE Revealed(s)
    BY <2>2, RevealedKeeps
  <2>3. CASE NotRevealed(s)
    BY <2>3, NotRevealedKeeps
  <2>4. CASE Insert(s)
    BY <2>4, InsertKeeps
  <2>5. CASE Inserted(s)
    BY <2>5, InsertedKeeps
  <2>6. CASE NotInserted(s)
    BY <2>6, NotInsertedKeeps
  <2>7. CASE Waited(s)
    BY <2>7, WaitedKeeps DEF Waited, At
  <2>8. CASE Executed(s)
    BY <2>8, ExecutedKeeps
  <2>9. CASE NotExecuted(s)
    BY <2>9, NotExecutedKeeps
  <2>10. QED
    BY <1>2, <2>1, <2>2, <2>3, <2>4, <2>5, <2>6, <2>7, <2>8, <2>9 DEF SelectionStep
<1>3. ASSUME NEW w \in IwWindows, Selects(w) \/ Closes(w) \/ Edits(w) PROVE IwInv'
  <2>1. CASE Edits(w)
    <3>1. \A s \in Selections : commands[s].pc \in {"idle", "done"}
      BY <2>1 DEF Edits
    <3>2. QED
      BY <2>1, <3>1, EditsKeeps
  <2>2. QED
    BY <1>3, <2>1, SelectsKeeps, ClosesKeeps
<1>4. QED
  BY <1>1, <1>2, <1>3, CreatedKeeps, NotCreatedKeeps DEF IwNext

(* A selection sent to the interactive window is what runs there, and the  *)
(* window is one: the cell a command executes by an index is its own,      *)
(* however the commands interleave, unless the user adds cells while one   *)
(* is at work (runSelectionInInteractiveWindow, appendAndRunCell).         *)
THEOREM SelectionsRunTheirOwn ==
    ASSUME "edits" \notin IwMayMeet
    PROVE  WorkbenchSpec => [](RunsItsOwn /\ OneWindow)
<1>1. WorkbenchInit => IwInv
  BY IwBegins DEF WorkbenchInit
<1>2. IwInv /\ [WorkbenchNext]_workbenchVars => IwInv'
  BY IwKept, PartsStep
<1>3. IwInv => RunsItsOwn /\ OneWindow
  BY DEF IwInv
<1>4. QED
  BY <1>1, <1>2, <1>3, PTL DEF WorkbenchSpec

-----------------------------------------------------------------------------
(* The Results panel.  What a document shows once it has been given what   *)
(* is on its way: what comes after the last reset, if there is one.        *)
Messages == RenderItem \cup {Reset}
WillShow(seen, queue, rest) ==
    \E k \in 0 .. Len(queue), base \in Nat :
        /\ (k = 0 /\ base = Len(seen)) \/ (k # 0 /\ base = 0 /\ queue[k] = Reset)
        /\ \A i \in 1 .. Len(queue) : i > k => queue[i] # Reset
        /\ Len(rest) = base + Len(queue) - k
        /\ \A j \in 1 .. Len(rest) : rest[j] = IF j <= base THEN seen[j] ELSE queue[j - base + k]

BacklogFits ==
    /\ backlog # <<>> => backlog[1] = Reset
    /\ \A i \in 2 .. Len(backlog) : backlog[i] # Reset
    /\ currentRunToken = 0 \/ backlog # <<>>
    /\ panel => currentRunToken # 0

DocumentFits ==
    /\ doc # "live" => shown = <<>>
    /\ panel /\ doc = "live" /\ ready /\ Ready \notin ToSet(toHost)
         => WillShow(shown, toDoc, Tail(backlog))

RunsFit ==
    /\ written \in [Runs -> 0 .. MaxOutputs + 1] /\ over \in [Runs -> BOOLEAN]
    /\ \A r \in Runs : ~over[r] => written[r] \in 0 .. MaxOutputs
    /\ revealedThisRun => panel
    /\ wantsPanel => panel
    /\ toHost # <<>> => panel

RpInv == RpTypeOK /\ RunsFit /\ BacklogFits /\ DocumentFits

LEMMA RpBounds == MaxRuns \in Nat /\ MaxOutputs \in Nat
BY RpAssumption

LEMMA ItemIsNoReset == \A m \in RenderItem : m # Reset /\ m # Ready
<1> SUFFICES ASSUME NEW m \in RenderItem PROVE m # Reset /\ m # Ready
  OBVIOUS
<1>1. m.kind \in Kinds /\ Reset.kind = "reset" /\ Ready.kind = "ready"
  BY DEF RenderItem, Reset, Ready
<1>2. QED
  BY <1>1 DEF Kinds

LEMMA ResetIsNotReady == Reset # Ready
<1>1. Reset.kind = "reset" /\ Ready.kind = "ready"
  BY DEF Reset, Ready
<1>2. QED
  BY <1>1

(* Nothing on its way: it shows what it will.                              *)
LEMMA ShowsAtOnce ==
    ASSUME NEW S, NEW seen \in Seq(S), NEW rest \in Seq(S), WillShow(seen, <<>>, rest)
    PROVE  seen = rest
<1>1. Len(<<>>) = 0
  OBVIOUS
<1>2. Len(rest) = Len(seen) /\ \A j \in 1 .. Len(rest) : rest[j] = seen[j]
  BY <1>1 DEF WillShow
<1>3. QED
  BY <1>2

(* An item is sent to the document, and kept.                              *)
LEMMA ShowsNext ==
    ASSUME NEW S, NEW seen \in Seq(S), NEW queue \in Seq(S), NEW rest \in Seq(S), NEW m \in S,
           m # Reset, WillShow(seen, queue, rest)
    PROVE  WillShow(seen, Append(queue, m), Append(rest, m))
<1> DEFINE queue1 == Append(queue, m)
           rest1 == Append(rest, m)
<1>1. PICK k \in 0 .. Len(queue), base \in Nat :
        /\ (k = 0 /\ base = Len(seen)) \/ (k # 0 /\ base = 0 /\ queue[k] = Reset)
        /\ \A i \in 1 .. Len(queue) : i > k => queue[i] # Reset
        /\ Len(rest) = base + Len(queue) - k
        /\ \A j \in 1 .. Len(rest) : rest[j] = IF j <= base THEN seen[j] ELSE queue[j - base + k]
  BY DEF WillShow
<1>2. /\ Len(queue) \in Nat /\ Len(queue1) = Len(queue) + 1 /\ queue1[Len(queue) + 1] = m
      /\ \A i \in 1 .. Len(queue) : queue1[i] = queue[i]
  OBVIOUS
<1>3. /\ Len(rest) \in Nat /\ Len(rest1) = Len(rest) + 1 /\ rest1[Len(rest) + 1] = m
      /\ \A i \in 1 .. Len(rest) : rest1[i] = rest[i]
  OBVIOUS
<1> HIDE DEF queue1, rest1
<1>4. k \in 0 .. Len(queue1) /\ (k # 0 => queue1[k] = queue[k])
  BY <1>2
<1>5. \A i \in 1 .. Len(queue1) : i > k => queue1[i] # Reset
  <2>1. ASSUME NEW i \in 1 .. Len(queue1), i > k PROVE queue1[i] # Reset
    <3>1. i = Len(queue) + 1 \/ i \in 1 .. Len(queue)
      BY <1>2
    <3>2. QED
      BY <1>1, <1>2, <2>1, <3>1
  <2>2. QED
    BY <2>1
<1>6. Len(rest1) = base + Len(queue1) - k
  BY <1>1, <1>2, <1>3
<1>7. \A j \in 1 .. Len(rest1) : rest1[j] = IF j <= base THEN seen[j] ELSE queue1[j - base + k]
  <2>1. ASSUME NEW j \in 1 .. Len(rest1)
        PROVE rest1[j] = IF j <= base THEN seen[j] ELSE queue1[j - base + k]
    <3>1. CASE j = Len(rest) + 1
      <4>1. ~(j <= base) /\ j - base + k = Len(queue) + 1
        BY <1>1, <1>2, <1>3, <3>1
      <4>2. QED
        BY <1>2, <1>3, <3>1, <4>1
    <3>2. CASE j # Len(rest) + 1
      <4>1. j \in 1 .. Len(rest)
        BY <1>3, <3>2
      <4>2. rest1[j] = rest[j] /\ rest[j] = IF j <= base THEN seen[j] ELSE queue[j - base + k]
        BY <1>1, <1>3, <4>1
      <4>3. ~(j <= base) => j - base + k \in 1 .. Len(queue)
        BY <1>1, <1>2, <1>3, <4>1
      <4>4. ~(j <= base) => queue1[j - base + k] = queue[j - base + k]
        BY <1>2, <4>3
      <4>5. QED
        BY <4>2, <4>4
    <3>3. QED
      BY <3>1, <3>2
  <2>2. QED
    BY <2>1
<1>8. WillShow(seen, queue1, rest1)
  <2>1. (k = 0 /\ base = Len(seen)) \/ (k # 0 /\ base = 0 /\ queue1[k] = Reset)
    BY <1>1, <1>4
  <2>2. QED
    BY <1>4, <1>5, <1>6, <1>7, <2>1 DEF WillShow
<1>9. QED
  BY <1>8 DEF queue1, rest1

(* A reset is sent.                                                        *)
LEMMA ShowsNothing ==
    ASSUME NEW S, NEW seen \in Seq(S), NEW queue \in Seq(S), Reset \in S
    PROVE  WillShow(seen, Append(queue, Reset), <<>>)
<1> DEFINE queue1 == Append(queue, Reset)
           k == Len(queue) + 1
<1>1. Len(queue) \in Nat /\ Len(queue1) = k /\ queue1[k] = Reset /\ Len(<<>>) = 0
  OBVIOUS
<1>2. k \in 0 .. Len(queue1) /\ k # 0 /\ 0 \in Nat
  BY <1>1
<1>3. \A i \in 1 .. Len(queue1) : ~(i > k)
  BY <1>1
<1>4. Len(<<>>) = 0 + Len(queue1) - k
  BY <1>1
<1>5. \A j \in 1 .. Len(<<>>) : FALSE
  BY <1>1
<1> HIDE DEF queue1, k
<1>6. WillShow(seen, queue1, <<>>)
  BY <1>1, <1>2, <1>3, <1>4, <1>5 DEF WillShow
<1>7. QED
  BY <1>6 DEF queue1

(* The run is sent again, from its reset on.                               *)
LEMMA ShowsAgain ==
    ASSUME NEW S, NEW seen \in Seq(S), NEW queue \in Seq(S), NEW log \in Seq(S), log # <<>>,
           log[1] = Reset, \A i \in 2 .. Len(log) : log[i] # Reset
    PROVE  WillShow(seen, queue \o log, Tail(log))
<1> DEFINE queue1 == queue \o log
           rest == Tail(log)
           k == Len(queue) + 1
<1>1. /\ Len(queue) \in Nat /\ Len(log) \in Nat \ {0} /\ Len(queue1) = Len(queue) + Len(log)
      /\ \A i \in 1 .. Len(log) : queue1[Len(queue) + i] = log[i]
  OBVIOUS
<1>2. Len(rest) = Len(log) - 1 /\ \A j \in 1 .. Len(rest) : rest[j] = log[j + 1]
  OBVIOUS
<1> HIDE DEF queue1, rest
<1>3. k \in 0 .. Len(queue1) /\ k # 0 /\ queue1[k] = Reset
  BY <1>1
<1>4. ASSUME NEW i \in 1 .. Len(queue1), i > k PROVE queue1[i] # Reset
  <2>1. i - Len(queue) \in 2 .. Len(log) /\ Len(queue) + (i - Len(queue)) = i
    BY <1>1, <1>4
  <2>2. queue1[i] = log[i - Len(queue)]
    BY <1>1, <2>1
  <2>3. QED
    BY <2>1, <2>2
<1>5. Len(rest) = 0 + Len(queue1) - k
  BY <1>1, <1>2
<1>6. ASSUME NEW j \in 1 .. Len(rest)
      PROVE  rest[j] = IF j <= 0 THEN seen[j] ELSE queue1[j - 0 + k]
  <2>1. ~(j <= 0) /\ j - 0 + k = Len(queue) + (j + 1) /\ j + 1 \in 1 .. Len(log)
    BY <1>1, <1>2
  <2>2. QED
    BY <1>1, <1>2, <2>1
<1> HIDE DEF k
<1>7. WillShow(seen, queue1, rest)
  BY <1>3, <1>4, <1>5, <1>6 DEF WillShow
<1>8. QED
  BY <1>7 DEF queue1, rest

(* A message arrives at a document that listens.                           *)
LEMMA ShowsOn ==
    ASSUME NEW S, NEW seen \in Seq(S), NEW queue \in Seq(S), NEW rest \in Seq(S),
           queue # <<>>, WillShow(seen, queue, rest)
    PROVE  WillShow(IF Head(queue) = Reset THEN <<>> ELSE Append(seen, Head(queue)),
                    Tail(queue), rest)
<1> DEFINE queue1 == Tail(queue)
           first == Head(queue)
           seen1 == IF first = Reset THEN <<>> ELSE Append(seen, first)
<1>1. PICK k \in 0 .. Len(queue), base \in Nat :
        /\ (k = 0 /\ base = Len(seen)) \/ (k # 0 /\ base = 0 /\ queue[k] = Reset)
        /\ \A i \in 1 .. Len(queue) : i > k => queue[i] # Reset
        /\ Len(rest) = base + Len(queue) - k
        /\ \A j \in 1 .. Len(rest) : rest[j] = IF j <= base THEN seen[j] ELSE queue[j - base + k]
  BY DEF WillShow
<1>2. /\ Len(queue) \in Nat \ {0} /\ Len(queue1) = Len(queue) - 1 /\ first = queue[1] /\ first \in S
      /\ \A i \in 1 .. Len(queue1) : queue1[i] = queue[i + 1]
  OBVIOUS
<1>3. /\ first = Reset => seen1 = <<>> /\ Len(seen1) = 0
      /\ first # Reset => /\ Len(seen1) = Len(seen) + 1 /\ seen1[Len(seen) + 1] = first
                          /\ \A j \in 1 .. Len(seen) : seen1[j] = seen[j]
  BY <1>2
<1>4. Len(seen) \in Nat /\ Len(rest) \in Nat
  OBVIOUS
<1> HIDE DEF queue1, first, seen1
<1>5. CASE k = 0
  <2> DEFINE base1 == Len(seen) + 1
  <2>1. first # Reset /\ base = Len(seen) /\ base1 = Len(seen1) /\ base1 \in Nat
    BY <1>1, <1>2, <1>3, <1>4, <1>5
  <2>2. ASSUME NEW i \in 1 .. Len(queue1) PROVE queue1[i] # Reset
    <3>1. i + 1 \in 1 .. Len(queue) /\ i + 1 > k
      BY <1>2, <1>5
    <3>2. QED
      BY <1>1, <1>2, <3>1
  <2>3. Len(rest) = base1 + Len(queue1) - 0
    BY <1>1, <1>2, <1>4, <1>5, <2>1
  <2>4. ASSUME NEW j \in 1 .. Len(rest)
        PROVE  rest[j] = IF j <= base1 THEN seen1[j] ELSE queue1[j - base1 + 0]
    <3>1. CASE j <= Len(seen)
      <4>1. j \in 1 .. Len(seen) /\ j <= base1 /\ j <= base
        BY <1>4, <2>1, <3>1
      <4>2. QED
        BY <1>1, <1>3, <2>1, <4>1
    <3>2. CASE j = base1
      <4>1. ~(j <= base) /\ j - base + k = 1
        BY <1>4, <1>5, <2>1, <3>2
      <4>2. rest[j] = queue[j - base + k]
        BY <1>1, <4>1
      <4>3. rest[j] = first
        BY <1>2, <4>1, <4>2
      <4>4. j <= base1 /\ seen1[j] = first
        BY <1>3, <2>1, <3>2
      <4>5. QED
        BY <4>3, <4>4
    <3>3. CASE j > base1
      <4>1. /\ ~(j <= base) /\ ~(j <= base1) /\ j - base1 + 0 \in 1 .. Len(queue1)
            /\ j - base + k = (j - base1 + 0) + 1
        BY <1>4, <1>5, <2>1, <2>3, <1>2, <3>3
      <4>2. QED
        BY <1>1, <1>2, <4>1
    <3>4. j <= Len(seen) \/ j = base1 \/ j > base1
      BY <1>4
    <3>5. QED
      BY <3>1, <3>2, <3>3, <3>4
  <2>5. 0 \in 0 .. Len(queue1)
    BY <1>2
  <2> HIDE DEF base1
  <2>6. WillShow(seen1, queue1, rest)
    BY <2>1, <2>2, <2>3, <2>4, <2>5 DEF WillShow
  <2>7. QED
    BY <2>6 DEF seen1, queue1, first
<1>6. CASE k # 0
  <2> DEFINE k1 == k - 1
  <2>1. base = 0 /\ queue[k] = Reset /\ k1 \in 0 .. Len(queue1)
    BY <1>1, <1>2, <1>6
  <2>2. k1 = 0 => Len(seen1) = 0
    BY <1>2, <1>3, <2>1
  <2>3. k1 # 0 => queue1[k1] = Reset
    BY <1>2, <2>1
  <2>4. ASSUME NEW i \in 1 .. Len(queue1), i > k1 PROVE queue1[i] # Reset
    <3>1. i + 1 \in 1 .. Len(queue) /\ i + 1 > k
      BY <1>2, <2>4
    <3>2. QED
      BY <1>1, <1>2, <3>1
  <2>5. Len(rest) = 0 + Len(queue1) - k1
    BY <1>1, <1>2, <2>1
  <2>6. ASSUME NEW j \in 1 .. Len(rest)
        PROVE  rest[j] = IF j <= 0 THEN seen1[j] ELSE queue1[j - 0 + k1]
    <3>1. /\ ~(j <= 0) /\ ~(j <= base) /\ j - base + k = (j - 0 + k1) + 1
          /\ j - 0 + k1 \in 1 .. Len(queue1)
      BY <1>2, <2>1, <2>5
    <3>2. QED
      BY <1>1, <1>2, <3>1
  <2> HIDE DEF k1
  <2>7. WillShow(seen1, queue1, rest)
    <3>1. 0 \in Nat
      OBVIOUS
    <3>2. (k1 = 0 /\ 0 = Len(seen1)) \/ (k1 # 0 /\ 0 = 0 /\ queue1[k1] = Reset)
      BY <2>2, <2>3
    <3>3. QED
      BY <2>1, <2>4, <2>5, <2>6, <3>1, <3>2 DEF WillShow
  <2>8. QED
    BY <2>7 DEF seen1, queue1, first
<1>7. QED
  BY <1>5, <1>6

LEMMA RpBegins == RpInit => RpInv
<1> SUFFICES ASSUME RpInit PROVE RpInv
  OBVIOUS
<1>1. 0 \in 0 .. MaxRuns /\ 0 \in 0 .. MaxOutputs /\ 0 \in 0 .. MaxOutputs + 1
  BY RpBounds
<1>2. Len(<<>>) = 0 /\ \A S : <<>> \in Seq(S)
  OBVIOUS
<1>3. RpTypeOK
  BY <1>1, <1>2 DEF RpInit, RpTypeOK
<1>4. RunsFit
  BY <1>1 DEF RpInit, RunsFit
<1>5. BacklogFits /\ DocumentFits
  BY <1>2 DEF RpInit, BacklogFits, DocumentFits
<1>6. QED
  BY <1>3, <1>4, <1>5 DEF RpInv

LEMMA RpSequences ==
    ASSUME RpInv
    PROVE  /\ backlog \in Seq(Messages) /\ toDoc \in Seq(Messages) /\ shown \in Seq(Messages)
           /\ backlog # <<>> => Tail(backlog) \in Seq(Messages)
<1>1. RenderItem \subseteq Messages
  BY DEF Messages
<1>2. Seq(RenderItem) \subseteq Seq(Messages)
  BY <1>1
<1>3. QED
  BY <1>2 DEF RpInv, RpTypeOK, Messages

(* What is written is kept, and sent to a document that was answered.      *)
LEMMA EmitFits ==
    ASSUME RpInv, NEW m \in Messages, emit(m), UNCHANGED <<shown, toHost, ready>>,
           (doc' = "live") = (doc = "live"), backlog # <<>> \/ m = Reset
    PROVE  /\ backlog' \in Seq(Messages) /\ toDoc' \in Seq(Messages)
           /\ backlog' # <<>> /\ backlog'[1] = Reset
           /\ \A i \in 2 .. Len(backlog') : backlog'[i] # Reset
           /\ DocumentFits'
<1>1. backlog \in Seq(Messages) /\ toDoc \in Seq(Messages) /\ shown \in Seq(Messages)
      /\ (backlog # <<>> => Tail(backlog) \in Seq(Messages))
  BY RpSequences
<1>2. backlog' = Keeps(backlog, m)
      /\ toDoc' = IF panel /\ ready THEN Append(toDoc, m) ELSE toDoc
  BY DEF emit
<1>3. toDoc' \in Seq(Messages)
  BY <1>1, <1>2
<1>4. doc = "live" => panel
  BY DEF RpInv, RpTypeOK
<1>5. doc' # "live" => shown' = <<>>
  BY DEF RpInv, DocumentFits
<1>6. CASE m = Reset
  <2>1. backlog' = <<Reset>>
    BY <1>2, <1>6 DEF Keeps
  <2>2. Tail(backlog') = <<>> /\ backlog' \in Seq(Messages) /\ backlog' # <<>> /\ backlog'[1] = Reset
        /\ Len(backlog') = 1
    BY <2>1 DEF Messages
  <2>3. panel /\ ready => WillShow(shown, Append(toDoc, Reset), <<>>)
    BY <1>1, ShowsNothing DEF Messages
  <2>4. \A i \in 2 .. Len(backlog') : FALSE
    BY <2>2
  <2>5. panel /\ ready => WillShow(shown', toDoc', Tail(backlog'))
    BY <1>2, <1>6, <2>2, <2>3
  <2>6. DocumentFits'
    BY <1>4, <1>5, <2>5 DEF DocumentFits
  <2>7. QED
    BY <1>3, <2>2, <2>4, <2>6
<1>7. CASE m # Reset
  <2>1. backlog' = Append(backlog, m) /\ backlog # <<>>
    BY <1>2, <1>7 DEF Keeps
  <2>2. /\ backlog' \in Seq(Messages) /\ Len(backlog') = Len(backlog) + 1 /\ Len(backlog) \in Nat \ {0}
        /\ \A i \in 1 .. Len(backlog) : backlog'[i] = backlog[i]
        /\ backlog'[Len(backlog) + 1] = m
    BY <1>1, <2>1
  <2>3. backlog' # <<>> /\ backlog'[1] = Reset
    BY <2>1, <2>2 DEF RpInv, BacklogFits
  <2>4. ASSUME NEW i \in 2 .. Len(backlog') PROVE backlog'[i] # Reset
    <3>1. i = Len(backlog) + 1 \/ i \in 2 .. Len(backlog)
      BY <2>2
    <3>2. i \in 2 .. Len(backlog) => backlog'[i] = backlog[i] /\ backlog[i] # Reset
      BY <2>2 DEF RpInv, BacklogFits
    <3>3. QED
      BY <1>7, <2>2, <3>1, <3>2
  <2>5. Tail(backlog') = Append(Tail(backlog), m)
    BY <1>1, <2>1
  <2>6. WillShow(shown, toDoc, Tail(backlog)) =>
          WillShow(shown, Append(toDoc, m), Append(Tail(backlog), m))
    BY <1>1, <1>7, <2>1, ShowsNext
  <2>7. DocumentFits'
    BY <1>2, <1>4, <1>5, <2>5, <2>6 DEF RpInv, DocumentFits
  <2>8. QED
    BY <1>3, <2>2, <2>3, <2>4, <2>7
<1>8. QED
  BY <1>6, <1>7

LEMMA ItemFits ==
    ASSUME RpInv, NEW r \in Live, NEW k \in Kinds
    PROVE  /\ Item(r, k) \in RenderItem /\ Item(r, k) \in Messages /\ Item(r, k) # Reset
           /\ r \in Runs /\ currentRunToken \in Runs /\ written[r] \in 0 .. MaxOutputs
           /\ backlog # <<>>
<1>1. currentRunToken \in 0 .. MaxRuns /\ MaxRuns \in Nat /\ r \in 1 .. currentRunToken /\ ~over[r]
  BY RpBounds DEF RpInv, RpTypeOK, Live
<1>2. r \in Runs /\ currentRunToken \in Runs /\ currentRunToken # 0
  BY <1>1 DEF Runs
<1>3. written[r] \in 0 .. MaxOutputs
  BY <1>1, <1>2 DEF RpInv, RunsFit
<1>4. written[r] + 1 \in 1 .. MaxOutputs + 1
  BY <1>3, RpBounds
<1>5. Item(r, k) \in RenderItem
  BY <1>2, <1>4 DEF Item, RenderItem
<1>6. QED
  BY <1>2, <1>3, <1>5, ItemIsNoReset DEF Messages, RpInv, BacklogFits

LEMMA StartRunKeeps ==
    ASSUME RpInv, startRun
    PROVE  RpInv'
<1>1. /\ emit(Reset) /\ currentRunToken < MaxRuns /\ currentRunToken' = currentRunToken + 1
      /\ currentFrames' = 0 /\ revealedThisRun' = FALSE /\ wantsPanel' = FALSE
      /\ UNCHANGED <<written, over, panel, ready, toHost, doc, shown, loads, clicks>>
      /\ currentRunToken \in 0 .. MaxRuns
  BY DEF startRun, program, page, RpInv, RpTypeOK
<1>2. currentRunToken' \in 0 .. MaxRuns /\ currentRunToken' # 0 /\ currentFrames' \in 0 .. MaxRuns
  BY <1>1, RpBounds
<1>3. Reset \in Messages
  BY DEF Messages
<1>4. /\ backlog' \in Seq(Messages) /\ toDoc' \in Seq(Messages)
      /\ backlog' # <<>> /\ backlog'[1] = Reset
      /\ \A i \in 2 .. Len(backlog') : backlog'[i] # Reset
      /\ DocumentFits'
  BY <1>1, <1>3, EmitFits
<1>5. RpTypeOK'
  BY <1>1, <1>2, <1>4 DEF RpInv, RpTypeOK, Messages
<1>6. QED
  BY <1>1, <1>2, <1>4, <1>5 DEF RpInv, RunsFit, BacklogFits

LEMMA WriteOutputKeeps ==
    ASSUME RpInv, NEW r \in Runs, NEW k \in Kinds, writeOutput(r, k)
    PROVE  RpInv'
<1>1. /\ r \in Live /\ written[r] < MaxOutputs
      /\ written' = [written EXCEPT ![r] = @ + 1]
      /\ currentFrames' \in {r, currentFrames}
      /\ emit(Item(r, k))
      /\ UNCHANGED <<over, currentRunToken, toHost, shown, loads, clicks, ready>>
  BY DEF writeOutput
<1>2. /\ Item(r, k) \in Messages /\ currentRunToken \in Runs /\ written[r] \in 0 .. MaxOutputs
      /\ backlog # <<>>
  BY <1>1, ItemFits
<1>3. \/ revealedThisRun /\ UNCHANGED <<panel, revealedThisRun, doc>>
      \/ k = "text" /\ UNCHANGED <<panel, revealedThisRun, doc>> /\ (wantsPanel' => wantsPanel)
      \/ panel' = TRUE /\ doc' = IF doc = "none" THEN "loading" ELSE doc
  BY DEF writeOutput
<1>4. (doc' = "live") = (doc = "live")
  BY <1>3
<1>5. /\ backlog' \in Seq(Messages) /\ toDoc' \in Seq(Messages)
      /\ backlog' # <<>> /\ backlog'[1] = Reset
      /\ \A i \in 2 .. Len(backlog') : backlog'[i] # Reset
      /\ DocumentFits'
  BY <1>1, <1>2, <1>4, EmitFits
<1>6. currentFrames' \in 0 .. MaxRuns /\ currentRunToken # 0
  BY <1>1, <1>2, RpBounds DEF Runs, RpInv, RpTypeOK
<1>7. doc' \in {"none", "loading", "live"} /\ (~panel' => doc' = "none" /\ ~ready')
  BY <1>1, <1>3 DEF RpInv, RpTypeOK
<1>8. RpTypeOK'
  BY <1>1, <1>5, <1>6, <1>7 DEF RpInv, RpTypeOK, Messages
<1>9. written[r] + 1 \in 0 .. MaxOutputs /\ written[r] + 1 \in 0 .. MaxOutputs + 1
  BY <1>1, <1>2, RpBounds
<1>10. /\ written' \in [Runs -> 0 .. MaxOutputs + 1] /\ over' \in [Runs -> BOOLEAN]
       /\ \A q \in Runs : ~over'[q] => written'[q] \in 0 .. MaxOutputs
  BY <1>1, <1>9 DEF RpInv, RunsFit
<1>11. (revealedThisRun' => panel') /\ (wantsPanel' => panel') /\ (toHost' # <<>> => panel')
  BY <1>1, <1>3 DEF RpInv, RunsFit
<1>12. QED
  BY <1>1, <1>5, <1>6, <1>8, <1>10, <1>11 DEF RpInv, RunsFit, BacklogFits

LEMMA WriteOutcomeKeeps ==
    ASSUME RpInv, NEW r \in Runs, writeOutcome(r)
    PROVE  RpInv'
<1>1. /\ r \in Live /\ over' = [over EXCEPT ![r] = TRUE]
      /\ written' = [written EXCEPT ![r] = @ + 1] /\ emit(Item(r, "outcome"))
      /\ UNCHANGED <<currentRunToken, currentFrames, panel, ready, revealedThisRun, toHost,
                     doc, shown, loads, clicks, wantsPanel>>
  BY DEF writeOutcome, frames, page
<1>2. /\ Item(r, "outcome") \in Messages /\ currentRunToken \in Runs
      /\ written[r] \in 0 .. MaxOutputs /\ backlog # <<>>
  BY <1>1, ItemFits DEF Kinds
<1>3. /\ backlog' \in Seq(Messages) /\ toDoc' \in Seq(Messages)
      /\ backlog' # <<>> /\ backlog'[1] = Reset
      /\ \A i \in 2 .. Len(backlog') : backlog'[i] # Reset
      /\ DocumentFits'
  BY <1>1, <1>2, EmitFits
<1>4. RpTypeOK'
  BY <1>1, <1>3 DEF RpInv, RpTypeOK, Messages
<1>5. written[r] + 1 \in 0 .. MaxOutputs + 1
  BY <1>2, RpBounds
<1>6. /\ written' \in [Runs -> 0 .. MaxOutputs + 1] /\ over' \in [Runs -> BOOLEAN]
      /\ \A q \in Runs : ~over'[q] => written'[q] \in 0 .. MaxOutputs
  BY <1>1, <1>5 DEF RpInv, RunsFit
<1>7. QED
  BY <1>1, <1>3, <1>4, <1>6 DEF RpInv, RunsFit, BacklogFits

LEMMA HearsReadyKeeps ==
    ASSUME RpInv, hearsReady
    PROVE  RpInv'
<1>1. /\ toHost # <<>> /\ Head(toHost) = Ready /\ toHost' = Tail(toHost) /\ ready' = TRUE
      /\ toDoc' = toDoc \o backlog
      /\ UNCHANGED <<written, over, currentRunToken, currentFrames, panel, revealedThisRun,
                     backlog, doc, shown, loads, clicks, wantsPanel>>
  BY DEF hearsReady, program, frames, page, Replays
<1>2. /\ backlog \in Seq(Messages) /\ toDoc \in Seq(Messages) /\ shown \in Seq(Messages)
      /\ toHost \in Seq(RenderItem \cup {Ready})
  BY RpSequences DEF RpInv, RpTypeOK
<1>3. toDoc' \in Seq(Messages) /\ toHost' \in Seq(RenderItem \cup {Ready})
  BY <1>1, <1>2
<1>4. panel => WillShow(shown, toDoc \o backlog, Tail(backlog))
  <2>1. panel => backlog # <<>> /\ backlog[1] = Reset /\ \A i \in 2 .. Len(backlog) : backlog[i] # Reset
    BY DEF RpInv, BacklogFits
  <2>2. QED
    BY <1>2, <2>1, ShowsAgain
<1>5. DocumentFits'
  BY <1>1, <1>4 DEF RpInv, DocumentFits
<1>6. panel
  BY <1>1 DEF RpInv, RunsFit
<1>7. RpTypeOK'
  BY <1>1, <1>3, <1>6 DEF RpInv, RpTypeOK, Messages
<1>8. QED
  BY <1>1, <1>5, <1>7 DEF RpInv, RunsFit, BacklogFits

LEMMA HeardTail ==
    ASSUME NEW S, NEW q \in Seq(S), q # <<>>, Ready \notin ToSet(Tail(q)), Head(q) # Ready
    PROVE  Ready \notin ToSet(q)
<1>1. \A i \in 1 .. Len(q) : i = 1 \/ (i - 1 \in 1 .. Len(Tail(q)) /\ q[i] = Tail(q)[i - 1])
  OBVIOUS
<1>2. Head(q) = q[1]
  OBVIOUS
<1>3. DOMAIN q = 1 .. Len(q) /\ DOMAIN Tail(q) = 1 .. Len(Tail(q))
  OBVIOUS
<1>4. QED
  BY <1>1, <1>2, <1>3, Zenon DEF ToSet

LEMMA HeardAppend ==
    ASSUME NEW S, NEW q \in Seq(S), NEW e
    PROVE  /\ Ready \notin ToSet(Append(q, e)) => Ready \notin ToSet(q) /\ e # Ready
<1>1. /\ DOMAIN q = 1 .. Len(q) /\ DOMAIN Append(q, e) = 1 .. Len(q) + 1 /\ Len(q) \in Nat
      /\ \A i \in 1 .. Len(q) : Append(q, e)[i] = q[i]
      /\ Append(q, e)[Len(q) + 1] = e
  OBVIOUS
<1>2. QED
  BY <1>1 DEF ToSet

LEMMA RevealFrameKeeps ==
    ASSUME RpInv, revealFrame
    PROVE  RpInv'
<1>1. /\ toHost # <<>> /\ Head(toHost) # Ready /\ toHost' = Tail(toHost)
      /\ UNCHANGED <<written, over, currentRunToken, currentFrames, panel, ready, revealedThisRun,
                     backlog, toDoc, doc, shown, loads, clicks, wantsPanel>>
      /\ toHost \in Seq(RenderItem \cup {Ready})
  BY DEF revealFrame, program, frames, page, RpInv, RpTypeOK
<1>2. toHost' \in Seq(RenderItem \cup {Ready})
  BY <1>1
<1>3. Ready \notin ToSet(toHost') => Ready \notin ToSet(toHost)
  BY <1>1, HeardTail
<1>4. RpTypeOK' /\ DocumentFits'
  BY <1>1, <1>2, <1>3 DEF RpInv, RpTypeOK, DocumentFits
<1>5. RunsFit' /\ BacklogFits'
  BY <1>1 DEF RpInv, RunsFit, BacklogFits
<1>6. QED
  BY <1>4, <1>5 DEF RpInv

LEMMA ClosesPanelKeeps ==
    ASSUME RpInv, ClosesPanel
    PROVE  RpInv'
<1>1. /\ panel' = FALSE /\ ready' = FALSE /\ revealedThisRun' = FALSE /\ doc' = "none"
      /\ shown' = <<>> /\ toDoc' = <<>> /\ toHost' = <<>> /\ wantsPanel' = FALSE
      /\ UNCHANGED <<written, over, currentRunToken, currentFrames, backlog, loads, clicks>>
  BY DEF ClosesPanel, program, frames, ReadyAfterClose, StillRevealed
<1>2. \A S : <<>> \in Seq(S)
  OBVIOUS
<1>3. RpTypeOK'
  BY <1>1, <1>2 DEF RpInv, RpTypeOK
<1>4. QED
  BY <1>1, <1>3 DEF RpInv, RunsFit, BacklogFits, DocumentFits

LEMMA HidesKeeps ==
    ASSUME RpInv, Hides \/ Shows
    PROVE  RpInv'
<1>1. /\ doc' \in {"none", "loading"} /\ shown' = <<>> /\ (~panel => doc' = "none")
      /\ UNCHANGED <<written, over, currentRunToken, currentFrames, panel, ready, revealedThisRun,
                     backlog, toDoc, toHost, loads, clicks, wantsPanel>>
  BY DEF Hides, Shows, program, frames, RpInv, DocumentFits
<1>2. \A S : <<>> \in Seq(S)
  OBVIOUS
<1>3. RpTypeOK'
  BY <1>1, <1>2 DEF RpInv, RpTypeOK
<1>4. QED
  BY <1>1, <1>3 DEF RpInv, RunsFit, BacklogFits, DocumentFits

LEMMA LoadsKeeps ==
    ASSUME RpInv, Loads
    PROVE  RpInv'
<1>1. /\ doc = "loading" /\ doc' = "live" /\ toHost' = Append(toHost, Ready)
      /\ UNCHANGED <<written, over, currentRunToken, currentFrames, panel, ready, revealedThisRun,
                     backlog, toDoc, shown, clicks, wantsPanel>>
      /\ toHost \in Seq(RenderItem \cup {Ready}) /\ panel
  BY DEF Loads, program, frames, RpInv, RpTypeOK
<1>2. toHost' \in Seq(RenderItem \cup {Ready})
  BY <1>1
<1>3. ~(Ready \notin ToSet(toHost'))
  BY <1>1, HeardAppend
<1>4. RpTypeOK'
  BY <1>1, <1>2 DEF RpInv, RpTypeOK
<1>5. QED
  BY <1>1, <1>3, <1>4 DEF RpInv, RunsFit, BacklogFits, DocumentFits

LEMMA DeliversKeeps ==
    ASSUME RpInv, Delivers
    PROVE  RpInv'
<1>1. /\ toDoc # <<>> /\ toDoc' = Tail(toDoc)
      /\ shown' = IF doc = "live" THEN applyMessage(Head(toDoc)) ELSE shown
      /\ UNCHANGED <<written, over, currentRunToken, currentFrames, panel, ready, revealedThisRun,
                     backlog, toHost, doc, loads, clicks, wantsPanel>>
  BY DEF Delivers, program, frames
<1>2. /\ backlog \in Seq(Messages) /\ toDoc \in Seq(Messages) /\ shown \in Seq(Messages)
      /\ backlog # <<>> => Tail(backlog) \in Seq(Messages)
  BY RpSequences
<1>3. toDoc' \in Seq(Messages) /\ Head(toDoc) \in Messages
  BY <1>1, <1>2
<1>4. shown \in Seq(RenderItem)
  BY DEF RpInv, RpTypeOK
<1>5. applyMessage(Head(toDoc)) \in Seq(RenderItem)
  <2>1. CASE Head(toDoc) = Reset
    BY <2>1 DEF applyMessage
  <2>2. CASE Head(toDoc) # Reset
    <3>1. Head(toDoc) \in RenderItem
      BY <1>3, <2>2 DEF Messages
    <3>2. QED
      BY <1>4, <2>2, <3>1 DEF applyMessage
  <2>3. QED
    BY <2>1, <2>2
<1>6. RpTypeOK'
  BY <1>1, <1>3, <1>4, <1>5 DEF RpInv, RpTypeOK, Messages
<1>7. panel => backlog # <<>>
  BY DEF RpInv, BacklogFits
<1>8. panel /\ WillShow(shown, toDoc, Tail(backlog)) =>
        WillShow(applyMessage(Head(toDoc)), Tail(toDoc), Tail(backlog))
  BY <1>1, <1>2, <1>7, ShowsOn DEF applyMessage
<1>9. DocumentFits'
  BY <1>1, <1>8 DEF RpInv, DocumentFits
<1>10. QED
  BY <1>1, <1>6, <1>9 DEF RpInv, RunsFit, BacklogFits

LEMMA ClickKeeps ==
    ASSUME RpInv, NEW k \in DOMAIN shown, onFrameActivate(k)
    PROVE  RpInv'
<1>1. /\ doc = "live" /\ toHost' = Append(toHost, shown[k])
      /\ UNCHANGED <<written, over, currentRunToken, currentFrames, panel, ready, revealedThisRun,
                     backlog, toDoc, doc, shown, loads, wantsPanel>>
      /\ toHost \in Seq(RenderItem \cup {Ready}) /\ shown \in Seq(RenderItem) /\ panel
  BY DEF onFrameActivate, program, frames, RpInv, RpTypeOK
<1>2. shown[k] \in RenderItem
  BY <1>1
<1>3. toHost' \in Seq(RenderItem \cup {Ready})
  BY <1>1, <1>2
<1>4. Ready \notin ToSet(toHost') => Ready \notin ToSet(toHost)
  BY <1>1, HeardAppend
<1>5. RpTypeOK'
  BY <1>1, <1>3 DEF RpInv, RpTypeOK
<1>6. QED
  BY <1>1, <1>4, <1>5 DEF RpInv, RunsFit, BacklogFits, DocumentFits

LEMMA RpKept == RpInv /\ [RpNext]_rpVars => RpInv'
<1> SUFFICES ASSUME RpInv, [RpNext]_rpVars PROVE RpInv'
  OBVIOUS
<1>1. CASE UNCHANGED rpVars
  BY <1>1 DEF rpVars, RpInv, RpTypeOK, RunsFit, BacklogFits, DocumentFits
<1>2. QED
  BY <1>1, StartRunKeeps, WriteOutputKeeps, WriteOutcomeKeeps, HearsReadyKeeps, RevealFrameKeeps,
     ClosesPanelKeeps, HidesKeeps, LoadsKeeps, DeliversKeeps, ClickKeeps DEF RpNext

LEMMA RpShows == RpInv => ShowsTheRun /\ RichBringsPanel
<1> SUFFICES ASSUME RpInv PROVE ShowsTheRun /\ RichBringsPanel
  OBVIOUS
<1>1. backlog # <<>> => Tail(backlog) \in Seq(Messages) /\ shown \in Seq(Messages)
  BY RpSequences
<1>2. panel => backlog # <<>>
  BY DEF RpInv, BacklogFits
<1>3. backlog # <<>> /\ WillShow(shown, <<>>, Tail(backlog)) => shown = Tail(backlog)
  BY <1>1, ShowsAtOnce
<1>4. QED
  BY <1>2, <1>3 DEF RpInv, RunsFit, DocumentFits, ShowsTheRun, RichBringsPanel

(* Where runs follow one another, a traceback is that of the current run.  *)
OwnItem == {m \in RenderItem : m.kind = "traceback" => m.run = m.token}
OwnClick == {m \in OwnItem : m.kind = "traceback"}

HomeInv ==
    /\ RpInv
    /\ \A r \in 1 .. currentRunToken : r = currentRunToken \/ over[r]
    /\ currentFrames \in {0, currentRunToken}
    /\ backlog \in Seq(OwnItem \cup {Reset}) /\ toDoc \in Seq(OwnItem \cup {Reset})
    /\ shown \in Seq(OwnItem) /\ toHost \in Seq(OwnClick \cup {Ready})

LEMMA HomeBegins == RpInit => HomeInv
<1>1. \A S : <<>> \in Seq(S)
  OBVIOUS
<1>2. \A r \in 1 .. 0 : FALSE
  OBVIOUS
<1>3. QED
  BY <1>1, <1>2, RpBegins DEF RpInit, HomeInv

LEMMA EmitOwn ==
    ASSUME HomeInv, NEW m \in OwnItem \cup {Reset}, emit(m)
    PROVE  backlog' \in Seq(OwnItem \cup {Reset}) /\ toDoc' \in Seq(OwnItem \cup {Reset})
<1> DEFINE S == OwnItem \cup {Reset}
<1>1. backlog \in Seq(S) /\ toDoc \in Seq(S) /\ m \in S
  BY DEF HomeInv
<1>2. /\ backlog' = Keeps(backlog, m)
      /\ toDoc' = IF panel /\ ready THEN Append(toDoc, m) ELSE toDoc
  BY DEF emit
<1> HIDE DEF S
<1>3. <<m>> \in Seq(S) /\ Append(backlog, m) \in Seq(S) /\ Append(toDoc, m) \in Seq(S)
  BY <1>1
<1>4. QED
  BY <1>1, <1>2, <1>3 DEF Keeps, S

LEMMA ItemOwn ==
    ASSUME HomeInv, NEW r \in Live, NEW k \in Kinds
    PROVE  r = currentRunToken /\ Item(r, k) \in OwnItem \cup {Reset}
<1>1. r \in 1 .. currentRunToken /\ ~over[r]
  BY DEF Live
<1>2. r = currentRunToken
  BY <1>1 DEF HomeInv
<1>3. Item(r, k) \in RenderItem
  BY ItemFits DEF HomeInv
<1>4. Item(r, k).run = r /\ Item(r, k).token = currentRunToken
  BY DEF Item
<1>5. QED
  BY <1>2, <1>3, <1>4 DEF OwnItem

LEMMA NextRun ==
    ASSUME RpInv, NEW r \in 1 .. currentRunToken + 1, r # currentRunToken + 1
    PROVE  r \in 1 .. currentRunToken
<1>1. currentRunToken \in Nat
  BY RpBounds DEF RpInv, RpTypeOK
<1>2. QED
  BY <1>1

LEMMA HomeKept ==
    ASSUME "overlap" \notin RpMayMeet, HomeInv, [RpNext]_rpVars
    PROVE  HomeInv'
<1>1. RpInv'
  BY RpKept DEF HomeInv
<1>2. CASE UNCHANGED rpVars
  BY <1>1, <1>2 DEF rpVars, HomeInv
<1>3. CASE startRun
  <2>1. /\ Live = {} /\ currentRunToken' = currentRunToken + 1 /\ currentFrames' = 0
        /\ emit(Reset) /\ UNCHANGED <<over, shown, toHost>>
    BY <1>3 DEF startRun, program, page
  <2>2. backlog' \in Seq(OwnItem \cup {Reset}) /\ toDoc' \in Seq(OwnItem \cup {Reset})
    BY <2>1, EmitOwn
  <2>3. \A r \in 1 .. currentRunToken : over[r]
    BY <2>1 DEF Live
  <2>4. \A r \in 1 .. currentRunToken' : r = currentRunToken' \/ over'[r]
    BY <2>1, <2>3, NextRun DEF HomeInv
  <2>5. QED
    BY <1>1, <2>1, <2>2, <2>4 DEF HomeInv
<1>4. ASSUME NEW r \in Runs, NEW k \in Kinds, writeOutput(r, k) PROVE HomeInv'
  <2>1. /\ r \in Live /\ emit(Item(r, k)) /\ currentFrames' \in {r, currentFrames}
        /\ UNCHANGED <<over, currentRunToken, shown, toHost>>
    BY <1>4 DEF writeOutput
  <2>2. r = currentRunToken /\ Item(r, k) \in OwnItem \cup {Reset}
    BY <2>1, ItemOwn
  <2>3. QED
    BY <1>1, <2>1, <2>2, EmitOwn DEF HomeInv
<1>5. ASSUME NEW r \in Runs, writeOutcome(r) PROVE HomeInv'
  <2>1. /\ r \in Live /\ emit(Item(r, "outcome")) /\ over' = [over EXCEPT ![r] = TRUE]
        /\ UNCHANGED <<currentRunToken, currentFrames, shown, toHost>>
    BY <1>5 DEF writeOutcome, frames, page
  <2>2. Item(r, "outcome") \in OwnItem \cup {Reset}
    BY <2>1, ItemOwn DEF Kinds
  <2>3. over \in [Runs -> BOOLEAN]
    BY DEF HomeInv, RpInv, RunsFit
  <2>4. \A q \in 1 .. currentRunToken : over[q] => over'[q]
    <3>1. \A q \in 1 .. currentRunToken : q \in Runs
      BY RpBounds DEF HomeInv, RpInv, RpTypeOK, Runs
    <3>2. QED
      BY <2>1, <2>3, <3>1
  <2>5. QED
    BY <1>1, <2>1, <2>2, <2>4, EmitOwn DEF HomeInv
<1>6. CASE hearsReady
  <2>1. /\ toHost # <<>> /\ toHost' = Tail(toHost) /\ toDoc' = toDoc \o backlog
        /\ UNCHANGED <<over, currentRunToken, currentFrames, backlog, shown>>
    BY <1>6 DEF hearsReady, program, frames, page, Replays
  <2>2. toHost' \in Seq(OwnClick \cup {Ready}) /\ toDoc' \in Seq(OwnItem \cup {Reset})
    BY <2>1 DEF HomeInv
  <2>3. QED
    BY <1>1, <2>1, <2>2 DEF HomeInv
<1>7. CASE revealFrame
  <2>1. /\ toHost # <<>> /\ toHost' = Tail(toHost)
        /\ UNCHANGED <<over, currentRunToken, currentFrames, backlog, toDoc, shown>>
    BY <1>7 DEF revealFrame, program, frames, page
  <2>2. toHost' \in Seq(OwnClick \cup {Ready})
    BY <2>1 DEF HomeInv
  <2>3. QED
    BY <1>1, <2>1, <2>2 DEF HomeInv
<1>8. CASE ClosesPanel \/ Hides \/ Shows
  <2>1. /\ toHost' \in {toHost, <<>>} /\ toDoc' \in {toDoc, <<>>} /\ shown' \in {shown, <<>>}
        /\ UNCHANGED <<over, currentRunToken, currentFrames, backlog>>
    BY <1>8 DEF ClosesPanel, Hides, Shows, program, frames
  <2>2. \A S : <<>> \in Seq(S)
    OBVIOUS
  <2>3. QED
    BY <1>1, <2>1, <2>2 DEF HomeInv
<1>9. CASE Loads
  <2>1. /\ toHost' = Append(toHost, Ready)
        /\ UNCHANGED <<over, currentRunToken, currentFrames, backlog, toDoc, shown>>
    BY <1>9 DEF Loads, program, frames
  <2>2. toHost' \in Seq(OwnClick \cup {Ready})
    BY <2>1 DEF HomeInv
  <2>3. QED
    BY <1>1, <2>1, <2>2 DEF HomeInv
<1>10. CASE Delivers
  <2>1. /\ toDoc # <<>> /\ toDoc' = Tail(toDoc) /\ shown' \in {shown, applyMessage(Head(toDoc))}
        /\ UNCHANGED <<over, currentRunToken, currentFrames, backlog, toHost>>
    BY <1>10 DEF Delivers, program, frames
  <2>2. toDoc' \in Seq(OwnItem \cup {Reset}) /\ Head(toDoc) \in OwnItem \cup {Reset}
    BY <2>1 DEF HomeInv
  <2>3. applyMessage(Head(toDoc)) \in Seq(OwnItem)
    BY <2>2 DEF HomeInv, applyMessage
  <2>4. QED
    BY <1>1, <2>1, <2>2, <2>3 DEF HomeInv
<1>11. ASSUME NEW k \in DOMAIN shown, onFrameActivate(k) PROVE HomeInv'
  <2>1. /\ shown[k].kind = "traceback" /\ toHost' = Append(toHost, shown[k])
        /\ UNCHANGED <<over, currentRunToken, currentFrames, backlog, toDoc, shown>>
    BY <1>11 DEF onFrameActivate, program, frames
  <2>2. shown[k] \in OwnClick
    BY <2>1 DEF HomeInv, OwnClick
  <2>3. toHost' \in Seq(OwnClick \cup {Ready})
    BY <2>1, <2>2 DEF HomeInv
  <2>4. QED
    BY <1>1, <2>1, <2>3 DEF HomeInv
<1>12. QED
  BY <1>2, <1>3, <1>4, <1>5, <1>6, <1>7, <1>8, <1>9, <1>10, <1>11 DEF RpNext

LEMMA HomeShows == HomeInv => ClickGoesHome
<1> SUFFICES ASSUME HomeInv, NEW c \in ToSet(toHost), c # Ready, Reveals(c)
             PROVE  c.run = currentFrames /\ c.run = currentRunToken
  BY DEF ClickGoesHome
<1>1. c \in OwnClick \cup {Ready}
  BY DEF HomeInv, ToSet
<1>2. c.run = c.token
  BY <1>1 DEF OwnClick, OwnItem
<1>3. QED
  BY <1>2 DEF Reveals, HomeInv

(* Once nothing is on its way, a document that was answered shows the run, *)
(* each item once and in order, however often the panel was hidden, closed *)
(* or loaded anew, also where runs overlap; and what a run shows beside    *)
(* its text brings a panel (resultPanel.ts, open, emit, writeOutput).      *)
THEOREM PanelShowsTheRun == WorkbenchSpec => [](ShowsTheRun /\ RichBringsPanel)
<1>1. WorkbenchInit => RpInv
  BY RpBegins DEF WorkbenchInit
<1>2. RpInv /\ [WorkbenchNext]_workbenchVars => RpInv'
  BY RpKept, PartsStep
<1>3. QED
  BY <1>1, <1>2, RpShows, PTL DEF WorkbenchSpec

(* A click on a frame opens an editor only at a line of the program that   *)
(* wrote the traceback, provided that no run begins while another writes   *)
(* (resultPanel.ts, revealFrame).                                          *)
THEOREM ClicksGoHome ==
    ASSUME "overlap" \notin RpMayMeet
    PROVE  WorkbenchSpec => []ClickGoesHome
<1>1. WorkbenchInit => HomeInv
  BY HomeBegins DEF WorkbenchInit
<1>2. HomeInv /\ [WorkbenchNext]_workbenchVars => HomeInv'
  BY HomeKept, PartsStep
<1>3. QED
  BY <1>1, <1>2, HomeShows, PTL DEF WorkbenchSpec

-----------------------------------------------------------------------------
(* Stubs.  What a command has noted depends on how far it is.              *)
Probing == [at : {"probes"}, profile : EnProfiles, changed : {FALSE}]
Replied == [at : {"waits", "stores", "opens"}, profile : EnProfiles, changed : {FALSE},
             answer : SUBSET Packages, packages : SUBSET (Packages \ LocalPackages)]
Deciding == [at : {"lists", "stores", "opens"}, profile : EnProfiles, changed : {FALSE},
             answer : SUBSET Packages, packages : SUBSET (Packages \ LocalPackages),
             decision : {"already-ours", "write"}]
Keeping == [at : {"deletes", "writes", "ignores", "sets", "stores", "opens"},
            profile : EnProfiles, answer : SUBSET Packages,
            packages : SUBSET (Packages \ LocalPackages),
            decision : {"already-ours", "write"}, desired : SUBSET Packages,
            toDelete : SUBSET Packages, toWrite : SUBSET Packages, listed : SUBSET Packages,
            changed : BOOLEAN]
Doing == {Idle} \cup Probing \cup Replied \cup Deciding \cup Keeping

AtWork == {"lists", "deletes", "writes", "ignores", "sets"}

(* How far the tree is, which only the command whose turn it is changes.   *)
KeepsTree(does, held) ==
    /\ does.desired \cap (Bundled \cup LocalPackages \cup does.listed) = {}
    /\ does.at = "deletes" =>
         held \subseteq does.desired \cup does.toDelete /\ does.toWrite = does.desired
           /\ does.toDelete \cap does.desired = {}
    /\ does.at = "writes" => /\ does.toWrite \subseteq does.desired
                             /\ does.desired \subseteq held \cup does.toWrite
    /\ does.at \in {"writes", "ignores", "sets"} => held \subseteq does.desired
    /\ does.at \in {"ignores", "sets"} => does.desired \subseteq held
    /\ does.at \in {"deletes", "writes"} /\ held # does.desired => does.changed

StubFits(c) ==
    /\ doing[c].at \in AtWork => stubPath # "theirs"
    /\ doing[c] \in Keeping /\ doing[c].at \in AtWork => KeepsTree(doing[c], tree)

OneAtWork == \A c, d \in StubCommands : doing[c].at \in AtWork /\ doing[d].at \in AtWork => c = d
OwedByOne == owed => \E c \in StubCommands : doing[c] \in Keeping /\ doing[c].changed

EnTyped ==
    /\ remote \in [EnProfiles -> SUBSET Packages] /\ owned \subseteq Packages
    /\ environment \in [EnProfiles -> {Undefined} \cup SUBSET Packages]
    /\ tree \subseteq Packages /\ stubPath \in {"unset", "ours", "theirs"}
    /\ doing \in [StubCommands -> Doing]
    /\ owed \in BOOLEAN /\ changes \in 0 .. MaxChanges

EnInv == EnTyped /\ (\A c \in StubCommands : StubFits(c)) /\ OneAtWork /\ OwedByOne

LEMMA DoesWhat ==
    ASSUME NEW does \in Doing
    PROVE  /\ does.at = "idle" => does = Idle
           /\ does.at = "probes" => does \in Probing
           /\ does.at = "waits" => does \in Replied
           /\ does.at = "lists" => does \in Deciding
           /\ does.at \in {"deletes", "writes", "ignores", "sets"} => does \in Keeping
           /\ does.at \in {"stores", "opens"} => does \in Replied \cup Deciding \cup Keeping
           /\ does.at \in EnSteps
           /\ does \in Keeping => does.at # "idle" /\ does.at # "waits" /\ does.at # "lists"
                                     /\ does.at # "probes"
<1>1. Idle.at = "idle" /\ (does \in Probing => does.at = "probes")
  BY DEF Idle, Probing
<1>2. /\ does \in Replied => does.at \in {"waits", "stores", "opens"}
      /\ does \in Deciding => does.at \in {"lists", "stores", "opens"}
      /\ does \in Keeping =>
           does.at \in {"deletes", "writes", "ignores", "sets", "stores", "opens"}
  BY DEF Replied, Deciding, Keeping
<1>3. does = Idle \/ does \in Probing \/ does \in Replied \/ does \in Deciding \/ does \in Keeping
  BY DEF Doing
<1>4. QED
  BY <1>1, <1>2, <1>3 DEF EnSteps

LEMMA EnBegins == EnInit => EnInv
<1> SUFFICES ASSUME EnInit PROVE EnInv
  OBVIOUS
<1>1. \A c \in StubCommands : doing[c] = Idle
  BY DEF EnInit
<1>2. 0 \in 0 .. MaxChanges
  BY EnAssumption
<1>3. EnTyped
  <2>1. Idle \in Doing
    BY DEF Doing
  <2>2. QED
    BY <1>2, <2>1 DEF EnInit, EnTyped
<1>4. Idle.at = "idle"
  BY DEF Idle
<1>5. \A c \in StubCommands : doing[c].at \notin AtWork
  BY <1>1, <1>4 DEF AtWork
<1>6. QED
  BY <1>3, <1>5 DEF EnInv, StubFits, OneAtWork, OwedByOne, EnInit

LEMMA SyncingIs == \A c \in StubCommands : c \in Syncing <=> doing[c].at \in AtWork
BY DEF Syncing, IsDoing, AtWork

(* A command comes to a point where it does not touch the tree.            *)
LEMMA Leaves ==
    ASSUME EnInv, NEW c \in StubCommands, NEW does \in Doing,
           doing' = [doing EXCEPT ![c] = does], does.at \notin AtWork,
           UNCHANGED <<remote, owned, tree, changes>>,
           environment' \in [EnProfiles -> {Undefined} \cup SUBSET Packages],
           stubPath' = stubPath \/ (stubPath' = "ours" /\ \A d \in StubCommands \ {c} : doing[d].at \notin AtWork),
           owed' \in BOOLEAN,
           owed' => \/ does \in Keeping /\ does.changed
                    \/ owed /\ ~(doing[c] \in Keeping /\ doing[c].changed)
    PROVE  EnInv'
<1>1. /\ doing \in [StubCommands -> Doing] /\ doing' \in [StubCommands -> Doing]
      /\ doing'[c] = does /\ \A d \in StubCommands \ {c} : doing'[d] = doing[d]
  BY DEF EnInv, EnTyped
<1>2. EnTyped'
  BY <1>1 DEF EnInv, EnTyped
<1>3. ASSUME NEW d \in StubCommands PROVE StubFits(d)'
  <2>1. CASE d = c
    BY <1>1, <2>1 DEF StubFits
  <2>2. CASE d # c
    <3>1. StubFits(d) /\ doing'[d] = doing[d] /\ tree' = tree
      BY <1>1, <2>2 DEF EnInv
    <3>2. doing[d].at \in AtWork => stubPath' = stubPath
      BY <2>2
    <3>3. QED
      BY <3>1, <3>2 DEF StubFits, KeepsTree
  <2>3. QED
    BY <2>1, <2>2
<1>4. OneAtWork'
  BY <1>1 DEF EnInv, OneAtWork
<1>5. OwedByOne'
  <2>1. CASE does \in Keeping /\ does.changed
    BY <1>1, <2>1 DEF OwedByOne, Keeping
  <2>2. CASE owed /\ ~(doing[c] \in Keeping /\ doing[c].changed)
    <3>1. PICK d \in StubCommands : doing[d] \in Keeping /\ doing[d].changed
      BY <2>2 DEF EnInv, OwedByOne
    <3>2. doing'[d] = doing[d]
      BY <1>1, <2>2, <3>1
    <3>3. QED
      BY <3>1, <3>2 DEF OwedByOne, Keeping
  <2>3. QED
    BY <2>1, <2>2 DEF OwedByOne
<1>6. QED
  BY <1>2, <1>3, <1>4, <1>5 DEF EnInv

(* The command whose turn it is goes on.                                   *)
LEMMA Works ==
    ASSUME EnInv, NEW c \in StubCommands, NEW does \in Deciding \cup Keeping,
           doing' = [doing EXCEPT ![c] = does], does.at \in AtWork,
           doing[c].at \in AtWork \/ Syncing = {}, stubPath # "theirs",
           UNCHANGED <<remote, owned, stubPath, changes, environment>>,
           tree' \subseteq Packages, does \in Keeping => KeepsTree(does, tree'),
           owed' \in BOOLEAN,
           owed' => \/ does \in Keeping /\ does.changed
                    \/ owed /\ ~(doing[c] \in Keeping /\ doing[c].changed)
    PROVE  EnInv'
<1>0. does \in Doing
  BY DEF Doing
<1>1. /\ doing \in [StubCommands -> Doing] /\ doing' \in [StubCommands -> Doing]
      /\ doing'[c] = does /\ \A d \in StubCommands \ {c} : doing'[d] = doing[d]
  BY <1>0 DEF EnInv, EnTyped
<1>2. EnTyped'
  BY <1>1 DEF EnInv, EnTyped
<1>3. \A d \in StubCommands \ {c} : doing[d].at \notin AtWork
  BY SyncingIs DEF EnInv, OneAtWork
<1>4. ASSUME NEW d \in StubCommands PROVE StubFits(d)'
  <2>1. CASE d = c
    BY <1>1, <2>1 DEF StubFits, Keeping
  <2>2. CASE d # c
    BY <1>1, <1>3, <2>2 DEF StubFits
  <2>3. QED
    BY <2>1, <2>2
<1>5. OneAtWork'
  BY <1>1, <1>3 DEF OneAtWork
<1>6. OwedByOne'
  <2>1. CASE does \in Keeping /\ does.changed
    BY <1>1, <2>1 DEF OwedByOne, Keeping
  <2>2. CASE owed /\ ~(doing[c] \in Keeping /\ doing[c].changed)
    <3>1. PICK d \in StubCommands : doing[d] \in Keeping /\ doing[d].changed
      BY <2>2 DEF EnInv, OwedByOne
    <3>2. doing'[d] = doing[d]
      BY <1>1, <2>2, <3>1
    <3>3. QED
      BY <3>1, <3>2 DEF OwedByOne, Keeping
  <2>3. QED
    BY <2>1, <2>2 DEF OwedByOne
<1>7. QED
  BY <1>2, <1>4, <1>5, <1>6 DEF EnInv

(* As a synchronisation is over, the command stores its answer.            *)
LEMMA StoresAfter ==
    ASSUME NEW does \in Replied \cup Deciding \cup Keeping, NEW changed \in BOOLEAN,
           does \in Keeping \/ ~changed
    PROVE  LET then == [does EXCEPT !.at = "stores", !.changed = changed]
           IN  /\ then \in Doing /\ then.at = "stores" /\ then.changed = changed
               /\ does \in Keeping => then \in Keeping
<1> DEFINE then == [does EXCEPT !.at = "stores", !.changed = changed]
<1>1. CASE does \in Keeping
  <2>1. then \in Keeping /\ then.at = "stores" /\ then.changed = changed
    BY <1>1 DEF Keeping
  <2>2. QED
    BY <2>1 DEF Doing
<1>2. CASE does \in Replied /\ does \notin Keeping
  <2>1. then \in Replied /\ then.at = "stores" /\ then.changed = changed
    BY <1>2 DEF Replied
  <2>2. QED
    BY <1>2, <2>1 DEF Doing
<1>3. CASE does \in Deciding /\ does \notin Keeping
  <2>1. then \in Deciding /\ then.at = "stores" /\ then.changed = changed
    BY <1>3 DEF Deciding
  <2>2. QED
    BY <1>3, <2>1 DEF Doing
<1>4. QED
  BY <1>1, <1>2, <1>3

LEMMA AsksKeeps ==
    ASSUME EnInv, NEW c \in StubCommands, NEW p \in EnProfiles, NEW forceProbe \in BOOLEAN,
           AsksEnvironment(c, p, forceProbe)
    PROVE  EnInv'
<1> DEFINE does == [at |-> "probes", profile |-> p, changed |-> FALSE]
<1>1. does \in Doing /\ does.at \notin AtWork
  BY DEF Doing, Probing, AtWork
<1>2. /\ doing' = [doing EXCEPT ![c] = does] /\ UNCHANGED <<remote, owned, tree, changes>>
      /\ UNCHANGED <<environment, stubPath, owed>> /\ doing[c].at = "idle"
  BY DEF AsksEnvironment, stubDisk, IsDoing
<1> HIDE DEF does
<1>3. doing[c] \notin Keeping
  BY <1>2, DoesWhat DEF EnInv, EnTyped
<1>4. QED
  BY <1>1, <1>2, <1>3, Leaves DEF EnInv, EnTyped

LEMMA ProbesKeep ==
    ASSUME EnInv, NEW c \in StubCommands, ProbeFails(c) \/ Probed(c)
    PROVE  EnInv'
<1>1. /\ UNCHANGED <<remote, owned, tree, changes>> /\ UNCHANGED <<environment, stubPath, owed>>
      /\ doing[c].at = "probes"
  BY DEF ProbeFails, Probed, stubDisk, IsDoing
<1>2. doing[c] \in Probing /\ doing[c] \notin Keeping
  BY <1>1, DoesWhat DEF EnInv, EnTyped
<1>3. CASE ProbeFails(c)
  <2>1. doing' = [doing EXCEPT ![c] = Idle] /\ Idle \in Doing /\ Idle.at \notin AtWork
    BY <1>3 DEF ProbeFails, Doing, Idle, AtWork
  <2>2. QED
    BY <1>1, <1>2, <2>1, Leaves DEF EnInv, EnTyped
<1>4. CASE Probed(c)
  <2> DEFINE does == [at |-> "waits", profile |-> doing[c].profile, changed |-> FALSE,
                      answer |-> remote[doing[c].profile],
                      packages |-> selectPackagesToStub(remote[doing[c].profile])]
  <2>1. doing[c].profile \in EnProfiles
    BY <1>2 DEF Probing
  <2>2. does \in Replied /\ does.at \notin AtWork
    BY <2>1 DEF Replied, AtWork, selectPackagesToStub, EnInv, EnTyped
  <2>3. doing' = [doing EXCEPT ![c] = does]
    BY <1>4 DEF Probed
  <2> HIDE DEF does
  <2>4. QED
    BY <1>1, <1>2, <2>2, <2>3, Leaves DEF EnInv, EnTyped, Doing
<1>5. QED
  BY <1>3, <1>4

LEMMA DecidesKeeps ==
    ASSUME EnInv, NEW c \in StubCommands, Decides(c)
    PROVE  EnInv'
<1>1. /\ UNCHANGED <<remote, owned, tree, changes>> /\ UNCHANGED <<environment, stubPath, owed>>
      /\ doing[c].at = "waits" /\ Syncing = {}
  BY DEF Decides, stubDisk, IsDoing, MaySync
<1>2. doing[c] \in Replied /\ doing[c] \notin Keeping
  BY <1>1, DoesWhat DEF EnInv, EnTyped
<1>3. CASE stubPath = "theirs"
  <2> DEFINE does == [doing[c] EXCEPT !.at = "stores", !.changed = FALSE]
  <2>1. doing' = [doing EXCEPT ![c] = does]
    BY <1>3 DEF Decides, Conflict, Synced, EnInv, EnTyped
  <2>2. does \in Doing /\ does.at = "stores"
    BY <1>2, StoresAfter, Zenon
  <2> HIDE DEF does
  <2>3. QED
    BY <1>1, <1>2, <2>1, <2>2, Leaves DEF EnInv, EnTyped, AtWork
<1>4. CASE stubPath # "theirs"
  <2> DEFINE does == [at |-> "lists", profile |-> doing[c].profile, changed |-> FALSE,
                      answer |-> doing[c].answer, packages |-> doing[c].packages,
                      decision |-> IF stubPath = "ours" THEN "already-ours" ELSE "write"]
  <2>1. doing' = [doing EXCEPT ![c] = does]
    BY <1>4 DEF Decides, Conflict, EnInv, EnTyped
  <2>2. does \in Deciding /\ does.at \in AtWork
    BY <1>2 DEF Replied, Deciding, AtWork
  <2>3. does.at = "lists"
    OBVIOUS
  <2> HIDE DEF does
  <2>4. does \notin Keeping
    BY <2>2, <2>3, DoesWhat DEF Doing
  <2>5. QED
    BY <1>1, <1>2, <1>4, <2>1, <2>2, <2>4, Works DEF EnInv, EnTyped
<1>5. QED
  BY <1>3, <1>4

LEMMA PlansKeeps ==
    ASSUME EnInv, NEW c \in StubCommands, Plans(c)
    PROVE  EnInv'
<1> DEFINE wanted == excludeWorkspaceOwnedNames(generateStubTree(doing[c].packages))
           does == [at |-> "deletes", profile |-> doing[c].profile, answer |-> doing[c].answer,
                    decision |-> doing[c].decision, packages |-> doing[c].packages,
                    desired |-> wanted, toDelete |-> tree \ wanted, toWrite |-> wanted,
                    listed |-> owned, changed |-> Moves(wanted)]
<1>1. /\ doing[c].at = "lists" /\ doing' = [doing EXCEPT ![c] = does]
      /\ UNCHANGED <<remote, environment, changes, owned, tree, stubPath, owed>>
  BY DEF Plans, IsDoing, stubDisk, EnInv, EnTyped
<1>2. doing[c] \in Deciding /\ doing[c] \notin Keeping
  BY <1>1, DoesWhat DEF EnInv, EnTyped
<1>3. doing[c].at \in AtWork /\ stubPath # "theirs"
  BY <1>1 DEF AtWork, EnInv, StubFits
<1>4. /\ wanted \subseteq Packages /\ wanted \cap (Bundled \cup LocalPackages \cup owned) = {}
      /\ tree \subseteq Packages /\ owned \subseteq Packages
  BY <1>2 DEF Deciding, excludeWorkspaceOwnedNames, generateStubTree, EnInv, EnTyped
<1>5. Moves(wanted) \in BOOLEAN /\ (tree # wanted => Moves(wanted))
  BY DEF Moves
<1> HIDE DEF wanted
<1>6. does \in Keeping /\ does.at = "deletes"
  BY <1>2, <1>4, <1>5 DEF Deciding, Keeping
<1>7. KeepsTree(does, tree')
  <2>1. KeepsTree(does, tree)
    BY <1>4, <1>5 DEF KeepsTree
  <2>2. QED
    BY <1>1, <2>1 DEF KeepsTree
<1> HIDE DEF does
<1>8. does.at \in AtWork
  BY <1>6 DEF AtWork
<1>9. QED
  BY <1>1, <1>2, <1>3, <1>4, <1>6, <1>7, <1>8, Works DEF EnInv, EnTyped

(* What Pylance is owed comes of a change of the tree.                     *)
LEMMA OwesIs == ASSUME NEW moved \in BOOLEAN, owed \in BOOLEAN, Owes(moved)
                PROVE owed' \in BOOLEAN /\ (owed' => owed \/ moved)
BY DEF Owes

LEMMA DeletesKeeps ==
    ASSUME EnInv, NEW c \in StubCommands, DeletesTree(c)
    PROVE  EnInv'
<1>1. /\ doing[c].at = "deletes" /\ doing[c].at \in AtWork
      /\ UNCHANGED <<remote, environment, changes, owned, stubPath>>
  BY DEF DeletesTree, IsDoing, AtWork
<1>2. doing[c] \in Keeping /\ stubPath # "theirs"
  BY <1>1, DoesWhat DEF EnInv, EnTyped, StubFits
<1>3. KeepsTree(doing[c], tree) /\ tree \subseteq Packages /\ owed \in BOOLEAN
  BY <1>1, <1>2 DEF EnInv, EnTyped, StubFits
<1>4. CASE doing[c].toDelete = {}
  <2> DEFINE does == [doing[c] EXCEPT !.at = "writes"]
  <2>1. doing' = [doing EXCEPT ![c] = does] /\ UNCHANGED <<tree, owed>>
    BY <1>4 DEF DeletesTree, StubGoes, EnInv, EnTyped
  <2>2. /\ does \in Keeping /\ does.at = "writes" /\ does.desired = doing[c].desired
        /\ does.listed = doing[c].listed /\ does.toWrite = doing[c].toWrite
        /\ does.changed = doing[c].changed
    BY <1>2 DEF Keeping
  <2> HIDE DEF does
  <2>3. KeepsTree(does, tree')
    <3>1. KeepsTree(does, tree)
      BY <1>1, <1>3, <1>4, <2>2 DEF KeepsTree
    <3>2. QED
      BY <2>1, <3>1
  <2>4. QED
    BY <1>1, <1>2, <1>3, <2>1, <2>2, <2>3, Works DEF AtWork, OwedByOne, EnInv
<1>5. CASE doing[c].toDelete # {}
  <2>1. PICK n \in doing[c].toDelete :
          /\ doing' = [doing EXCEPT ![c] = [doing[c] EXCEPT !.toDelete = @ \ {n}]]
          /\ tree' = tree \ {n} /\ Owes(n \in tree)
    BY <1>5 DEF DeletesTree, EnInv, EnTyped
  <2> DEFINE does == [doing[c] EXCEPT !.toDelete = @ \ {n}]
  <2>2. /\ does \in Keeping /\ does.at = "deletes" /\ does.desired = doing[c].desired
        /\ does.listed = doing[c].listed /\ does.toWrite = doing[c].toWrite
        /\ does.changed = doing[c].changed /\ does.toDelete = doing[c].toDelete \ {n}
    BY <1>1, <1>2 DEF Keeping
  <2>3. doing' = [doing EXCEPT ![c] = does]
    BY <2>1
  <2> HIDE DEF does
  <2>4. n \in tree => doing[c].changed
    BY <1>1, <1>3, <2>1 DEF KeepsTree
  <2>5. KeepsTree(does, tree')
    <3>1. /\ does.desired \cap (Bundled \cup LocalPackages \cup does.listed) = {}
          /\ tree' \subseteq does.desired \cup does.toDelete /\ does.toWrite = does.desired
          /\ does.toDelete \cap does.desired = {}
      BY <1>1, <1>3, <2>1, <2>2 DEF KeepsTree
    <3>2. tree' # does.desired => does.changed
      BY <1>1, <1>3, <2>1, <2>2, <2>4 DEF KeepsTree
    <3>3. QED
      BY <2>2, <3>1, <3>2 DEF KeepsTree
  <2>6. owed' \in BOOLEAN /\ (owed' => owed \/ does.changed)
    <3>1. owed' \in BOOLEAN /\ (owed' => owed \/ n \in tree)
      BY <1>3, <2>1 DEF Owes
    <3>2. QED
      BY <2>2, <2>4, <3>1
  <2>7. owed' => \/ does \in Keeping /\ does.changed
                 \/ owed /\ ~(doing[c] \in Keeping /\ doing[c].changed)
    BY <2>2, <2>6
  <2>8. tree' \subseteq Packages /\ does.at \in AtWork
    BY <1>3, <2>1, <2>2 DEF AtWork
  <2>9. QED
    BY <1>1, <1>2, <2>2, <2>3, <2>5, <2>6, <2>7, <2>8, Works
<1>6. QED
  BY <1>4, <1>5

LEMMA WritesKeeps ==
    ASSUME EnInv, NEW c \in StubCommands, WritesTree(c)
    PROVE  EnInv'
<1>1. /\ doing[c].at = "writes" /\ doing[c].at \in AtWork
      /\ UNCHANGED <<remote, environment, changes, owned, stubPath>>
  BY DEF WritesTree, IsDoing, AtWork
<1>2. doing[c] \in Keeping /\ stubPath # "theirs"
  BY <1>1, DoesWhat DEF EnInv, EnTyped, StubFits
<1>3. KeepsTree(doing[c], tree) /\ tree \subseteq Packages /\ owed \in BOOLEAN
  BY <1>1, <1>2 DEF EnInv, EnTyped, StubFits
<1>4. CASE doing[c].toWrite = {}
  <2>1. PICK next \in {"sets", "ignores"} :
          doing' = [doing EXCEPT ![c] = [doing[c] EXCEPT !.at = next]] /\ UNCHANGED <<tree, owed>>
    BY <1>4 DEF WritesTree, StubGoes, EnInv, EnTyped
  <2> DEFINE does == [doing[c] EXCEPT !.at = next]
  <2>2. /\ does \in Keeping /\ does.at = next /\ does.desired = doing[c].desired
        /\ does.listed = doing[c].listed /\ does.changed = doing[c].changed
    BY <1>2 DEF Keeping
  <2>3. doing' = [doing EXCEPT ![c] = does]
    BY <2>1
  <2> HIDE DEF does
  <2>4. KeepsTree(does, tree')
    <3>1. KeepsTree(does, tree)
      BY <1>1, <1>3, <1>4, <2>2 DEF KeepsTree
    <3>2. QED
      BY <2>1, <3>1
  <2>5. QED
    BY <1>1, <1>2, <1>3, <2>1, <2>2, <2>3, <2>4, Works DEF AtWork
<1>5. CASE doing[c].toWrite # {}
  <2>1. PICK n \in doing[c].toWrite :
          /\ doing' = [doing EXCEPT ![c] = [doing[c] EXCEPT !.toWrite = @ \ {n}]]
          /\ tree' = tree \cup {n} /\ Owes(n \notin tree)
    BY <1>5 DEF WritesTree, EnInv, EnTyped
  <2> DEFINE does == [doing[c] EXCEPT !.toWrite = @ \ {n}]
  <2>2. /\ does \in Keeping /\ does.at = "writes" /\ does.desired = doing[c].desired
        /\ does.listed = doing[c].listed /\ does.toWrite = doing[c].toWrite \ {n}
        /\ does.changed = doing[c].changed
    BY <1>1, <1>2 DEF Keeping
  <2>3. doing' = [doing EXCEPT ![c] = does]
    BY <2>1
  <2> HIDE DEF does
  <2>4. n \in doing[c].desired /\ n \in Packages
    BY <1>1, <1>2, <1>3, <2>1 DEF KeepsTree, Keeping
  <2>5. n \notin tree => doing[c].changed
    BY <1>1, <1>3, <2>4 DEF KeepsTree
  <2>6. KeepsTree(does, tree')
    <3>1. /\ does.desired \cap (Bundled \cup LocalPackages \cup does.listed) = {}
          /\ does.toWrite \subseteq does.desired /\ does.desired \subseteq tree' \cup does.toWrite
          /\ tree' \subseteq does.desired
      BY <1>1, <1>3, <2>1, <2>2, <2>4 DEF KeepsTree
    <3>2. tree' # does.desired => does.changed
      BY <1>1, <1>3, <2>1, <2>2, <2>4, <2>5 DEF KeepsTree
    <3>3. QED
      BY <2>2, <3>1, <3>2 DEF KeepsTree
  <2>7. owed' \in BOOLEAN /\ (owed' => owed \/ does.changed)
    BY <1>3, <2>1, <2>2, <2>5, OwesIs
  <2>8. owed' => \/ does \in Keeping /\ does.changed
                 \/ owed /\ ~(doing[c] \in Keeping /\ doing[c].changed)
    BY <2>2, <2>7
  <2>9. tree' \subseteq Packages /\ does.at \in AtWork
    BY <1>3, <2>1, <2>2, <2>4 DEF AtWork
  <2>10. QED
    BY <1>1, <1>2, <2>2, <2>3, <2>6, <2>7, <2>8, <2>9, Works
<1>6. QED
  BY <1>4, <1>5

LEMMA IgnoresKeeps ==
    ASSUME EnInv, NEW c \in StubCommands, Ignores(c)
    PROVE  EnInv'
<1> DEFINE does == [doing[c] EXCEPT !.at = "sets"]
<1>1. /\ doing[c].at = "ignores" /\ doing[c].at \in AtWork /\ doing' = [doing EXCEPT ![c] = does]
      /\ UNCHANGED <<remote, environment, changes, owned, stubPath, tree, owed>>
  BY DEF Ignores, IsDoing, AtWork, StubGoes, stubDisk, EnInv, EnTyped
<1>2. doing[c] \in Keeping /\ stubPath # "theirs"
  BY <1>1, DoesWhat DEF EnInv, EnTyped, StubFits
<1>3. KeepsTree(doing[c], tree) /\ tree \subseteq Packages /\ owed \in BOOLEAN
  BY <1>1, <1>2 DEF EnInv, EnTyped, StubFits
<1>4. /\ does \in Keeping /\ does.at = "sets" /\ does.desired = doing[c].desired
      /\ does.listed = doing[c].listed /\ does.changed = doing[c].changed
  BY <1>2 DEF Keeping
<1> HIDE DEF does
<1>5. KeepsTree(does, tree')
  <2>1. KeepsTree(does, tree)
    BY <1>1, <1>3, <1>4 DEF KeepsTree
  <2>2. QED
    BY <1>1, <2>1 DEF KeepsTree
<1>6. QED
  BY <1>1, <1>2, <1>3, <1>4, <1>5, Works DEF AtWork

LEMMA SetsKeeps ==
    ASSUME EnInv, NEW c \in StubCommands, Sets(c)
    PROVE  EnInv'
<1> DEFINE sets == WroteSome(c) /\ doing[c].decision = "write"
           changed == doing[c].changed \/ sets
           does == [doing[c] EXCEPT !.at = "stores", !.changed = changed]
<1>1. /\ doing[c].at = "sets" /\ doing[c].at \in AtWork /\ doing' = [doing EXCEPT ![c] = does]
      /\ UNCHANGED <<remote, environment, changes, owned, tree>>
      /\ stubPath' = (IF sets THEN "ours" ELSE stubPath) /\ owed' = (owed \/ sets)
  BY DEF Sets, IsDoing, AtWork, Synced, EnInv, EnTyped
<1>2. doing[c] \in Keeping
  BY <1>1, DoesWhat DEF EnInv, EnTyped
<1>3. changed \in BOOLEAN /\ sets \in BOOLEAN /\ (sets => changed) /\ (doing[c].changed => changed)
  BY <1>2 DEF Keeping
<1> HIDE DEF sets, changed
<1>4. does \in Keeping /\ does \in Doing /\ does.at = "stores" /\ does.changed = changed
  BY <1>2, <1>3, StoresAfter, Zenon
<1> HIDE DEF does
<1>5. \A d \in StubCommands \ {c} : doing[d].at \notin AtWork
  BY <1>1 DEF EnInv, OneAtWork
<1>6. owed' \in BOOLEAN /\ (owed' => \/ does \in Keeping /\ does.changed
                                     \/ owed /\ ~(doing[c] \in Keeping /\ doing[c].changed))
  BY <1>1, <1>2, <1>3, <1>4 DEF EnInv, EnTyped
<1>7. QED
  BY <1>1, <1>4, <1>5, <1>6, Leaves DEF AtWork, EnInv, EnTyped

LEMMA FailsKeeps ==
    ASSUME EnInv, "fails" \notin EnMayMeet, NEW c \in StubCommands, SyncFails(c)
    PROVE  EnInv'
<1> DEFINE does == [doing[c] EXCEPT !.at = "stores", !.changed = FALSE]
<1>1. /\ doing[c].at = "lists" /\ doing' = [doing EXCEPT ![c] = does]
      /\ UNCHANGED <<remote, environment, changes, owned, tree, stubPath, owed>>
  BY DEF SyncFails, IsDoing, Synced, stubDisk, EnInv, EnTyped
<1>2. doing[c] \in Deciding /\ doing[c] \notin Keeping
  BY <1>1, DoesWhat DEF EnInv, EnTyped
<1>3. does \in Doing /\ does.at = "stores"
  BY <1>2, StoresAfter, Zenon
<1> HIDE DEF does
<1>4. QED
  BY <1>1, <1>2, <1>3, Leaves DEF EnInv, EnTyped, AtWork

LEMMA StoresKeeps ==
    ASSUME EnInv, "fails" \notin EnMayMeet, NEW c \in StubCommands, StoresAnswer(c)
    PROVE  EnInv'
<1> DEFINE does == [doing[c] EXCEPT !.at = "opens"]
<1>1. /\ doing[c].at = "stores" /\ doing' = [doing EXCEPT ![c] = does]
      /\ UNCHANGED <<remote, changes, owned, tree, stubPath, owed>>
      /\ environment' = [environment EXCEPT ![doing[c].profile] = doing[c].answer]
  BY DEF StoresAnswer, IsDoing, StubGoes, stubDisk, EnInv, EnTyped
<1>2. doing[c] \in Replied \cup Deciding \cup Keeping
  BY <1>1, DoesWhat DEF EnInv, EnTyped
<1>3. /\ does \in Replied \cup Deciding \cup Keeping /\ does.at = "opens"
      /\ doing[c] \in Keeping => does \in Keeping /\ does.changed = doing[c].changed
      /\ doing[c].profile \in EnProfiles /\ doing[c].answer \subseteq Packages
  <2>1. CASE doing[c] \in Keeping
    BY <2>1 DEF Keeping
  <2>2. CASE doing[c] \in Replied /\ doing[c] \notin Keeping
    BY <2>2 DEF Replied
  <2>3. CASE doing[c] \in Deciding /\ doing[c] \notin Keeping
    BY <2>3 DEF Deciding
  <2>4. QED
    BY <1>2, <2>1, <2>2, <2>3
<1>4. environment' \in [EnProfiles -> {Undefined} \cup SUBSET Packages]
  BY <1>1, <1>3 DEF EnInv, EnTyped
<1>5. does \in Doing
  BY <1>3 DEF Doing
<1> HIDE DEF does
<1>6. QED
  BY <1>1, <1>3, <1>4, <1>5, Leaves DEF EnInv, EnTyped, AtWork

LEMMA InformsKeeps ==
    ASSUME EnInv, NEW c \in StubCommands, informReloadAdvisable(c)
    PROVE  EnInv'
<1>1. /\ doing[c].at = "opens" /\ doing' = [doing EXCEPT ![c] = Idle]
      /\ UNCHANGED <<remote, environment, changes, owned, tree, stubPath>>
      /\ owed' = (owed /\ ~doing[c].changed)
  BY DEF informReloadAdvisable, IsDoing
<1>2. Idle \in Doing /\ Idle.at \notin AtWork
  BY DEF Idle, Doing, AtWork
<1>3. QED
  BY <1>1, <1>2, Leaves DEF EnInv, EnTyped

LEMMA EnBound ==
    ASSUME NEW n \in 0 .. MaxChanges, n < MaxChanges PROVE n + 1 \in 0 .. MaxChanges
<1>1. MaxChanges \in Nat
  BY EnAssumption
<1>2. QED
  BY <1>1

LEMMA ChangesKeep ==
    ASSUME EnInv, EnMayMeet = {}, Restarts \/ EnvironmentChanges
    PROVE  EnInv'
<1>1. CASE Restarts
  BY <1>1 DEF Restarts, EnInv, EnTyped, StubFits, KeepsTree, OneAtWork, OwedByOne
<1>2. CASE EnvironmentChanges
  <2>1. UNCHANGED <<environment, tree, doing, syncQueue, owed>>
    BY <1>2 DEF EnvironmentChanges
  <2>2. changes' \in 0 .. MaxChanges
    <3>1. changes < MaxChanges /\ changes' = changes + 1 /\ changes \in 0 .. MaxChanges
      BY <1>2 DEF EnvironmentChanges, EnInv, EnTyped
    <3>2. QED
      BY <3>1, EnBound
  <2>3. /\ remote' \in [EnProfiles -> SUBSET Packages] /\ owned' \subseteq Packages
        /\ stubPath' \in {"unset", "ours", "theirs"}
        /\ stubPath' # stubPath => Syncing = {}
    BY <1>2 DEF EnvironmentChanges, EnInv, EnTyped
  <2>4. EnTyped'
    BY <2>1, <2>2, <2>3 DEF EnInv, EnTyped
  <2>5. \A c \in StubCommands : StubFits(c)'
    BY <2>1, <2>3, SyncingIs DEF EnInv, StubFits, KeepsTree
  <2>6. QED
    BY <2>1, <2>4, <2>5 DEF EnInv, OneAtWork, OwedByOne, Keeping
<1>3. QED
  BY <1>1, <1>2

LEMMA EnKept == ASSUME EnMayMeet = {} PROVE EnInv /\ [EnNext]_enVars => EnInv'
<1> SUFFICES ASSUME EnInv, [EnNext]_enVars PROVE EnInv'
  OBVIOUS
<1>1. CASE UNCHANGED enVars
  BY <1>1 DEF enVars, stubDisk, EnInv, EnTyped, StubFits, KeepsTree, OneAtWork, OwedByOne, Keeping
<1>2. QED
  BY <1>1, AsksKeeps, ProbesKeep, DecidesKeeps, PlansKeeps, DeletesKeeps, WritesKeeps,
     IgnoresKeeps, SetsKeeps, FailsKeeps, StoresKeeps, InformsKeeps, ChangesKeep DEF EnNext

LEMMA EnShows == EnInv => SyncedIsWhole /\ NoticeIsGiven /\ EnTypeOK
<1> SUFFICES ASSUME EnInv PROVE SyncedIsWhole /\ NoticeIsGiven /\ EnTypeOK
  OBVIOUS
<1>1. SyncedIsWhole
  <2> SUFFICES ASSUME NEW c \in StubCommands, IsDoing(c, "sets")
               PROVE  /\ tree = doing[c].desired
                      /\ tree \cap (Bundled \cup LocalPackages \cup doing[c].listed) = {}
    BY DEF SyncedIsWhole
  <2>1. doing[c] \in Keeping /\ doing[c].at = "sets" /\ doing[c].at \in AtWork
    BY DoesWhat DEF EnInv, EnTyped, IsDoing, AtWork
  <2>2. KeepsTree(doing[c], tree)
    BY <2>1 DEF EnInv, StubFits
  <2>3. QED
    BY <2>1, <2>2 DEF KeepsTree
<1>2. NoticeIsGiven
  <2>1. \A c \in StubCommands : doing[c] \in Keeping => c \in InFlight
    BY DoesWhat DEF EnInv, EnTyped, InFlight, IsDoing
  <2>2. QED
    BY <2>1 DEF NoticeIsGiven, EnInv, OwedByOne
<1>3. EnTypeOK
  BY DoesWhat DEF EnInv, EnTyped, EnTypeOK
<1>4. QED
  BY <1>1, <1>2, <1>3

(* What a step may do to the setting and the tree.                         *)
LEMMA EnLeavesTheirs ==
    ASSUME EnInv, EnMayMeet = {}, [EnNext]_enVars
    PROVE  /\ stubPath = "theirs" => tree' = tree /\ stubPath' # "ours"
           /\ stubPath' # stubPath /\ stubPath' = "ours" => tree # {}
<1>1. CASE \E c \in StubCommands : DeletesTree(c) \/ WritesTree(c)
  BY <1>1 DEF DeletesTree, WritesTree, IsDoing, EnInv, StubFits, AtWork
<1>2. CASE \E c \in StubCommands : Sets(c)
  <2>1. PICK c \in StubCommands : Sets(c)
    BY <1>2
  <2>2. doing[c].at = "sets" /\ doing[c].at \in AtWork
    BY <2>1 DEF Sets, IsDoing, AtWork
  <2>3. doing[c] \in Keeping /\ stubPath # "theirs"
    BY <2>2, DoesWhat DEF EnInv, EnTyped, StubFits
  <2>4. KeepsTree(doing[c], tree)
    BY <2>2, <2>3 DEF EnInv, StubFits
  <2>6. doing[c].desired = tree
    BY <2>2, <2>4 DEF KeepsTree
  <2>5. QED
    BY <2>1, <2>3, <2>6 DEF Sets, WroteSome
<1>3. CASE EnvironmentChanges
  BY <1>3 DEF EnvironmentChanges
<1>4. CASE UNCHANGED <<tree, stubPath>>
  BY <1>4
<1>5. QED
  BY <1>1, <1>2, <1>3, <1>4 DEF EnNext, enVars, stubDisk, AsksEnvironment, ProbeFails, Probed,
     Decides, Plans, Ignores, SyncFails, StoresAnswer, informReloadAdvisable, Restarts

(* As a synchronisation ends, the tree holds a stub of each package it was *)
(* asked for and no other, whichever commands overlapped; and once no      *)
(* command is at work, the user was told of every change of what Pylance   *)
(* reads.  (Provided no operation on the tree fails, and the setting stays *)
(* while a synchronisation runs.)                                          *)
THEOREM StubsAreWhole ==
    ASSUME EnMayMeet = {}
    PROVE  WorkbenchSpec => [](SyncedIsWhole /\ NoticeIsGiven)
<1>1. WorkbenchInit => EnInv
  BY EnBegins DEF WorkbenchInit
<1>2. EnInv /\ [WorkbenchNext]_workbenchVars => EnInv'
  BY EnKept, PartsStep
<1>3. EnInv => SyncedIsWhole /\ NoticeIsGiven
  BY EnShows
<1>4. QED
  BY <1>1, <1>2, <1>3, PTL DEF WorkbenchSpec

(* While stubPath is the user's own nothing is written or deleted, and it  *)
(* is pointed only at a tree that is there.                                *)
THEOREM TheirStubsAreLeft ==
    ASSUME EnMayMeet = {}
    PROVE  WorkbenchSpec => TheirsIsLeft
<1>1. WorkbenchInit => EnInv
  BY EnBegins DEF WorkbenchInit
<1>2. EnInv /\ [WorkbenchNext]_workbenchVars => EnInv'
  BY EnKept, PartsStep
<1>3. EnInv /\ [WorkbenchNext]_workbenchVars
        => [/\ stubPath = "theirs" => tree' = tree /\ stubPath' # "ours"
            /\ stubPath' # stubPath /\ stubPath' = "ours" => tree # {}]_enVars
  BY EnLeavesTheirs, PartsStep
<1>4. QED
  BY <1>1, <1>2, <1>3, PTL DEF WorkbenchSpec, TheirsIsLeft

-----------------------------------------------------------------------------
(* The parts of the workbench, each proved about by itself, together.      *)

(* Every cell and every selection belongs to its own: the cells shown as   *)
(* executing are those a call is at, an interrupt reaches a cell that runs *)
(* and its own notebook only, a selection runs what was selected, in the   *)
(* one interactive window.                                                 *)
THEOREM CellsStayTheirOwn ==
    ASSUME MayMeet \cap {"switch", "drain"} = {}, "edits" \notin IwMayMeet
    PROVE  WorkbenchSpec => []CellsAreOwn
BY CellsStayOwn, SelectionsRunTheirOwn, PTL DEF CellsAreOwn

(* What is shown is of the run there is: the panel's document, the frame a *)
(* click opens, the stubs the editor reads and what is said of them.       *)
THEOREM ShownStaysOfTheRun ==
    ASSUME "overlap" \notin RpMayMeet, EnMayMeet = {}
    PROVE  WorkbenchSpec => []ShownIsOfTheRun
BY PanelShowsTheRun, ClicksGoHome, StubsAreWhole, PTL DEF ShownIsOfTheRun

(* No step of any part changes what belongs to another: see each part's    *)
(* theorem for the code it is about.                                       *)
THEOREM StepsStayTheirOwn ==
    ASSUME PsMayMeet = {}, EnMayMeet = {}, "other reader" \notin EfMayMeet
    PROVE  WorkbenchSpec => StepsKeepToTheirOwn
BY StartsOnlyOpen, OtherProfilesStay, RenamesAreFollowed, TheirStubsAreLeft, NothingIsLost,
   ServerCommandsKeep, PTL DEF StepsKeepToTheirOwn

(* No file of any kind is lost sight of: no file is stranded in no folder  *)
(* or copied twice, the tag kept for an editor is that of what it shows,   *)
(* and a download leaves nothing out in silence.                           *)
THEOREM FilesStayKept ==
    ASSUME "other reader" \notin EfMayMeet
    PROVE  WorkbenchSpec => []FilesAreKept
BY NothingIsStranded, TagStaysOfShown, DownloadsAreWhole, PTL DEF FilesAreKept

(* The inductive invariants the theorems above rest on, together: in every *)
(* part the variables have their types.                                    *)
LEMMA PartsBegin ==
    WorkbenchInit => /\ NbInv /\ IwInv /\ RpInv /\ EnInv /\ PsInv /\ CtInv /\ EfTypeOK
                     /\ SvInv /\ TrInv /\ part \in Parts
BY NbBegins, IwBegins, RpBegins, EnBegins, PsBegins, CtBegins, EfBegins, SvBegins, TrBegins, Zenon
   DEF WorkbenchInit

LEMMA PartsTyped ==
    /\ NbInv /\ IwInv /\ RpInv /\ EnInv /\ PsInv /\ CtInv /\ EfTypeOK /\ SvInv /\ TrInv
    /\ part \in Parts
    => WorkbenchTypeOK
<1> SUFFICES ASSUME NbInv, IwInv, RpInv, EnInv, PsInv, CtInv, EfTypeOK, SvInv, TrInv, part \in Parts
             PROVE  WorkbenchTypeOK
  OBVIOUS
<1>1. NbTypeOK /\ IwTypeOK /\ RpTypeOK
  BY Zenon DEF NbInv, IwInv, RpInv
<1>2. EnTypeOK /\ PsTypeOK /\ ContentTypeOK /\ SvTypeOK /\ TrTypeOK
  BY EnShows, PsShows, CtShows, SvIsTyped, TrShows, Zenon
<1>3. QED
  BY <1>1, <1>2 DEF WorkbenchTypeOK, Parts

(* Whichever part runs, its variables have their types, where the parts    *)
(* meet nothing their own theorems leave out.                              *)
THEOREM WorkbenchIsTyped ==
    ASSUME MayMeet \cap {"switch", "drain"} = {}, "edits" \notin IwMayMeet,
           EnMayMeet = {}, PsMayMeet = {}
    PROVE  WorkbenchSpec => []WorkbenchTypeOK
<1>1. /\ NbInv /\ IwInv /\ RpInv /\ EnInv /\ PsInv /\ CtInv /\ EfTypeOK /\ SvInv /\ TrInv
      /\ part \in Parts
      /\ [WorkbenchNext]_workbenchVars
      => (/\ NbInv /\ IwInv /\ RpInv /\ EnInv /\ PsInv /\ CtInv /\ EfTypeOK /\ SvInv /\ TrInv
          /\ part \in Parts)'
  <2> SUFFICES ASSUME NbInv, IwInv, RpInv, EnInv, PsInv, CtInv, EfTypeOK, SvInv, TrInv, part \in Parts,
                      [WorkbenchNext]_workbenchVars
               PROVE  (/\ NbInv /\ IwInv /\ RpInv /\ EnInv /\ PsInv /\ CtInv /\ EfTypeOK /\ SvInv
                       /\ TrInv /\ part \in Parts)'
    OBVIOUS
  <2>1. /\ [NbNext]_nbVars /\ [IwNext]_iwVars /\ [RpNext]_rpVars /\ [EnNext]_enVars
        /\ [PsNext]_psVars /\ [ContentNext]_contentVars /\ [EfNext]_efVars
        /\ [SvNext]_svVars /\ [TrNext]_trVars /\ UNCHANGED part
    BY PartsStep, Zenon
  <2>2. NbInv' /\ IwInv' /\ RpInv'
    BY <2>1, NbKept, IwKept, RpKept, Zenon
  <2>3. EnInv' /\ PsInv' /\ CtInv'
    BY <2>1, EnKept, PsKept, CtKept, Zenon
  <2>4. EfTypeOK' /\ SvInv' /\ TrInv'
    BY <2>1, EfTyped, SvTyped, TrKept, Zenon
  <2>5. (part \in Parts)'
    BY <2>1 DEF Parts
  <2>6. QED
    BY <2>2, <2>3, <2>4, <2>5
<1>2. QED
  BY <1>1, PartsBegin, PartsTyped, PTL DEF WorkbenchSpec
=============================================================================
