-------------------------- MODULE SessionDataProofs --------------------------
(* What the extension keeps in a SAS session and in CAS, for any number of *)
(* windows, names, views, deployments and requests.                        *)
EXTENDS MCSessionData, FiniteSetTheorems, SequenceTheorems, WellFoundedInduction, TLAPS

(* A step is of the part that runs; to the others it is none.              *)
LEMMA PartsStep ==
    ASSUME [SessionDataNext]_sessionDataVars
    PROVE  [FrNext]_frVars
BY DEF SessionDataNext, ViewerSteps, ExportSteps, CasSteps, FilerefSteps, RichSteps,
       sessionDataVars

-----------------------------------------------------------------------------
(* Numbers: a bounded set has a greatest.                                  *)
LEMMA Greatest ==
    ASSUME NEW m \in Nat, NEW S \in SUBSET (0..m), S # {}
    PROVE  Max(S) \in S /\ \A y \in S : y <= Max(S)
<1> DEFINE T == {m - x : x \in S}
<1>1. T \subseteq Nat /\ T # {}
  <2>1. \A x \in S : x \in 0..m /\ m - x \in Nat
    OBVIOUS
  <2>2. PICK x \in S : TRUE
    OBVIOUS
  <2>3. QED
    BY <2>1, <2>2
<1>2. PICK t \in T : \A u \in T : ~(<<u, t>> \in OpToRel(<, Nat))
  <2> HIDE DEF T
  <2> QED
    BY <1>1, NatLessThanWellFounded, WFMin
<1>3. \A u \in T : t <= u
  <2> HIDE DEF T
  <2> TAKE u \in T
  <2>1. u \in Nat /\ t \in Nat /\ ~(u < t)
    BY <1>1, <1>2 DEF OpToRel
  <2>2. QED
    BY <2>1
<1>4. PICK x \in S : t = m - x
  BY <1>2
<1>5. \A y \in S : y <= x
  BY <1>3, <1>4
<1>6. QED
  BY <1>5 DEF Max

-----------------------------------------------------------------------------
(* Filerefs.  A name that a run has found free is its own until it lets go *)
(* of it: whoever else wants one finds it taken.                           *)
Contents == {<<"empty">>, <<"theirs">>, <<"snippet">>}
              \cup {<<"token", h, n>> : h \in Hosts, n \in Nat}
              \cup {<<"program", h, n>> : h \in Hosts, n \in Nat}
Fileref == [owner : {"none", "ext", "user"}, content : Contents, etag : Nat]
Places == {"idle", "assigning", "finding", "listing", "claiming", "tagging", "putting",
           "submitting"}
Writing == {"tagging", "putting", "submitting"}

FrTypes ==
    /\ filerefs \in [FilerefNames -> Fileref]
    /\ filerefCounter \in [Hosts -> 0..MaxNumber] /\ listed \in [Hosts -> 0..MaxNumber]
    /\ filerefCounterSeeded \in [Hosts -> BOOLEAN] /\ startupUploaded \in [Hosts -> BOOLEAN]
    /\ seeding \in [Hosts -> BOOLEAN]
    /\ at \in [Writers -> Places] /\ target \in [Writers -> FilerefNames]
    /\ tag \in [Writers -> Nat]
    /\ programs \in [Hosts -> Nat] /\ tokens \in [Hosts -> Nat]

FilesFit ==
    /\ \A n \in FilerefNames : filerefs[n].owner = "none" => filerefs[n] = Nothing
    /\ filerefs[Startup].owner # "user"
    /\ \A h \in Hosts : startupUploaded[h] => filerefs[Startup].content = <<"snippet">>

(* A run at its next request, with what it has by then.                    *)
RunStands(h) ==
    /\ at[Run(h)] \in {"assigning", "finding"} => target[Run(h)] = Startup
    /\ at[Run(h)] = "finding" => ~IsFree(Startup)
    /\ at[Run(h)] \in Writing =>
          target[Run(h)] # Token /\ filerefs[target[Run(h)]].owner = "ext"
    /\ at[Run(h)] = "submitting" =>
          /\ target[Run(h)] # Startup
          /\ filerefs[target[Run(h)]].content = <<"program", h, programs[h]>>
    /\ seeding[h] /\ at[Run(h)] \in {"listing", "claiming"} => startupUploaded[h]
    /\ seeding[h] /\ at[Run(h)] \in Writing /\ target[Run(h)] # Startup => startupUploaded[h]
DeliverStands(h) ==
    /\ target[Deliver(h)] = Token
    /\ at[Deliver(h)] \in {"idle", "assigning", "finding", "tagging", "putting"}
    /\ at[Deliver(h)] \in Writing => filerefs[Token].owner = "ext"
Apart ==
    \A g, h \in Hosts :
        at[Run(g)] \in Writing /\ at[Run(h)] \in Writing /\ g # h
            => target[Run(g)] # target[Run(h)] \/ target[Run(g)] = Startup

FrInv ==
    /\ FrTypes /\ FilesFit /\ Apart
    /\ \A h \in Hosts : RunStands(h) /\ DeliverStands(h)
    /\ RunsItsOwnProgram /\ TokenStaysHome /\ SeededIsPast

LEMMA Names ==
    /\ \A h \in Hosts : Run(h) \in Writers /\ Deliver(h) \in Writers
    /\ \A a \in Writers : \E h \in Hosts : a[1] = h /\ (a = Run(h) \/ a = Deliver(h))
    /\ \A g, h \in Hosts : Run(g) # Deliver(h) /\ (Run(g) = Run(h) <=> g = h)
                           /\ (Deliver(g) = Deliver(h) <=> g = h) /\ Run(h)[1] = h /\ Deliver(h)[1] = h
    /\ Startup # Token /\ Startup \in FilerefNames /\ Token \in FilerefNames
    /\ \A n \in 1..MaxNumber : PY(n) \in FilerefNames
    /\ \A n : PY(n) # Startup /\ PY(n) # Token
BY DEF Writers, Run, Deliver, Startup, Token, PY, FilerefNames

LEMMA BoundFits == MaxNumber \in Nat /\ MaxNumber >= Earlier + 1 /\ Earlier \in Nat
<1>1. Cardinality(Hosts) \in Nat
  BY FrAssumption, FS_CardinalityType
<1>2. Earlier \in Nat /\ MaxPrograms \in Nat /\ Attempts \in Nat /\ Attempts >= 1
  <2>1. Earlier \in Nat /\ MaxPrograms \in Nat
    BY FrAssumption
  <2>2. Attempts \in Nat \ {0}
    BY FrAssumption
  <2>3. QED
    BY <2>1, <2>2
<1>3. (MaxPrograms + 1) * Cardinality(Hosts) \in Nat
  BY <1>1, <1>2
<1>4. QED
  BY <1>2, <1>3 DEF MaxNumber

LEMMA FrInitFits == FrInit => FrInv
<1> SUFFICES ASSUME FrInit PROVE FrInv
  OBVIOUS
<1>1. Nothing \in Fileref /\ Assigned \in Fileref
  BY DEF Nothing, Assigned, Fileref, Contents
<1>2. FrTypes
  BY <1>1, Names, BoundFits DEF FrInit, FrTypes, Places
<1>3. filerefs[Startup] = Nothing /\ filerefs[Token] = Nothing
  BY Names DEF FrInit
<1>4. \A n \in FilerefNames : filerefs[n] \in {Assigned, Nothing}
  BY DEF FrInit
<1>5. FilesFit
  BY <1>3, <1>4 DEF FrInit, FilesFit, Nothing, Assigned
<1>6. \A a \in Writers : at[a] = "idle" /\ target[a] = Token
  BY DEF FrInit
<1>7. Apart /\ \A h \in Hosts : RunStands(h) /\ DeliverStands(h)
  BY <1>6, Names DEF Apart, RunStands, DeliverStands, Writing
<1>8. RunsItsOwnProgram /\ SeededIsPast
  BY DEF FrInit, RunsItsOwnProgram, SeededIsPast
<1>9. TokenStaysHome
  BY <1>4 DEF TokenStaysHome, Nothing, Assigned
<1>10. QED
  BY <1>2, <1>5, <1>7, <1>8, <1>9 DEF FrInv

(* Who has nothing to do with the step stands where it stood, if its own   *)
(* file does: files are written by the one whose they are, or free.        *)
StaysPut(a) == at'[a] = at[a] /\ target'[a] = target[a]
FilesStay ==
    /\ filerefs' \in [FilerefNames -> Fileref]
    /\ \A n \in FilerefNames : filerefs[n].owner # "none" => filerefs'[n].owner = filerefs[n].owner
    /\ \A n \in FilerefNames : filerefs'[n].owner = "none" => filerefs'[n] = filerefs[n]
    /\ \A n \in FilerefNames : filerefs'[n].owner = "user" =>
          filerefs'[n] = filerefs[n] \/ filerefs'[n] = Users
    /\ filerefs'[Startup].owner # "user"
    /\ filerefs[Startup].content = <<"snippet">> => filerefs'[Startup].content = <<"snippet">>

LEMMA FilesOn ==
    ASSUME FrInv, FilesStay,
           \A h \in Hosts : startupUploaded'[h] =>
              startupUploaded[h] \/ filerefs'[Startup].content = <<"snippet">>
    PROVE  FilesFit' /\ TokenStaysHome'
<1>1. FilesFit /\ TokenStaysHome /\ filerefs \in [FilerefNames -> Fileref]
  BY DEF FrInv, FrTypes
<1>2. \A n \in FilerefNames : filerefs'[n].owner = "none" => filerefs'[n] = Nothing
  BY <1>1 DEF FilesStay, FilesFit
<1>3. filerefs'[Startup].owner # "user"
  BY DEF FilesStay
<1>4. \A h \in Hosts : startupUploaded'[h] => filerefs'[Startup].content = <<"snippet">>
  BY <1>1 DEF FilesStay, FilesFit
<1>5. TokenStaysHome'
  BY <1>1 DEF FilesStay, TokenStaysHome, Users
<1>6. QED
  BY <1>2, <1>3, <1>4, <1>5 DEF FilesFit

LEMMA RunOn ==
    ASSUME FrInv, FilesStay, NEW h \in Hosts, StaysPut(Run(h)),
           programs'[h] = programs[h], seeding'[h] => seeding[h],
           startupUploaded[h] => startupUploaded'[h],
           at[Run(h)] = "submitting" =>
              filerefs'[target[Run(h)]].content = filerefs[target[Run(h)]].content
    PROVE  RunStands(h)'
<1>1. RunStands(h) /\ Run(h) \in Writers /\ target[Run(h)] \in FilerefNames
  BY Names DEF FrInv, FrTypes
<1>2. at[Run(h)] = "finding" => filerefs'[Startup].owner # "none"
  BY <1>1, Names DEF RunStands, FilesStay, IsFree
<1>3. at[Run(h)] \in Writing => filerefs'[target[Run(h)]].owner = "ext"
  BY <1>1 DEF RunStands, FilesStay
<1>4. QED
  BY <1>1, <1>2, <1>3 DEF RunStands, StaysPut, IsFree

LEMMA DeliverOn ==
    ASSUME FrInv, FilesStay, NEW h \in Hosts, StaysPut(Deliver(h))
    PROVE  DeliverStands(h)'
<1>1. DeliverStands(h)
  BY DEF FrInv
<1>2. at[Deliver(h)] \in Writing => filerefs'[Token].owner = "ext"
  BY <1>1, Names DEF DeliverStands, FilesStay
<1>3. QED
  BY <1>1, <1>2 DEF DeliverStands, StaysPut

(* Steps that let go of names, or take none.                               *)
LEMMA ApartOn ==
    ASSUME FrInv,
           \A h \in Hosts : at'[Run(h)] \in Writing =>
              \/ at[Run(h)] \in Writing /\ target'[Run(h)] = target[Run(h)]
              \/ target'[Run(h)] = Startup
    PROVE  Apart'
BY DEF FrInv, Apart

(* What a writer writes is one of the contents, and the snippet alone in   *)
(* its fileref.                                                            *)
LEMMA BytesFit ==
    ASSUME FrInv, NEW a \in Writers
    PROVE  /\ Bytes(a) \in Contents
           /\ target[a] = Startup => Bytes(a) = <<"snippet">>
           /\ target[a] # Startup /\ target[a] # Token => Bytes(a) = <<"program", a[1], programs[a[1]]>>
<1>1. a[1] \in Hosts
  BY Names
<1>2. tokens[a[1]] \in Nat /\ programs[a[1]] \in Nat
  BY <1>1 DEF FrInv, FrTypes
<1>3. QED
  BY <1>1, <1>2 DEF Bytes, Contents

(* The content PUT.                                                        *)
LEMMA WriteStays ==
    ASSUME FrInv, NEW a \in Writers, at[a] = "putting",
           filerefs' = [filerefs EXCEPT ![target[a]].content = Bytes(a), ![target[a]].etag = @ + 1]
    PROVE  /\ FilesStay /\ filerefs'[target[a]].content = Bytes(a)
           /\ \A n \in FilerefNames : n # target[a] => filerefs'[n] = filerefs[n]
<1>1. target[a] \in FilerefNames /\ filerefs \in [FilerefNames -> Fileref]
  BY DEF FrInv, FrTypes
<1>2. filerefs[target[a]].owner = "ext"
  <2>1. PICK h \in Hosts : a = Run(h) \/ a = Deliver(h)
    BY Names
  <2>2. RunStands(h) /\ DeliverStands(h)
    BY DEF FrInv
  <2>3. QED
    BY <2>1, <2>2 DEF RunStands, DeliverStands, Writing
<1> DEFINE t == target[a]
           new == [owner |-> "ext", content |-> Bytes(a), etag |-> filerefs[t].etag + 1]
<1>3. filerefs[t] \in Fileref /\ filerefs[t].etag \in Nat /\ filerefs[t].owner = "ext"
  BY <1>1, <1>2 DEF Fileref
<1>4. filerefs' = [filerefs EXCEPT ![t] = new]
  BY <1>1, <1>3 DEF Fileref
<1>5. new \in Fileref
  BY <1>3, BytesFit DEF Fileref
<1>6. /\ filerefs' \in [FilerefNames -> Fileref] /\ filerefs'[t] = new
      /\ \A n \in FilerefNames : n # t => filerefs'[n] = filerefs[n]
  BY <1>1, <1>4, <1>5
<1>7. t = Startup => Bytes(a) = <<"snippet">>
  BY BytesFit
<1>8. filerefs[Startup].owner # "user"
  BY DEF FrInv, FilesFit
<1>9. FilesStay
  BY <1>3, <1>6, <1>7, <1>8, Names DEF FilesStay
<1>10. QED
  BY <1>6, <1>9

(* A file that was free is assigned.                                       *)
LEMMA AssignStays ==
    ASSUME FrInv, NEW n \in FilerefNames, IsFree(n), filerefs' = [filerefs EXCEPT ![n] = Assigned]
    PROVE  /\ FilesStay /\ filerefs'[n].owner = "ext"
           /\ \A m \in FilerefNames : m # n => filerefs'[m] = filerefs[m]
<1>1. filerefs \in [FilerefNames -> Fileref] /\ FilesFit
  BY DEF FrInv, FrTypes
<1>2. Assigned \in Fileref /\ Assigned.owner = "ext"
  BY DEF Assigned, Fileref, Contents
<1>3. /\ filerefs' \in [FilerefNames -> Fileref] /\ filerefs'[n] = Assigned
      /\ \A m \in FilerefNames : m # n => filerefs'[m] = filerefs[m]
  BY <1>1, <1>2
<1>4. filerefs[n].owner = "none" /\ filerefs[n].content = <<"empty">>
  BY <1>1 DEF IsFree, FilesFit, Nothing
<1>5. n = Startup => filerefs[Startup].content # <<"snippet">>
  BY <1>4
<1>6. FilesStay
  BY <1>1, <1>2, <1>3, <1>4, <1>5, Names DEF FilesStay, FilesFit
<1>7. QED
  BY <1>2, <1>3, <1>6

LEMMA UnchangedStays ==
    ASSUME FrInv, UNCHANGED filerefs
    PROVE  FilesStay
BY DEF FrInv, FrTypes, FilesFit, FilesStay

(* A file somebody holds is not written by others.                         *)
LEMMA ContentsStay ==
    ASSUME FrInv, NEW h \in Hosts, at[Run(h)] = "submitting",
           \/ UNCHANGED filerefs
           \/ \E n \in FilerefNames : IsFree(n) /\ filerefs' = [filerefs EXCEPT ![n] = Assigned]
           \/ \E a \in Writers : a # Run(h) /\ at[a] = "putting"
                /\ filerefs' = [filerefs EXCEPT ![target[a]].content = Bytes(a),
                                                ![target[a]].etag = @ + 1]
    PROVE  filerefs'[target[Run(h)]].content = filerefs[target[Run(h)]].content
<1> DEFINE t == target[Run(h)]
<1>1. t \in FilerefNames /\ filerefs[t].owner = "ext" /\ t # Startup /\ t # Token
  BY Names DEF FrInv, FrTypes, RunStands, Writing
<1>2. CASE \E n \in FilerefNames : IsFree(n) /\ filerefs' = [filerefs EXCEPT ![n] = Assigned]
  <2>1. PICK n \in FilerefNames : IsFree(n) /\ filerefs' = [filerefs EXCEPT ![n] = Assigned]
    BY <1>2
  <2>2. n # t
    BY <1>1, <2>1 DEF IsFree
  <2>3. QED
    BY <1>1, <2>1, <2>2, AssignStays
<1>3. ASSUME NEW a \in Writers, a # Run(h), at[a] = "putting",
             filerefs' = [filerefs EXCEPT ![target[a]].content = Bytes(a),
                                          ![target[a]].etag = @ + 1]
      PROVE  filerefs'[t].content = filerefs[t].content
  <2>1. target[a] # t
    <3>1. PICK g \in Hosts : a = Run(g) \/ a = Deliver(g)
      BY Names
    <3>2. CASE a = Run(g)
      <4>1. g # h
        BY <1>3, <3>2
      <4>2. QED
        BY <1>1, <1>3, <3>2, <4>1 DEF FrInv, Apart, Writing
    <3>3. CASE a = Deliver(g)
      BY <1>1, <3>3 DEF FrInv, DeliverStands
    <3>4. QED
      BY <3>1, <3>2, <3>3
  <2>2. QED
    BY <1>1, <1>3, <2>1, WriteStays
<1>4. QED
  BY <1>2, <1>3

FilesBy(a) ==
    \/ UNCHANGED filerefs
    \/ \E n \in FilerefNames : IsFree(n) /\ filerefs' = [filerefs EXCEPT ![n] = Assigned]
    \/ at[a] = "putting"
       /\ filerefs' = [filerefs EXCEPT ![target[a]].content = Bytes(a), ![target[a]].etag = @ + 1]

LEMMA FilesByStays ==
    ASSUME FrInv, NEW a \in Writers, FilesBy(a)
    PROVE  FilesStay
BY UnchangedStays, AssignStays, WriteStays DEF FilesBy

(* A step of one writer keeps the invariant if that writer has what its    *)
(* next place asks for.                                                    *)
LEMMA OneMoves ==
    ASSUME FrInv, FrTypes', NEW a \in Writers, FilesBy(a),
           \A b \in Writers : b # a => StaysPut(b),
           \A h \in Hosts : Run(h) # a => programs'[h] = programs[h] /\ (seeding'[h] => seeding[h]),
           \A h \in Hosts : startupUploaded[h] => startupUploaded'[h],
           \A h \in Hosts : startupUploaded'[h] =>
              startupUploaded[h] \/ filerefs'[Startup].content = <<"snippet">>,
           \A h \in Hosts : (a = Run(h) => RunStands(h)') /\ (a = Deliver(h) => DeliverStands(h)'),
           \A h \in Hosts : a = Run(h) /\ at'[a] \in Writing =>
              \/ at[a] \in Writing /\ target'[a] = target[a]
              \/ target'[a] = Startup \/ IsFree(target'[a]),
           RunsItsOwnProgram', SeededIsPast'
    PROVE  FrInv'
<1>1. FilesStay
  BY FilesByStays
<1>2. FilesFit' /\ TokenStaysHome'
  BY <1>1, FilesOn
<1>3. ASSUME NEW h \in Hosts PROVE RunStands(h)' /\ DeliverStands(h)'
  <2>1. RunStands(h)'
    <3>1. CASE a # Run(h)
      <4>1. at[Run(h)] = "submitting" =>
              filerefs'[target[Run(h)]].content = filerefs[target[Run(h)]].content
        BY <3>1, ContentsStay DEF FilesBy
      <4>2. StaysPut(Run(h))
        BY <3>1, Names
      <4>3. QED
        BY <1>1, <3>1, <4>1, <4>2, RunOn
    <3>2. QED
      BY <3>1
  <2>2. DeliverStands(h)'
    BY <1>1, Names, DeliverOn
  <2>3. QED
    BY <2>1, <2>2
<1>4. Apart'
  <2> SUFFICES ASSUME NEW g \in Hosts, NEW h \in Hosts, g # h,
                      at'[Run(g)] \in Writing, at'[Run(h)] \in Writing
               PROVE  target'[Run(g)] # target'[Run(h)] \/ target'[Run(g)] = Startup
    BY DEF Apart
  <2>1. Apart /\ RunStands(g) /\ RunStands(h) /\ Run(g) # Run(h)
        /\ Run(g) \in Writers /\ Run(h) \in Writers
    BY Names DEF FrInv
  <2>2. CASE IsFree(target'[a])
    <3>1. a # Run(h) => target'[Run(h)] = target[Run(h)] /\ at[Run(h)] \in Writing
      BY <2>1 DEF StaysPut
    <3>2. a # Run(g) => target'[Run(g)] = target[Run(g)] /\ at[Run(g)] \in Writing
      BY <2>1 DEF StaysPut
    <3>3. QED
      BY <2>1, <2>2, <3>1, <3>2 DEF RunStands, IsFree, Apart
  <2>3. CASE ~IsFree(target'[a])
    BY <2>1, <2>3 DEF StaysPut, Apart
  <2>4. QED
    BY <2>2, <2>3
<1>5. QED
  BY <1>2, <1>3, <1>4 DEF FrInv

(* The types, once the files have theirs.                                  *)
LEMMA TypesOn ==
    ASSUME FrInv, FilesStay,
           at' \in [Writers -> Places], target' \in [Writers -> FilerefNames], tag' \in [Writers -> Nat],
           \/ UNCHANGED <<filerefCounter, filerefCounterSeeded, listed>>
           \/ /\ filerefCounter' \in [Hosts -> 0..MaxNumber] /\ listed' \in [Hosts -> 0..MaxNumber]
              /\ filerefCounterSeeded' \in [Hosts -> BOOLEAN],
           UNCHANGED startupUploaded \/ startupUploaded' \in [Hosts -> BOOLEAN],
           UNCHANGED seeding \/ seeding' \in [Hosts -> BOOLEAN],
           UNCHANGED programs \/ programs' \in [Hosts -> Nat],
           UNCHANGED tokens \/ tokens' \in [Hosts -> Nat]
    PROVE  FrTypes'
BY DEF FrInv, FrTypes, FilesStay

CountKeeps == UNCHANGED <<filerefCounter, filerefCounterSeeded, listed>>

LEMMA HistoryOn ==
    ASSUME FrInv
    PROVE  /\ UNCHANGED ran => RunsItsOwnProgram'
           /\ CountKeeps => SeededIsPast'
BY DEF FrInv, RunsItsOwnProgram, SeededIsPast, CountKeeps

LEMMA BeginsRunOn ==
    ASSUME FrInv, NEW h \in Hosts, BeginsRun(h)
    PROVE  FrInv'
<1> DEFINE a == Run(h)
<1>1. a \in Writers /\ at[a] = "idle" /\ FrTypes
  BY Names DEF BeginsRun, FrInv
<1>2. PICK s \in BOOLEAN :
        /\ seeding' = [seeding EXCEPT ![h] = s]
        /\ at' = [at EXCEPT ![a] = IF s /\ ~startupUploaded[h] THEN "assigning" ELSE Counts(h)]
  BY DEF BeginsRun, Goto
<1>3. /\ UNCHANGED <<filerefs, frBackend, tag, tokens, ran>>
      /\ programs' = [programs EXCEPT ![h] = @ + 1]
      /\ target' = [target EXCEPT ![a] = Startup]
  BY DEF BeginsRun
<1>4. at'[a] \in {"assigning", "listing", "claiming"} /\ target'[a] = Startup
      /\ at'[a] = (IF s /\ ~startupUploaded[h] THEN "assigning" ELSE Counts(h))
  BY <1>1, <1>2, <1>3 DEF FrTypes, Counts
<1>5. \A b \in Writers : b # a => StaysPut(b)
  BY <1>1, <1>2, <1>3 DEF FrTypes, StaysPut
<1>6. FilesBy(a) /\ FilesStay
  BY <1>3, UnchangedStays DEF FilesBy
<1>7. FrTypes'
  <2>1. at' \in [Writers -> Places] /\ target' \in [Writers -> FilerefNames]
    BY <1>1, <1>2, <1>3, Names DEF FrTypes, Places, Counts
  <2>2. seeding' \in [Hosts -> BOOLEAN] /\ programs' \in [Hosts -> Nat]
    BY <1>1, <1>2, <1>3 DEF FrTypes
  <2>3. QED
    BY <1>1, <1>3, <1>6, <2>1, <2>2, TypesOn DEF FrTypes, frBackend
<1>8. \A g \in Hosts : Run(g) # a =>
         programs'[g] = programs[g] /\ (seeding'[g] => seeding[g])
  BY <1>1, <1>2, <1>3, Names DEF FrTypes
<1>9. UNCHANGED startupUploaded /\ CountKeeps
  BY <1>3 DEF frBackend, CountKeeps
<1>10. RunStands(h)'
  <2>1. seeding'[h] = s
    BY <1>1, <1>2 DEF FrTypes
  <2>2. at'[a] \in {"listing", "claiming"} => ~s \/ startupUploaded[h]
    BY <1>4
  <2>3. QED
    BY <1>4, <1>9, <2>1, <2>2 DEF RunStands, Writing
<1>11. \A g \in Hosts : (a = Run(g) => RunStands(g)') /\ (a = Deliver(g) => DeliverStands(g)')
  BY <1>10, Names
<1>12. RunsItsOwnProgram' /\ SeededIsPast'
  BY <1>3, <1>9, HistoryOn
<1>13. at'[a] \notin Writing
  BY <1>4 DEF Writing
<1>14. QED
  BY <1>1, <1>5, <1>6, <1>7, <1>8, <1>9, <1>11, <1>12, <1>13, OneMoves

LEMMA BeginsTokenOn ==
    ASSUME FrInv, NEW h \in Hosts, BeginsToken(h)
    PROVE  FrInv'
<1> DEFINE a == Deliver(h)
<1>1. a \in Writers /\ FrTypes /\ DeliverStands(h)
  BY Names DEF FrInv
<1>2. /\ at' = [at EXCEPT ![a] = "assigning"] /\ tokens' = [tokens EXCEPT ![h] = @ + 1]
      /\ UNCHANGED <<filerefs, frBackend, target, tag, seeding, programs, ran>>
  BY DEF BeginsToken, Goto, claim
<1>3. FilesBy(a) /\ FilesStay
  BY <1>2, UnchangedStays DEF FilesBy
<1>4. at' \in [Writers -> Places] /\ tokens' \in [Hosts -> Nat]
  BY <1>1, <1>2 DEF FrTypes, Places
<1>5. UNCHANGED startupUploaded /\ CountKeeps
  BY <1>2 DEF frBackend, CountKeeps
<1>6. FrTypes'
  BY <1>1, <1>2, <1>3, <1>4, <1>5, TypesOn DEF FrTypes, CountKeeps
<1>7. \A b \in Writers : b # a => StaysPut(b)
  BY <1>1, <1>2 DEF FrTypes, StaysPut
<1>8. DeliverStands(h)' /\ at'[a] \notin Writing
  BY <1>1, <1>2 DEF FrTypes, DeliverStands, Writing
<1>9. \A g \in Hosts : (a = Run(g) => RunStands(g)') /\ (a = Deliver(g) => DeliverStands(g)')
  BY <1>8, Names
<1>10. RunsItsOwnProgram' /\ SeededIsPast'
  BY <1>2, <1>5, HistoryOn
<1>11. QED
  BY <1>1, <1>2, <1>3, <1>5, <1>6, <1>7, <1>8, <1>9, <1>10, OneMoves

LEMMA GivesUpOn ==
    ASSUME FrInv, NEW a \in Writers, GivesUp(a)
    PROVE  FrInv'
<1>1. FrTypes /\ target[a] \in FilerefNames
  BY DEF FrInv, FrTypes
<1>2. /\ at' = [at EXCEPT ![a] = "idle"] /\ target' = [target EXCEPT ![a] = Token]
      /\ tag' = [tag EXCEPT ![a] = 0]
      /\ UNCHANGED <<frBackend, seeding, programs, tokens, ran>>
  BY DEF GivesUp, Goto, LetsGo, claim, frCounts
<1>3. FilesBy(a) /\ FilesStay
  <2>1. FilesBy(a)
    BY <1>1 DEF GivesUp, FilesBy
  <2>2. QED
    BY <2>1, FilesByStays
<1>4. /\ at' \in [Writers -> Places] /\ target' \in [Writers -> FilerefNames]
      /\ tag' \in [Writers -> Nat]
  BY <1>1, <1>2, Names DEF FrTypes, Places
<1>5. UNCHANGED startupUploaded /\ CountKeeps
  BY <1>2 DEF frBackend, CountKeeps
<1>6. FrTypes'
  BY <1>2, <1>3, <1>4, <1>5, TypesOn DEF CountKeeps
<1>7. \A b \in Writers : b # a => StaysPut(b)
  BY <1>1, <1>2 DEF FrTypes, StaysPut
<1>8. at'[a] = "idle" /\ target'[a] = Token
  BY <1>1, <1>2 DEF FrTypes
<1>9. \A g \in Hosts : (a = Run(g) => RunStands(g)') /\ (a = Deliver(g) => DeliverStands(g)')
  BY <1>8 DEF RunStands, DeliverStands, Writing
<1>10. RunsItsOwnProgram' /\ SeededIsPast'
  BY <1>2, <1>5, HistoryOn
<1>11. at'[a] \notin Writing
  BY <1>8 DEF Writing
<1>12. QED
  BY <1>2, <1>3, <1>5, <1>6, <1>7, <1>9, <1>10, <1>11, OneMoves

(* Steps that change only where one writer is and what it last read.       *)
LEMMA RequestOn ==
    ASSUME FrInv, NEW a \in Writers, NEW p \in Places, NEW t \in Nat,
           at' = [at EXCEPT ![a] = p], tag' = [tag EXCEPT ![a] = t] \/ UNCHANGED tag,
           UNCHANGED <<frBackend, target, claim, frCounts, ran>>, FilesBy(a),
           \A h \in Hosts : a = Run(h) /\ p \in Writing => at[a] \in Writing \/ target[a] = Startup,
           \A h \in Hosts : (a = Run(h) => RunStands(h)') /\ (a = Deliver(h) => DeliverStands(h)')
    PROVE  FrInv'
<1>1. FrTypes
  BY DEF FrInv
<1>2. FilesStay
  BY FilesByStays
<1>3. UNCHANGED <<startupUploaded, seeding, programs, tokens>> /\ CountKeeps
  BY DEF frBackend, claim, frCounts, CountKeeps
<1>4. at' \in [Writers -> Places] /\ tag' \in [Writers -> Nat] /\ target' \in [Writers -> FilerefNames]
  BY <1>1 DEF FrTypes
<1>5. FrTypes'
  BY <1>2, <1>3, <1>4, TypesOn DEF CountKeeps
<1>6. \A b \in Writers : b # a => StaysPut(b)
  BY <1>1 DEF FrTypes, StaysPut
<1>7. RunsItsOwnProgram' /\ SeededIsPast'
  BY <1>3, HistoryOn
<1>8. at'[a] = p /\ target'[a] = target[a]
  BY <1>1 DEF FrTypes
<1>9. QED
  BY <1>3, <1>5, <1>6, <1>7, <1>8, OneMoves

LEMMA AssignsFixedOn ==
    ASSUME FrInv, NEW a \in Writers, AssignsFixed(a)
    PROVE  FrInv'
<1>1. /\ at[a] = "assigning" /\ UNCHANGED <<frBackend, target, tag, claim, frCounts, ran>>
      /\ \/ /\ IsFree(target[a]) /\ filerefs' = [filerefs EXCEPT ![target[a]] = Assigned]
            /\ at' = [at EXCEPT ![a] = "tagging"]
         \/ /\ ~IsFree(target[a]) /\ UNCHANGED filerefs /\ at' = [at EXCEPT ![a] = "finding"]
  BY DEF AssignsFixed, Goto
<1>2. FrTypes /\ target[a] \in FilerefNames /\ UNCHANGED <<target, tag, seeding>>
  BY <1>1 DEF FrInv, FrTypes, claim
<1>3. \A h \in Hosts : a = Run(h) => target[a] = Startup
  BY <1>1 DEF FrInv, RunStands
<1>4. \A h \in Hosts : a = Deliver(h) => target[a] = Token
  BY DEF FrInv, DeliverStands
<1>5. FilesBy(a)
  BY <1>1, <1>2 DEF FilesBy
<1>6. CASE /\ IsFree(target[a]) /\ filerefs' = [filerefs EXCEPT ![target[a]] = Assigned]
           /\ at' = [at EXCEPT ![a] = "tagging"]
  <2>1. filerefs'[target[a]].owner = "ext" /\ at'[a] = "tagging"
    BY <1>2, <1>6, AssignStays DEF FrTypes
  <2>2. \A h \in Hosts : (a = Run(h) => RunStands(h)') /\ (a = Deliver(h) => DeliverStands(h)')
    BY <1>2, <1>3, <1>4, <2>1, Names DEF RunStands, DeliverStands
  <2>3. QED
    BY <1>1, <1>3, <1>5, <1>6, <2>2, RequestOn DEF Places
<1>7. CASE ~IsFree(target[a]) /\ UNCHANGED filerefs /\ at' = [at EXCEPT ![a] = "finding"]
  <2>1. at'[a] = "finding" /\ ~IsFree(target[a])'
    BY <1>2, <1>7 DEF FrTypes, IsFree
  <2>2. \A h \in Hosts : (a = Run(h) => RunStands(h)') /\ (a = Deliver(h) => DeliverStands(h)')
    BY <1>2, <1>3, <1>4, <2>1, Names DEF RunStands, DeliverStands, Writing
  <2>3. QED
    BY <1>1, <1>5, <1>7, <2>2, RequestOn DEF Places, Writing
<1>8. QED
  BY <1>1, <1>6, <1>7

LEMMA FindsOn ==
    ASSUME FrInv, NEW a \in Writers, Finds(a)
    PROVE  FrInv'
<1> DEFINE p == IF target[a] = Token /\ ~OwnTokenFileref(Token) THEN "idle" ELSE "tagging"
<1>1. /\ at[a] = "finding" /\ at' = [at EXCEPT ![a] = p]
      /\ UNCHANGED <<filerefs, frBackend, target, tag, claim, frCounts, ran>>
  BY DEF Finds, Goto
<1>2. FrTypes /\ FilesFit /\ UNCHANGED <<filerefs, target, tag, seeding>>
  BY <1>1 DEF FrInv, claim
<1>3. at'[a] = p /\ p \in {"idle", "tagging"}
  BY <1>1, <1>2 DEF FrTypes
<1>4. ASSUME NEW h \in Hosts, a = Run(h)
      PROVE  target[a] = Startup /\ filerefs[Startup].owner = "ext"
  <2>1. target[a] = Startup /\ ~IsFree(Startup)
    BY <1>1, <1>4 DEF FrInv, RunStands
  <2>2. filerefs[Startup] \in Fileref
    BY <1>2, Names DEF FrTypes
  <2>3. QED
    BY <1>2, <2>1, <2>2 DEF FilesFit, Fileref, IsFree
<1>5. ASSUME NEW h \in Hosts, a = Deliver(h)
      PROVE  target[a] = Token /\ (p = "tagging" => filerefs[Token].owner = "ext")
  BY <1>5 DEF FrInv, DeliverStands, OwnTokenFileref
<1>6. \A h \in Hosts : (a = Run(h) => RunStands(h)') /\ (a = Deliver(h) => DeliverStands(h)')
  <2>1. TAKE h \in Hosts
  <2>2. CASE a = Run(h)
    <3>1. target'[a] = Startup /\ filerefs'[Startup].owner = "ext"
      BY <1>2, <1>4, <2>2
    <3>2. RunStands(h)'
      BY <1>3, <2>2, <3>1, Names DEF RunStands, Writing
    <3>3. QED
      BY <2>2, <3>2, Names
  <2>3. CASE a = Deliver(h)
    <3>1. DeliverStands(h)'
      BY <1>2, <1>3, <1>5, <2>3 DEF DeliverStands, Writing
    <3>2. QED
      BY <2>3, <3>1, Names
  <2>4. QED
    BY <2>2, <2>3
<1>7. FilesBy(a) /\ p \in Places
  BY <1>2 DEF FilesBy, Places
<1>8. QED
  <2> HIDE DEF p
  <2> QED
    BY <1>1, <1>4, <1>6, <1>7, RequestOn

LEMMA TagsOn ==
    ASSUME FrInv, NEW a \in Writers, Tags(a)
    PROVE  FrInv'
<1>1. /\ at[a] = "tagging" /\ at' = [at EXCEPT ![a] = "putting"]
      /\ tag' = [tag EXCEPT ![a] = filerefs[target[a]].etag]
      /\ UNCHANGED <<filerefs, frBackend, target, claim, frCounts, ran>>
  BY DEF Tags, Goto
<1>2. FrTypes /\ UNCHANGED <<filerefs, target, seeding, startupUploaded>>
  BY <1>1 DEF FrInv, claim, frBackend
<1>3. at'[a] = "putting" /\ filerefs[target[a]].etag \in Nat
  BY <1>1, <1>2 DEF FrTypes, Fileref
<1>4. ASSUME NEW h \in Hosts
      PROVE  (a = Run(h) => RunStands(h)') /\ (a = Deliver(h) => DeliverStands(h)')
  <2>1. RunStands(h) /\ DeliverStands(h)
    BY DEF FrInv
  <2>2. QED
    BY <1>1, <1>2, <1>3, <2>1 DEF RunStands, DeliverStands, Writing
<1>5. FilesBy(a) /\ at[a] \in Writing
  BY <1>1 DEF FilesBy, Writing
<1>6. QED
  BY <1>1, <1>3, <1>4, <1>5, RequestOn DEF Places

LEMMA PutsOn ==
    ASSUME FrInv, NEW a \in Writers, Puts(a)
    PROVE  FrInv'
<1> DEFINE p == IF target[a] = Startup THEN Counts(a[1])
                ELSE IF target[a] = Token THEN "idle" ELSE "submitting"
<1>1. /\ at[a] = "putting" /\ at' = [at EXCEPT ![a] = p]
      /\ filerefs' = [filerefs EXCEPT ![target[a]].content = Bytes(a), ![target[a]].etag = @ + 1]
  BY DEF Puts, Goto
<1>2. /\ startupUploaded' = [startupUploaded EXCEPT ![a[1]] = @ \/ target[a] = Startup]
      /\ tag' = [tag EXCEPT ![a] = 0]
      /\ UNCHANGED <<filerefCounter, filerefCounterSeeded, listed, target, claim, frCounts, ran>>
  BY DEF Puts
<1>3. FrTypes /\ UNCHANGED <<target, seeding, programs, tokens>> /\ CountKeeps /\ a[1] \in Hosts
      /\ target[a] \in FilerefNames
  BY <1>2, Names DEF FrInv, FrTypes, claim, frCounts, CountKeeps
<1>4. FilesBy(a) /\ FilesStay /\ filerefs'[target[a]].content = Bytes(a)
  BY <1>1, WriteStays DEF FilesBy
<1>5. at'[a] = p /\ p \in Places \ {"tagging", "putting", "assigning", "finding"}
  BY <1>1, <1>3 DEF FrTypes, Places, Counts
<1>6. /\ startupUploaded' \in [Hosts -> BOOLEAN]
      /\ \A h \in Hosts : startupUploaded'[h] <=> startupUploaded[h] \/ (h = a[1] /\ target[a] = Startup)
  BY <1>2, <1>3 DEF FrTypes
<1>7. FrTypes'
  <2>1. /\ at' \in [Writers -> Places] /\ tag' \in [Writers -> Nat]
        /\ target' \in [Writers -> FilerefNames]
    <3> HIDE DEF p
    <3> QED
      BY <1>1, <1>2, <1>3, <1>5 DEF FrTypes
  <2>2. QED
    BY <1>3, <1>4, <1>6, <2>1, TypesOn DEF CountKeeps
<1>8. \A h \in Hosts : startupUploaded'[h] =>
         startupUploaded[h] \/ filerefs'[Startup].content = <<"snippet">>
  BY <1>4, <1>6, BytesFit
<1>9. ASSUME NEW h \in Hosts, a = Run(h) PROVE RunStands(h)'
  <2>1. RunStands(h) /\ a[1] = h
    BY <1>9, Names DEF FrInv
  <2>2. at'[a] \in {"listing", "claiming"} => target[a] = Startup
    BY <1>5
  <2>3. at'[a] = "submitting" => target[a] # Startup /\ target[a] # Token
    BY <1>5 DEF Counts
  <2>4. target[a] # Startup /\ target[a] # Token => Bytes(a) = <<"program", h, programs[h]>>
    BY <2>1, BytesFit
  <2>5. filerefs'[target[a]].owner = "ext"
    BY <1>1, <1>3, <1>4, <1>9, <2>1 DEF RunStands, Writing, FilesStay
  <2>6. startupUploaded[h] => startupUploaded'[h]
    BY <1>6
  <2>7. at'[a] \in {"listing", "claiming"} => startupUploaded'[h]
    BY <1>6, <2>1, <2>2
  <2>8. at'[a] = "submitting" /\ seeding[h] => startupUploaded'[h]
    BY <1>1, <1>9, <2>1, <2>3, <2>6 DEF RunStands, Writing
  <2>9. at'[a] \in {"idle", "listing", "claiming", "submitting"}
    BY <1>5 DEF Places
  <2>10. QED
    BY <1>3, <1>4, <1>9, <2>3, <2>4, <2>5, <2>7, <2>8, <2>9 DEF RunStands, Writing
<1>10. ASSUME NEW h \in Hosts, a = Deliver(h) PROVE DeliverStands(h)'
  <2>1. target[a] = Token
    BY <1>10 DEF FrInv, DeliverStands
  <2>2. at'[a] = "idle"
    BY <1>5, <2>1, Names
  <2>3. QED
    BY <1>3, <1>10, <2>1, <2>2 DEF DeliverStands, Writing
<1>11. RunsItsOwnProgram' /\ SeededIsPast'
  BY <1>2, <1>3, HistoryOn
<1>12. \A b \in Writers : b # a => StaysPut(b)
  BY <1>1, <1>3 DEF FrTypes, StaysPut
<1>13. \A h \in Hosts : startupUploaded[h] => startupUploaded'[h]
  BY <1>6
<1>14. at[a] \in Writing /\ target'[a] = target[a]
  BY <1>1, <1>3 DEF Writing
<1>15. QED
  BY <1>3, <1>4, <1>7, <1>8, <1>9, <1>10, <1>11, <1>12, <1>13, <1>14, OneMoves

WholeLists == "lost page" \notin FrMayMeet
LEMMA ListsOn ==
    ASSUME FrInv, NEW h \in Hosts, Lists(h), WholeLists
    PROVE  FrInv'
<1> DEFINE a == Run(h)
<1>1. /\ at[a] = "listing" /\ at' = [at EXCEPT ![a] = "claiming"]
      /\ UNCHANGED <<filerefs, startupUploaded, target, tag, seeding, programs, tokens, ran>>
      /\ \/ UNCHANGED <<filerefCounter, filerefCounterSeeded, listed>>
         \/ /\ filerefCounter' =
                 [filerefCounter EXCEPT ![h] = Max({@, HighestOf(NumbersHeld)})]
            /\ filerefCounterSeeded' = [filerefCounterSeeded EXCEPT ![h] = TRUE]
            /\ listed' = [listed EXCEPT ![h] = HighestOf(NumbersHeld)]
  BY DEF Lists, Goto, EveryPage, frCounts, WholeLists
<1>2. FrTypes /\ a \in Writers /\ RunStands(h) /\ SeededIsPast /\ MaxNumber \in Nat
  BY Names, BoundFits DEF FrInv
<1> DEFINE top == HighestOf(NumbersHeld)
           c == filerefCounter[h]
<1>3. top \in 0..MaxNumber
  <2> PICK m \in Nat : m = MaxNumber
    BY <1>2
  <2>0. m \in Nat /\ 0 \in 0..m
    OBVIOUS
  <2>1. NumbersHeld \in SUBSET (0..m)
    <3>1. \A n \in 1..m : n \in 0..m
      OBVIOUS
    <3>2. QED
      BY <3>1 DEF NumbersHeld
  <2>2. CASE NumbersHeld = {}
    <3>1. top = 0
      BY <2>2 DEF HighestOf
    <3>2. QED
      BY <2>0, <3>1
  <2>3. CASE NumbersHeld # {}
    <3>1. top = Max(NumbersHeld)
      BY <2>3 DEF HighestOf
    <3>2. Max(NumbersHeld) \in NumbersHeld
      BY <2>0, <2>1, <2>3, Greatest
    <3>3. QED
      BY <2>1, <3>1, <3>2
  <2>4. QED
    BY <2>2, <2>3
<1>4. Max({c, top}) \in 0..MaxNumber /\ Max({c, top}) >= top
  <2>1. c \in 0..MaxNumber
    BY <1>2 DEF FrTypes
  <2>2. {c, top} \in SUBSET (0..MaxNumber) /\ {c, top} # {}
    BY <1>3, <2>1
  <2> HIDE DEF c, top
  <2>3. Max({c, top}) \in {c, top} /\ \A y \in {c, top} : y <= Max({c, top})
    BY <1>2, <2>2, Greatest
  <2>4. QED
    BY <1>3, <2>1, <2>3
<1>5. /\ filerefCounter' \in [Hosts -> 0..MaxNumber] /\ listed' \in [Hosts -> 0..MaxNumber]
      /\ filerefCounterSeeded' \in [Hosts -> BOOLEAN]
      /\ SeededIsPast'
  <2>1. CASE UNCHANGED <<filerefCounter, filerefCounterSeeded, listed>>
    BY <1>2, <2>1 DEF FrTypes, SeededIsPast
  <2>2. CASE /\ filerefCounter' = [filerefCounter EXCEPT ![h] = Max({@, top})]
             /\ filerefCounterSeeded' = [filerefCounterSeeded EXCEPT ![h] = TRUE]
             /\ listed' = [listed EXCEPT ![h] = top]
    <3> HIDE DEF top
    <3>1. /\ filerefCounter' = [filerefCounter EXCEPT ![h] = Max({c, top})]
          /\ filerefCounterSeeded' = [filerefCounterSeeded EXCEPT ![h] = TRUE]
          /\ listed' = [listed EXCEPT ![h] = top]
      BY <2>2
    <3> HIDE DEF c
    <3>2. /\ filerefCounter' \in [Hosts -> 0..MaxNumber] /\ listed' \in [Hosts -> 0..MaxNumber]
          /\ filerefCounterSeeded' \in [Hosts -> BOOLEAN]
      BY <1>2, <1>3, <1>4, <3>1 DEF FrTypes
    <3>3. \A g \in Hosts : IF g = h THEN filerefCounter'[g] >= listed'[g]
                           ELSE /\ filerefCounter'[g] = filerefCounter[g] /\ listed'[g] = listed[g]
                                /\ filerefCounterSeeded'[g] = filerefCounterSeeded[g]
      BY <1>2, <1>4, <3>1 DEF FrTypes
    <3>4. QED
      BY <1>2, <3>2, <3>3 DEF SeededIsPast
  <2>3. QED
    BY <1>1, <2>1, <2>2
<1>6. FilesBy(a) /\ FilesStay
  BY <1>1, UnchangedStays DEF FilesBy
<1>7. /\ at' \in [Writers -> Places] /\ target' \in [Writers -> FilerefNames]
      /\ tag' \in [Writers -> Nat]
  BY <1>1, <1>2 DEF FrTypes, Places
<1>8. FrTypes'
  BY <1>1, <1>5, <1>6, <1>7, TypesOn
<1>9. at'[a] = "claiming" /\ \A b \in Writers : b # a => StaysPut(b)
  BY <1>1, <1>2 DEF FrTypes, StaysPut
<1>10. RunStands(h)'
  BY <1>1, <1>2, <1>9 DEF RunStands, Writing
<1>11. \A g \in Hosts : (a = Run(g) => RunStands(g)') /\ (a = Deliver(g) => DeliverStands(g)')
  BY <1>10, Names
<1>12. at'[a] \notin Writing
  BY <1>9 DEF Writing
<1>13. RunsItsOwnProgram'
  BY <1>1, HistoryOn
<1>14. QED
  BY <1>1, <1>2, <1>5, <1>6, <1>8, <1>9, <1>11, <1>12, <1>13, OneMoves

(* The counter of a run that takes the next name.                          *)
LEMMA CountsOn ==
    ASSUME FrInv, NEW h \in Hosts, filerefCounter[h] < MaxNumber,
           filerefCounter' = [filerefCounter EXCEPT ![h] = @ + 1],
           UNCHANGED <<filerefCounterSeeded, listed>>
    PROVE  /\ filerefCounter' \in [Hosts -> 0..MaxNumber] /\ SeededIsPast'
           /\ PY(filerefCounter[h] + 1) \in FilerefNames
<1>1. /\ filerefCounter \in [Hosts -> 0..MaxNumber] /\ listed \in [Hosts -> 0..MaxNumber]
      /\ SeededIsPast /\ MaxNumber \in Nat
  BY BoundFits DEF FrInv, FrTypes
<1>2. filerefCounter[h] + 1 \in 1..MaxNumber
  BY <1>1
<1>3. \A g \in Hosts : filerefCounter'[g] = (IF g = h THEN filerefCounter[h] + 1 ELSE filerefCounter[g])
  BY <1>1
<1>4. SeededIsPast'
  BY <1>1, <1>3 DEF SeededIsPast
<1>5. PY(filerefCounter[h] + 1) \in FilerefNames
  BY <1>2, Names
<1>6. filerefCounter' \in [Hosts -> 0..MaxNumber]
  BY <1>1, <1>2
<1>7. QED
  BY <1>4, <1>5, <1>6

LEMMA ClaimsNameOn ==
    ASSUME FrInv, NEW h \in Hosts, ClaimsName(h)
    PROVE  FrInv'
<1> DEFINE a == Run(h)
           n == PY(filerefCounter[h] + 1)
<1>1. /\ at[a] = "claiming" /\ filerefCounter[h] < MaxNumber
      /\ filerefCounter' = [filerefCounter EXCEPT ![h] = @ + 1]
      /\ target' = [target EXCEPT ![a] = n]
      /\ UNCHANGED <<filerefCounterSeeded, startupUploaded, listed, tag, seeding, programs, tokens, ran>>
  BY DEF ClaimsName, frCounts
<1>2. \/ /\ IsFree(n) /\ filerefs' = [filerefs EXCEPT ![n] = Assigned]
         /\ at' = [at EXCEPT ![a] = "tagging"]
      \/ /\ ~IsFree(n) /\ UNCHANGED filerefs
         /\ UNCHANGED at \/ at' = [at EXCEPT ![a] = "idle"]
  BY DEF ClaimsName, Goto, IsMine
<1>3. FrTypes /\ a \in Writers /\ RunStands(h)
  BY Names DEF FrInv
<1>4. filerefCounter' \in [Hosts -> 0..MaxNumber] /\ SeededIsPast' /\ n \in FilerefNames
  BY <1>1, CountsOn
<1>5. n # Startup /\ n # Token
  BY Names
<1> HIDE DEF n
<1>6. FilesBy(a) /\ FilesStay
  <2>1. FilesBy(a)
    BY <1>2, <1>4 DEF FilesBy
  <2>2. QED
    BY <1>3, <2>1, FilesByStays
<1>7. /\ at' \in [Writers -> Places] /\ target' \in [Writers -> FilerefNames]
      /\ tag' \in [Writers -> Nat]
  BY <1>1, <1>2, <1>3, <1>4 DEF FrTypes, Places
<1>8. FrTypes'
  BY <1>1, <1>3, <1>4, <1>6, <1>7, TypesOn DEF FrTypes
<1>9. /\ target'[a] = n /\ at'[a] \in {"tagging", "claiming", "idle"}
      /\ at'[a] = "tagging" => IsFree(n) /\ filerefs'[n].owner = "ext"
  BY <1>1, <1>2, <1>3, <1>4, AssignStays DEF FrTypes
<1>10. \A b \in Writers : b # a => StaysPut(b)
  BY <1>1, <1>2, <1>3 DEF FrTypes, StaysPut
<1>11. RunStands(h)'
  BY <1>1, <1>3, <1>5, <1>9 DEF RunStands, Writing
<1>12. \A g \in Hosts : (a = Run(g) => RunStands(g)') /\ (a = Deliver(g) => DeliverStands(g)')
  BY <1>11, Names
<1>13. at'[a] \in Writing => IsFree(target'[a])
  BY <1>9 DEF Writing
<1>14. RunsItsOwnProgram'
  BY <1>1, HistoryOn
<1>15. QED
  BY <1>1, <1>3, <1>4, <1>6, <1>8, <1>10, <1>12, <1>13, <1>14, OneMoves

LEMMA GivesUpClaimOn ==
    ASSUME FrInv, NEW h \in Hosts, GivesUpClaim(h)
    PROVE  FrInv'
<1> DEFINE a == Run(h)
           n == PY(filerefCounter[h] + 1)
<1>1. /\ at' = [at EXCEPT ![a] = "idle"] /\ filerefCounter[h] < MaxNumber
      /\ filerefCounter' = [filerefCounter EXCEPT ![h] = @ + 1]
      /\ target' = [target EXCEPT ![a] = Token] /\ tag' = [tag EXCEPT ![a] = 0]
      /\ UNCHANGED <<filerefCounterSeeded, startupUploaded, listed, seeding, programs, tokens, ran>>
      /\ \/ UNCHANGED filerefs
         \/ IsFree(n) /\ filerefs' = [filerefs EXCEPT ![n] = Assigned]
  BY DEF GivesUpClaim, Goto, LetsGo, claim, frCounts
<1>2. FrTypes /\ a \in Writers
  BY Names DEF FrInv
<1>3. filerefCounter' \in [Hosts -> 0..MaxNumber] /\ SeededIsPast' /\ n \in FilerefNames
  BY <1>1, CountsOn
<1> HIDE DEF n
<1>4. FilesBy(a) /\ FilesStay
  <2>1. FilesBy(a)
    BY <1>1, <1>3 DEF FilesBy
  <2>2. QED
    BY <1>2, <2>1, FilesByStays
<1>5. /\ at' \in [Writers -> Places] /\ target' \in [Writers -> FilerefNames]
      /\ tag' \in [Writers -> Nat]
  BY <1>1, <1>2, Names DEF FrTypes, Places
<1>6. FrTypes'
  BY <1>1, <1>2, <1>3, <1>4, <1>5, TypesOn DEF FrTypes
<1>7. at'[a] = "idle" /\ \A b \in Writers : b # a => StaysPut(b)
  BY <1>1, <1>2 DEF FrTypes, StaysPut
<1>8. \A g \in Hosts : (a = Run(g) => RunStands(g)') /\ (a = Deliver(g) => DeliverStands(g)')
  BY <1>7, Names DEF RunStands, Writing
<1>9. at'[a] \notin Writing
  BY <1>7 DEF Writing
<1>10. RunsItsOwnProgram'
  BY <1>1, HistoryOn
<1>11. QED
  BY <1>1, <1>2, <1>3, <1>4, <1>6, <1>7, <1>8, <1>9, <1>10, OneMoves

LEMMA SubmitsOn ==
    ASSUME FrInv, NEW h \in Hosts, Submits(h)
    PROVE  FrInv'
<1> DEFINE a == Run(h)
           j == [of |-> <<"program", h, programs[h]>>,
                 infile |-> filerefs[target[a]].content,
                 first |-> IF seeding[h] THEN filerefs[Startup].content ELSE <<"snippet">>]
<1>1. /\ at[a] = "submitting" /\ at' = [at EXCEPT ![a] = "idle"]
      /\ ran' = ran \cup {j}
      /\ target' = [target EXCEPT ![a] = Token] /\ tag' = [tag EXCEPT ![a] = 0]
      /\ seeding' = [seeding EXCEPT ![h] = FALSE]
      /\ UNCHANGED <<filerefs, filerefCounter, filerefCounterSeeded, startupUploaded, listed,
                     programs, tokens>>
  BY DEF Submits, Goto, LetsGo, frBackend, frCounts
<1>2. FrTypes /\ a \in Writers /\ RunStands(h) /\ FilesFit /\ RunsItsOwnProgram
  BY Names DEF FrInv
<1>3. j.infile = j.of /\ j.first = <<"snippet">>
  <2>1. filerefs[target[a]].content = <<"program", h, programs[h]>>
    BY <1>1, <1>2 DEF RunStands
  <2>2. seeding[h] => startupUploaded[h]
    BY <1>1, <1>2 DEF RunStands, Writing
  <2>3. QED
    BY <1>2, <2>1, <2>2 DEF FilesFit
<1>4. RunsItsOwnProgram'
  <2> HIDE DEF j
  <2> QED
    BY <1>1, <1>2, <1>3 DEF RunsItsOwnProgram
<1> HIDE DEF j
<1>5. FilesBy(a) /\ FilesStay /\ CountKeeps
  BY <1>1, UnchangedStays DEF FilesBy, CountKeeps
<1>6. /\ at' \in [Writers -> Places] /\ target' \in [Writers -> FilerefNames]
      /\ tag' \in [Writers -> Nat] /\ seeding' \in [Hosts -> BOOLEAN]
  BY <1>1, <1>2, Names DEF FrTypes, Places
<1>7. FrTypes'
  BY <1>1, <1>5, <1>6, TypesOn DEF CountKeeps
<1>8. at'[a] = "idle" /\ \A b \in Writers : b # a => StaysPut(b)
  BY <1>1, <1>2 DEF FrTypes, StaysPut
<1>9. \A g \in Hosts : (a = Run(g) => RunStands(g)') /\ (a = Deliver(g) => DeliverStands(g)')
  BY <1>8, Names DEF RunStands, Writing
<1>10. at'[a] \notin Writing
  BY <1>8 DEF Writing
<1>11. \A g \in Hosts : Run(g) # a => (seeding'[g] => seeding[g])
  BY <1>1, <1>2 DEF FrTypes
<1>12. SeededIsPast'
  BY <1>5, HistoryOn
<1>13. QED
  BY <1>1, <1>2, <1>4, <1>5, <1>7, <1>8, <1>9, <1>10, <1>11, <1>12, OneMoves

LEMMA ReattachesOn ==
    ASSUME FrInv, NEW h \in Hosts, Reattaches(h)
    PROVE  FrInv'
<1>1. /\ at[Run(h)] = "idle" /\ at[Deliver(h)] = "idle"
      /\ filerefCounter' = [filerefCounter EXCEPT ![h] = 0]
      /\ filerefCounterSeeded' = [filerefCounterSeeded EXCEPT ![h] = FALSE]
      /\ startupUploaded' = [startupUploaded EXCEPT ![h] = FALSE]
      /\ listed' = [listed EXCEPT ![h] = 0]
      /\ UNCHANGED <<filerefs, at, target, tag, seeding, programs, tokens, ran>>
  BY DEF Reattaches, claim
<1>2. FrTypes /\ SeededIsPast /\ MaxNumber \in Nat
  BY BoundFits DEF FrInv
<1>3. /\ filerefCounter' \in [Hosts -> 0..MaxNumber] /\ listed' \in [Hosts -> 0..MaxNumber]
      /\ filerefCounterSeeded' \in [Hosts -> BOOLEAN] /\ startupUploaded' \in [Hosts -> BOOLEAN]
  BY <1>1, <1>2 DEF FrTypes
<1>4. /\ ~filerefCounterSeeded'[h] /\ ~startupUploaded'[h]
      /\ \A g \in Hosts : g # h =>
            /\ filerefCounter'[g] = filerefCounter[g] /\ listed'[g] = listed[g]
            /\ filerefCounterSeeded'[g] = filerefCounterSeeded[g]
            /\ startupUploaded'[g] = startupUploaded[g]
  BY <1>1, <1>2 DEF FrTypes
<1>5. FilesStay
  BY <1>1, UnchangedStays
<1>6. FrTypes'
  BY <1>1, <1>2, <1>3, <1>5, TypesOn DEF FrTypes
<1>7. FilesFit' /\ TokenStaysHome'
  BY <1>4, <1>5, FilesOn
<1>8. Apart'
  BY <1>1, ApartOn
<1>9. SeededIsPast' /\ RunsItsOwnProgram'
  BY <1>1, <1>2, <1>4, HistoryOn DEF SeededIsPast
<1>10. ASSUME NEW g \in Hosts PROVE RunStands(g)' /\ DeliverStands(g)'
  <2>1. StaysPut(Run(g)) /\ StaysPut(Deliver(g))
    BY <1>1 DEF StaysPut
  <2>2. DeliverStands(g)'
    BY <1>5, <2>1, DeliverOn
  <2>3. RunStands(g)'
    <3>1. CASE g = h
      BY <1>1, <3>1 DEF RunStands, Writing
    <3>2. CASE g # h
      BY <1>1, <1>4, <1>5, <2>1, <3>2, RunOn
    <3>3. QED
      BY <3>1, <3>2
  <2>4. QED
    BY <2>2, <2>3
<1>11. QED
  BY <1>6, <1>7, <1>8, <1>9, <1>10 DEF FrInv

(* The user takes a name that nobody has.                                  *)
LEMMA UserAssignsOn ==
    ASSUME FrInv, NEW n \in {PY(Earlier + 1), Token}, UserAssigns(n), "reassigned" \notin FrMayMeet
    PROVE  FrInv'
<1>1. /\ IsFree(n) /\ n # Startup /\ filerefs' = [filerefs EXCEPT ![n] = Users]
      /\ UNCHANGED <<frBackend, at, target, tag, claim, frCounts, ran>>
  BY DEF UserAssigns
<1>2. FrTypes /\ FilesFit /\ n \in FilerefNames
  BY Names, BoundFits DEF FrInv
<1>3. Users \in Fileref /\ Users.owner = "user"
  BY DEF Users, Fileref, Contents
<1>4. /\ filerefs' \in [FilerefNames -> Fileref] /\ filerefs'[n] = Users
      /\ \A m \in FilerefNames : m # n => filerefs'[m] = filerefs[m]
  BY <1>1, <1>2, <1>3 DEF FrTypes
<1>5. FilesStay
  BY <1>1, <1>2, <1>3, <1>4, Names DEF FilesStay, FilesFit, IsFree
<1>6. UNCHANGED <<startupUploaded, seeding, programs, tokens>> /\ CountKeeps
  BY <1>1 DEF frBackend, claim, frCounts, CountKeeps
<1>7. FrTypes'
  BY <1>1, <1>2, <1>5, <1>6, TypesOn DEF CountKeeps, FrTypes
<1>8. FilesFit' /\ TokenStaysHome'
  BY <1>5, <1>6, FilesOn
<1>9. Apart' /\ SeededIsPast' /\ RunsItsOwnProgram'
  BY <1>1, <1>6, ApartOn, HistoryOn
<1>10. ASSUME NEW g \in Hosts PROVE RunStands(g)' /\ DeliverStands(g)'
  <2>1. StaysPut(Run(g)) /\ StaysPut(Deliver(g))
    BY <1>1 DEF StaysPut
  <2>2. DeliverStands(g)'
    BY <1>5, <2>1, DeliverOn
  <2>3. at[Run(g)] = "submitting" =>
           filerefs'[target[Run(g)]].content = filerefs[target[Run(g)]].content
    <3>1. at[Run(g)] = "submitting" =>
            target[Run(g)] \in FilerefNames /\ filerefs[target[Run(g)]].owner = "ext"
      BY <1>2, Names DEF FrInv, RunStands, FrTypes, Writing
    <3>2. QED
      BY <1>1, <1>4, <3>1 DEF IsFree
  <2>4. RunStands(g)'
    BY <1>5, <1>6, <2>1, <2>3, RunOn
  <2>5. QED
    BY <2>2, <2>4
<1>11. QED
  BY <1>7, <1>8, <1>9, <1>10 DEF FrInv

LEMMA FrStep ==
    ASSUME FrInv, [FrNext]_frVars, FrMayMeet \subseteq {"user"}
    PROVE  FrInv'
<1>1. WholeLists /\ "reassigned" \notin FrMayMeet
  BY DEF WholeLists
<1>2. ASSUME NEW h \in Hosts,
             \/ BeginsRun(h) \/ BeginsToken(h) \/ Lists(h) \/ ClaimsName(h)
             \/ GivesUpClaim(h) \/ Submits(h) \/ Reattaches(h)
      PROVE  FrInv'
  BY <1>1, <1>2, BeginsRunOn, BeginsTokenOn, ListsOn, ClaimsNameOn, GivesUpClaimOn, SubmitsOn,
     ReattachesOn
<1>3. ASSUME NEW a \in Writers, WriterSteps(a)
      PROVE  FrInv'
  BY <1>3, GivesUpOn, AssignsFixedOn, FindsOn, TagsOn, PutsOn DEF WriterSteps
<1>4. ASSUME NEW n \in {PY(Earlier + 1), Token}, UserAssigns(n)
      PROVE  FrInv'
  BY <1>1, <1>4, UserAssignsOn
<1>5. ASSUME UNCHANGED frVars
      PROVE  FrInv'
  BY <1>5 DEF frVars, FrInv, FrTypes, FilesFit, Apart, RunStands, DeliverStands, IsFree,
     RunsItsOwnProgram, TokenStaysHome, SeededIsPast
<1>6. QED
  BY <1>2, <1>3, <1>4, <1>5 DEF FrNext

(* A job runs the program it was submitted for, with the snippet in full   *)
(* where one was asked for; no token is ever in a file that the user's     *)
(* program has named; and a seeded counter is past every name that was     *)
(* held: for any number of windows and runs attached to one session,       *)
(* whatever answers are lost, unless a page of the list is lost or the     *)
(* user takes the token's name while it is written (src/compute/fileref.ts, *)
(* casToken.ts).                                                           *)
THEOREM FilerefsHold ==
    ASSUME FrMayMeet \subseteq {"user"}
    PROVE  SessionDataSpec => []FilerefsAreOwn
<1>1. SessionDataInit => FrInv
  BY FrInitFits DEF SessionDataInit
<1>2. FrInv /\ [SessionDataNext]_sessionDataVars => FrInv'
  BY PartsStep, FrStep
<1>3. FrInv => FilerefsAreOwn
  BY DEF FrInv, FilerefsAreOwn
<1>4. QED
  BY <1>1, <1>2, <1>3, PTL DEF SessionDataSpec

-----------------------------------------------------------------------------
(* CAS.  The command: what it holds by the time it writes, and how it ends. *)
Columns == [dep : Deployments, at : Nat] \cup {NoColumns}
Tree == [dep : Deployments, at : Nat, state : {"loaded", "unloaded"}, icon : {"loaded", "unloaded"}]
Commands == [step : {"idle", "servers", "picking", "connection", "accounts", "session", "writing",
                     "ended"},
             dep : Deployments \cup {"none"}, session : 0..2,
             account : Accounts \cup {NoAccount}, cancelled : BOOLEAN, dismissed : BOOLEAN,
             answer : {"none", "silent", "reported", "done"}]
CommandFits ==
    /\ cmd \in Commands
    /\ cmd.step = "writing" => cmd.account[1] = cmd.dep
    /\ EveryCommandIsAnswered

(* The tree: what is read, kept or drawn of the table is of the node, and  *)
(* columns that are drawn or kept to be drawn make its icon.               *)
OfNode(c) == c # NoColumns => node # NoTable /\ c.dep = node.dep /\ c.at = node.at
Drawn == shown # NoColumns \/ justLoaded # NoColumns
TreeFits ==
    /\ endpoint \in Deployments /\ refreshes \in Nat
    /\ node # NoTable => node \in Tree
    /\ redraw \in BOOLEAN /\ (redraw => node # NoTable)
    /\ \A r \in reads :
          /\ r \in [n : Nat, of : Deployments, at : Nat, state : {"loaded", "unloaded"},
                    step : {"load", "columns"}]
          /\ node # NoTable /\ r.of = node.dep /\ r.at = node.at /\ r.state = node.state
    /\ OfNode(shown) /\ OfNode(justLoaded) /\ OfNode(loadedTables)
    /\ Drawn => node.state = "loaded" \/ loadedTables # NoColumns
    /\ Drawn /\ ~redraw => node.icon = "loaded"
    /\ node.state = "loaded" => node.icon = "loaded"
AccountsFit == sessionOf \in [Deployments -> 0..2] /\ signedIn \in SUBSET Accounts
CaInv == AccountsFit /\ CommandFits /\ TreeFits /\ TokenFitsSession

LEMMA CaPartsStep ==
    ASSUME [SessionDataNext]_sessionDataVars
    PROVE  [CaNext]_caVars
BY DEF SessionDataNext, ViewerSteps, ExportSteps, CasSteps, FilerefSteps, RichSteps,
       sessionDataVars

LEMMA Sending ==
    ASSUME SendsNone \/ \E d \in Deployments : SendsAsOwner(d)
    PROVE  TokenFitsSession'
<1>1. CASE SendsNone
  BY <1>1 DEF SendsNone, TokenFitsSession
<1>2. ASSUME NEW d \in Deployments, SendsAsOwner(d) PROVE TokenFitsSession'
  <2>1. PICK a \in TokenFor(d) : sent' = {[dep |-> d, account |-> a]}
    BY <1>2 DEF SendsAsOwner
  <2>2. a[1] = d
    BY DEF TokenFor, Belongs
  <2>3. QED
    BY <2>1, <2>2 DEF TokenFitsSession
<1>3. QED
  BY <1>1, <1>2

(* A command that ends has said something, was cancelled or was dismissed.  *)
LEMMA EndsFits ==
    ASSUME CommandFits, NEW a \in {"silent", "reported", "done"}, Ends(a),
           a = "silent" => cmd.cancelled
    PROVE  CommandFits'
<1>1. cmd.cancelled \in BOOLEAN
  BY DEF CommandFits, Commands
<1>2. NoCommand \in Commands
  BY DEF NoCommand, Commands, NoAccount
<1>3. /\ cmd' \in Commands /\ cmd'.step = "ended" /\ cmd'.answer = a
      /\ cmd'.cancelled <=> a = "silent" /\ cmd.cancelled
  BY <1>1, <1>2 DEF Ends, Commands, NoCommand
<1>4. QED
  BY <1>3 DEF CommandFits, EveryCommandIsAnswered

LEMMA FailsFits ==
    ASSUME CommandFits, FailsTelling
    PROVE  CommandFits'
<1>1. (Ends("silent") /\ cmd.cancelled) \/ Ends("reported")
  BY DEF FailsTelling, SaysNothing
<1>2. QED
  BY <1>1, EndsFits

LEMMA GoesOnFits ==
    ASSUME CommandFits,
           NEW s \in {"servers", "picking", "connection", "accounts", "session"},
           cmd' = [cmd EXCEPT !.step = s]
    PROVE  CommandFits'
<1>1. cmd' \in Commands /\ cmd'.step = s /\ cmd'.answer = cmd.answer
      /\ cmd'.cancelled = cmd.cancelled /\ cmd'.dismissed = cmd.dismissed
  BY DEF CommandFits, Commands
<1>2. QED
  BY <1>1 DEF CommandFits, EveryCommandIsAnswered

LEMMA Hinted ==
    ASSUME AccountsFit, NEW d
    PROVE  AccountForEndpoint(d) \in Accounts \cup {NoAccount}
<1> DEFINE matches == {a \in signedIn : a[1] = d}
<1>1. CASE Cardinality(matches) = 1
  <2>1. matches # {}
    BY <1>1, FS_EmptySet
  <2>2. (CHOOSE a \in matches : TRUE) \in matches
    BY <2>1
  <2>3. AccountForEndpoint(d) \in signedIn
    BY <1>1, <2>2 DEF AccountForEndpoint
  <2>4. QED
    BY <2>3 DEF AccountsFit
<1>2. CASE Cardinality(matches) # 1
  BY <1>2 DEF AccountForEndpoint
<1>3. QED
  BY <1>1, <1>2

(* What a command takes from what is around it.                            *)
CommandKnown == CommandFits /\ AccountsFit /\ endpoint \in Deployments

LEMMA BeginsFits ==
    ASSUME CommandKnown, NEW s \in {"servers", "accounts"}, BeginsAt(s)
    PROVE  CommandFits'
<1>1. CommandFits /\ AccountsFit /\ endpoint \in Deployments
  BY DEF CommandKnown
<1>2. CASE Ends("reported")
  BY <1>1, <1>2, EndsFits
<1>3. CASE cmd' = [cmd EXCEPT !.step = s, !.dep = endpoint, !.session = sessionOf[endpoint]]
  <2>1. sessionOf[endpoint] \in 0..2
    BY <1>1 DEF AccountsFit
  <2>2. cmd' \in Commands /\ cmd'.step = s /\ cmd'.answer = cmd.answer
        /\ cmd'.cancelled = cmd.cancelled /\ cmd'.dismissed = cmd.dismissed
    BY <1>1, <1>3, <2>1 DEF CommandFits, Commands
  <2>3. QED
    BY <1>1, <2>2 DEF CommandFits, EveryCommandIsAnswered
<1>4. QED
  BY <1>2, <1>3 DEF BeginsAt

LEMMA PicksFits ==
    ASSUME CommandKnown, PicksServer
    PROVE  CommandFits'
<1>1. CommandFits
  BY DEF CommandKnown
<1>2. CASE cmd' = [cmd EXCEPT !.step = "connection"]
  BY <1>1, <1>2, GoesOnFits
<1>3. CASE cmd' = [NoCommand EXCEPT !.step = "ended", !.dismissed = TRUE, !.answer = "silent"]
  <2>1. NoCommand \in Commands
    BY DEF NoCommand, Commands, NoAccount
  <2>2. cmd' \in Commands /\ cmd'.step = "ended" /\ cmd'.dismissed
    BY <1>3, <2>1 DEF Commands
  <2>3. QED
    BY <2>2 DEF CommandFits, EveryCommandIsAnswered
<1>4. QED
  BY <1>2, <1>3 DEF PicksServer

LEMMA ListsAccountsFits ==
    ASSUME CommandKnown, ListsAccounts
    PROVE  CommandFits'
<1>1. CommandFits /\ AccountForEndpoint(cmd.dep) \in Accounts \cup {NoAccount}
  BY Hinted DEF CommandKnown
<1>2. PICK a \in Accounts \cup {NoAccount} :
        cmd' = [cmd EXCEPT !.step = "session", !.account = a]
  BY <1>1 DEF ListsAccounts
<1>3. cmd' \in Commands /\ cmd'.step = "session" /\ cmd'.answer = cmd.answer
      /\ cmd'.cancelled = cmd.cancelled /\ cmd'.dismissed = cmd.dismissed
  BY <1>1, <1>2 DEF CommandFits, Commands
<1>4. QED
  BY <1>1, <1>3 DEF CommandFits, EveryCommandIsAnswered

LEMMA GetsSessionFits ==
    ASSUME CommandKnown, GetsSession
    PROVE  CommandFits'
<1>1. CommandFits /\ AccountsFit
  BY DEF CommandKnown
<1>2. CASE Ends("reported")
  BY <1>1, <1>2, EndsFits
<1>3. ASSUME NEW a \in Offered(cmd.account), Belongs(cmd.dep, a),
             cmd' = [cmd EXCEPT !.step = "writing", !.account = a]
      PROVE  CommandFits'
  <2>1. a \in Accounts /\ a[1] = cmd.dep
    BY <1>1, <1>3 DEF Offered, AccountsFit, Belongs
  <2>2. cmd' \in Commands /\ cmd'.step = "writing" /\ cmd'.answer = cmd.answer
        /\ cmd'.cancelled = cmd.cancelled /\ cmd'.dismissed = cmd.dismissed
        /\ cmd'.account = a /\ cmd'.dep = cmd.dep
    BY <1>1, <1>3, <2>1 DEF CommandFits, Commands
  <2>3. QED
    BY <1>1, <2>1, <2>2 DEF CommandFits, EveryCommandIsAnswered
<1>4. QED
  BY <1>2, <1>3 DEF GetsSession

LEMMA CancelsFits ==
    ASSUME CommandKnown, CancelsCommand
    PROVE  CommandFits'
<1>1. CommandFits /\ cmd' = [cmd EXCEPT !.cancelled = TRUE]
  BY DEF CommandKnown, CancelsCommand
<1>2. cmd' \in Commands /\ cmd'.step = cmd.step /\ cmd'.answer = cmd.answer
      /\ cmd'.cancelled /\ cmd'.account = cmd.account /\ cmd'.dep = cmd.dep
  BY <1>1 DEF CommandFits, Commands
<1>3. QED
  BY <1>1, <1>2 DEF CommandFits, EveryCommandIsAnswered

TreeSteps ==
    \/ \E d \in Deployments : Refreshes(d)
    \/ ListsTable \/ ExpandsTable \/ Redraws \/ \E r \in reads : Reads(r)
WorldSteps ==
    \/ \E d \in Deployments : SessionDies(d) \/ Connects(d) \/ DropsTable(d)
    \/ \E a \in Accounts : SignsInOrOut(a)
CommandSteps ==
    BeginsInsert \/ BeginsRefresh \/ GetsServers \/ PicksServer \/ GetsConnection \/ ListsAccounts
    \/ GetsSession \/ WritesToken \/ CancelsCommand

LEMMA CommandOn ==
    ASSUME CommandKnown, CommandSteps
    PROVE  CommandFits'
<1>1. CommandFits
  BY DEF CommandKnown
<1>2. CASE GetsServers
  BY <1>1, <1>2, FailsFits, EndsFits, GoesOnFits DEF GetsServers
<1>3. CASE GetsConnection
  BY <1>1, <1>3, FailsFits, GoesOnFits DEF GetsConnection
<1>4. CASE WritesToken
  BY <1>1, <1>4, FailsFits, EndsFits DEF WritesToken
<1>5. QED
  BY <1>2, <1>3, <1>4, BeginsFits, PicksFits, ListsAccountsFits, GetsSessionFits, CancelsFits
  DEF CommandSteps, BeginsInsert, BeginsRefresh

LEMMA TokensOn ==
    ASSUME CaInv, CaNext
    PROVE  TokenFitsSession'
<1>1. CASE TreeSteps
  <2>1. ASSUME NEW r \in reads, Reads(r) PROVE TokenFitsSession'
    <3>1. r.of \in Deployments
      BY DEF CaInv, TreeFits
    <3>2. QED
      BY <2>1, <3>1, Sending DEF Reads, LoadsIntoMemory, ReadsColumns, FailsRead
  <2>2. endpoint \in Deployments
    BY DEF CaInv, TreeFits
  <2>3. QED
    BY <1>1, <2>1, <2>2, Sending DEF TreeSteps, Refreshes, ListsTable, ExpandsTable, Redraws
<1>2. CASE WorldSteps
  BY <1>2, Sending DEF WorldSteps, SessionDies, Connects, DropsTable, SignsInOrOut
<1>3. CASE CommandSteps
  <2>1. CASE GetsServers \/ GetsConnection
    <3>1. SendsNone \/ SendsAsOwner(cmd.dep)
      BY <2>1 DEF GetsServers, GetsConnection
    <3>2. CASE SendsAsOwner(cmd.dep)
      <4>1. PICK a \in TokenFor(cmd.dep) : sent' = {[dep |-> cmd.dep, account |-> a]}
        BY <3>2 DEF SendsAsOwner
      <4>2. a[1] = cmd.dep
        BY DEF TokenFor, Belongs
      <4>3. QED
        BY <4>1, <4>2 DEF TokenFitsSession
    <3>3. QED
      BY <3>1, <3>2, Sending
  <2>2. CASE WritesToken
    <3>1. SendsNone \/ sent' = {[dep |-> cmd.dep, account |-> cmd.account]}
      BY <2>2 DEF WritesToken
    <3>2. cmd.account[1] = cmd.dep
      BY <2>2 DEF WritesToken, CaInv, CommandFits
    <3>3. CASE sent' = {[dep |-> cmd.dep, account |-> cmd.account]}
      BY <3>2, <3>3 DEF TokenFitsSession
    <3>4. QED
      BY <3>1, <3>3, Sending
  <2>3. CASE ~(GetsServers \/ GetsConnection \/ WritesToken)
    BY <1>3, <2>3, Sending DEF CommandSteps, BeginsInsert, BeginsRefresh, BeginsAt, PicksServer,
       ListsAccounts, GetsSession, CancelsCommand
  <2>4. QED
    BY <2>1, <2>2, <2>3
<1>4. QED
  BY <1>1, <1>2, <1>3 DEF CaNext, TreeSteps, WorldSteps, CommandSteps

(* The tree.                                                               *)
LEMMA RefreshesOn ==
    ASSUME CaInv, NEW d \in Deployments, Refreshes(d), "meanwhile" \notin CaMayMeet
    PROVE  TreeFits'
<1>1. /\ reads' = {} /\ refreshes' = refreshes + 1 /\ endpoint' = d /\ node' = NoTable
      /\ shown' = NoColumns /\ justLoaded' = NoColumns /\ loadedTables' = NoColumns
      /\ redraw' = FALSE
  BY DEF Refreshes, Dropped
<1>2. refreshes \in Nat
  BY DEF CaInv, TreeFits
<1>3. refreshes' \in Nat
  BY <1>1, <1>2
<1>4. NoTable.state # "loaded"
  BY DEF NoTable
<1>5. QED
  BY <1>1, <1>3, <1>4 DEF TreeFits, OfNode, Drawn

LEMMA ListsTableOn ==
    ASSUME CaInv, ListsTable
    PROVE  TreeFits'
<1>1. TreeFits /\ node = NoTable
  BY DEF CaInv, ListsTable
<1>2. reads = {} /\ shown = NoColumns /\ justLoaded = NoColumns /\ loadedTables = NoColumns
  BY <1>1 DEF TreeFits, OfNode
<1>3. PICK s \in {"loaded", "unloaded"} :
        node' = [dep |-> endpoint, at |-> refreshes, state |-> s, icon |-> IconOf(s)]
  BY DEF ListsTable
<1>4. IconOf(s) = s
  BY <1>2 DEF IconOf
<1>5. UNCHANGED <<endpoint, shown, justLoaded, loadedTables, redraw, reads, refreshes>>
  BY DEF ListsTable
<1>6. node' \in Tree /\ node'.icon = node'.state
  BY <1>1, <1>3, <1>4 DEF TreeFits, Tree
<1>7. QED
  BY <1>1, <1>2, <1>5, <1>6 DEF TreeFits, OfNode, Drawn

LEMMA ExpandsTableOn ==
    ASSUME CaInv, ExpandsTable
    PROVE  TreeFits'
<1>1. TreeFits /\ node # NoTable
      /\ UNCHANGED <<endpoint, node, loadedTables, redraw, refreshes>>
  BY DEF CaInv, ExpandsTable
<1>2. CASE justLoaded # NoColumns
  <2>1. shown' = justLoaded /\ justLoaded' = NoColumns /\ UNCHANGED reads
    BY <1>2 DEF ExpandsTable
  <2>2. QED
    BY <1>1, <1>2, <2>1 DEF TreeFits, OfNode, Drawn
<1>3. CASE justLoaded = NoColumns
  <2>1. PICK n \in 1 .. MaxReads :
          reads' = reads \cup {[n |-> n, of |-> node.dep, at |-> node.at, state |-> node.state,
                                step |-> IF node.state = "loaded" THEN "columns" ELSE "load"]}
    BY <1>3 DEF ExpandsTable
  <2>2. UNCHANGED <<shown, justLoaded>>
    BY <1>3 DEF ExpandsTable
  <2>3. PICK r : /\ r \in [n : Nat, of : Deployments, at : Nat, state : {"loaded", "unloaded"},
                           step : {"load", "columns"}]
                 /\ r.of = node.dep /\ r.at = node.at /\ r.state = node.state
                 /\ reads' = reads \cup {r}
    <3>1. node \in Tree /\ n \in Nat
      BY <1>1 DEF TreeFits
    <3>2. PICK s \in {"load", "columns"} :
            s = IF node.state = "loaded" THEN "columns" ELSE "load"
      OBVIOUS
    <3>3. PICK r : r = [n |-> n, of |-> node.dep, at |-> node.at, state |-> node.state, step |-> s]
      OBVIOUS
    <3>4. /\ r \in [n : Nat, of : Deployments, at : Nat, state : {"loaded", "unloaded"},
                    step : {"load", "columns"}]
          /\ r.of = node.dep /\ r.at = node.at /\ r.state = node.state
      BY <3>1, <3>3 DEF Tree
    <3>5. reads' = reads \cup {r}
      BY <2>1, <3>2, <3>3
    <3>6. QED
      BY <3>4, <3>5
  <2>4. QED
    BY <1>1, <2>2, <2>3 DEF TreeFits, OfNode, Drawn
<1>4. QED
  BY <1>2, <1>3

LEMMA ReadOn ==
    ASSUME CaInv, NEW r \in reads, LoadsIntoMemory(r) \/ FailsRead(r)
    PROVE  TreeFits'
<1>1. TreeFits /\ UNCHANGED <<endpoint, node, shown, justLoaded, loadedTables, redraw, refreshes>>
  BY DEF CaInv, LoadsIntoMemory, FailsRead
<1>2. CASE FailsRead(r)
  <2>1. reads' \subseteq reads
    BY <1>2 DEF FailsRead
  <2>2. QED
    BY <1>1, <2>1 DEF TreeFits, OfNode, Drawn
<1>3. CASE LoadsIntoMemory(r)
  <2>1. PICK q : reads' = (reads \ {r}) \cup {q} /\ q = [r EXCEPT !.step = "columns"]
    BY <1>3 DEF LoadsIntoMemory
  <2>2. r \in [n : Nat, of : Deployments, at : Nat, state : {"loaded", "unloaded"},
               step : {"load", "columns"}]
        /\ r.of = node.dep /\ r.at = node.at /\ r.state = node.state
    BY <1>1 DEF TreeFits
  <2>3. q \in [n : Nat, of : Deployments, at : Nat, state : {"loaded", "unloaded"},
               step : {"load", "columns"}]
        /\ q.of = node.dep /\ q.at = node.at /\ q.state = node.state
    BY <2>1, <2>2
  <2>4. QED
    BY <1>1, <2>1, <2>3 DEF TreeFits, OfNode, Drawn
<1>4. QED
  BY <1>2, <1>3

LEMMA ReadsColumnsOn ==
    ASSUME CaInv, NEW r \in reads, ReadsColumns(r)
    PROVE  TreeFits'
<1>1. TreeFits /\ UNCHANGED <<endpoint, node, refreshes>> /\ reads' \subseteq reads
  BY DEF CaInv, ReadsColumns
<1>2. /\ node # NoTable /\ r.of = node.dep /\ r.at = node.at /\ r.state = node.state
      /\ r.state \in {"loaded", "unloaded"}
  BY <1>1 DEF TreeFits
<1>3. PICK c : c = [dep |-> r.of, at |-> r.at]
  OBVIOUS
<1>4. shown' = c /\ c.dep = node.dep /\ c.at = node.at
  BY <1>2, <1>3 DEF ReadsColumns
<1>5. CASE r.state # "loaded"
  <2>1. justLoaded' = c /\ loadedTables' = c /\ redraw' = TRUE
    <3>1. Fires(r)
      BY <1>2 DEF Fires
    <3>2. redraw' = (redraw \/ Fires(r)) /\ justLoaded' = c /\ loadedTables' = c
      BY <1>3, <1>5 DEF ReadsColumns
    <3>3. QED
      BY <3>1, <3>2
  <2>2. QED
    BY <1>1, <1>2, <1>4, <2>1 DEF TreeFits, OfNode, Drawn
<1>6. CASE r.state = "loaded"
  <2>1. UNCHANGED <<justLoaded, loadedTables, redraw>>
    BY <1>6 DEF ReadsColumns
  <2>2. QED
    BY <1>1, <1>2, <1>4, <1>6, <2>1 DEF TreeFits, OfNode, Drawn
<1>7. QED
  BY <1>5, <1>6

LEMMA RedrawsOn ==
    ASSUME CaInv, Redraws
    PROVE  TreeFits'
<1>1. TreeFits /\ node # NoTable /\ redraw' = FALSE
      /\ UNCHANGED <<endpoint, shown, justLoaded, loadedTables, reads, refreshes>>
  BY DEF CaInv, Redraws, TreeFits
<1>2. PICK i : i = IconOf(node.state) /\ node' = [node EXCEPT !.icon = i]
  BY DEF Redraws
<1>3. node \in Tree
  BY <1>1 DEF TreeFits
<1>4. i \in {"loaded", "unloaded"} /\ (loadedTables # NoColumns \/ node.state = "loaded" => i = "loaded")
  BY <1>2, <1>3 DEF IconOf, Tree
<1>5. /\ node' \in Tree /\ node'.dep = node.dep /\ node'.at = node.at
      /\ node'.state = node.state /\ node'.icon = i
  BY <1>2, <1>3, <1>4 DEF Tree
<1>6. node' # NoTable
  BY <1>5 DEF Tree, NoTable
<1>7. QED
  BY <1>1, <1>4, <1>5, <1>6 DEF TreeFits, OfNode, Drawn

LEMMA TreeStays ==
    ASSUME CaInv, UNCHANGED <<endpoint, tree>>
    PROVE  TreeFits'
BY DEF CaInv, TreeFits, OfNode, Drawn, tree

LEMMA CaStep ==
    ASSUME CaInv, [CaNext]_caVars, "meanwhile" \notin CaMayMeet
    PROVE  CaInv'
<1>1. AccountsFit /\ CommandFits /\ TreeFits /\ TokenFitsSession
  BY DEF CaInv
<1>2. CASE TreeSteps
  <2>1. UNCHANGED <<signedIn, sessionOf, cmd>>
    BY <1>2 DEF TreeSteps, Refreshes, ListsTable, ExpandsTable, Redraws, Reads, LoadsIntoMemory,
       ReadsColumns, FailsRead, accounts
  <2>2. AccountsFit' /\ CommandFits'
    BY <1>1, <2>1 DEF AccountsFit, CommandFits, EveryCommandIsAnswered
  <2>3. TreeFits'
    BY <1>2, RefreshesOn, ListsTableOn, ExpandsTableOn, ReadOn, ReadsColumnsOn, RedrawsOn
    DEF TreeSteps, Reads
  <2>4. TokenFitsSession'
    BY <1>2, TokensOn DEF CaNext, TreeSteps
  <2>5. QED
    BY <2>2, <2>3, <2>4 DEF CaInv
<1>3. CASE WorldSteps
  <2>1. UNCHANGED <<endpoint, tree, cmd>>
    BY <1>3 DEF WorldSteps, SessionDies, Connects, DropsTable, SignsInOrOut
  <2>2. AccountsFit'
    <3>1. CASE UNCHANGED signedIn
      <4>1. UNCHANGED sessionOf
            \/ \E d \in Deployments, n \in {0, 2} : sessionOf' = [sessionOf EXCEPT ![d] = n]
        BY <1>3 DEF WorldSteps, SessionDies, Connects, DropsTable, SignsInOrOut, accounts
      <4>2. QED
        BY <1>1, <3>1, <4>1 DEF AccountsFit
    <3>2. ASSUME NEW a \in Accounts, SignsInOrOut(a) PROVE AccountsFit'
      BY <1>1, <3>2 DEF SignsInOrOut, AccountsFit
    <3>3. QED
      BY <1>3, <3>1, <3>2 DEF WorldSteps, SessionDies, Connects, DropsTable, accounts
  <2>3. CommandFits' /\ TreeFits'
    BY <1>1, <2>1, TreeStays DEF CommandFits, EveryCommandIsAnswered
  <2>4. TokenFitsSession'
    BY <1>3, TokensOn DEF CaNext, WorldSteps
  <2>5. QED
    BY <2>2, <2>3, <2>4 DEF CaInv
<1>4. CASE CommandSteps
  <2>1. UNCHANGED <<endpoint, tree, signedIn>>
        /\ (UNCHANGED sessionOf \/ sessionOf' = [sessionOf EXCEPT ![cmd.dep] = 0])
    BY <1>4 DEF CommandSteps, BeginsInsert, BeginsRefresh, BeginsAt, GetsServers, PicksServer,
       GetsConnection, ListsAccounts, GetsSession, WritesToken, CancelsCommand, accounts
  <2>2. AccountsFit'
    BY <1>1, <2>1 DEF AccountsFit
  <2>3. CommandFits' /\ TreeFits'
    <3>1. CommandKnown
      BY <1>1 DEF CommandKnown, TreeFits
    <3>2. QED
      BY <1>4, <2>1, <3>1, CommandOn, TreeStays
  <2>4. TokenFitsSession'
    BY <1>4, TokensOn DEF CaNext, CommandSteps
  <2>5. QED
    BY <2>2, <2>3, <2>4 DEF CaInv
<1>5. CASE UNCHANGED caVars
  BY <1>1, <1>5, TreeStays DEF caVars, accounts, CaInv, AccountsFit, CommandFits,
     EveryCommandIsAnswered, TokenFitsSession
<1>6. QED
  BY <1>2, <1>3, <1>4, <1>5 DEF CaNext, TreeSteps, WorldSteps, CommandSteps

(* A token goes only to the deployment that issued it; a command that ends *)
(* without a word was cancelled or dismissed; the columns drawn of a table *)
(* were read from the deployment the tree is of since it was refreshed,    *)
(* and the table is drawn as loaded: for any number of deployments, people *)
(* and column requests, if no refresh comes while columns are being read   *)
(* (src/cas/casSession.ts, casConnectCommand.ts, casTree.ts).              *)
THEOREM CasHolds ==
    ASSUME "meanwhile" \notin CaMayMeet
    PROVE  SessionDataSpec => []CasIsOwn
<1>1. SessionDataInit => CaInv
  <2> SUFFICES ASSUME CaInit PROVE CaInv
    BY DEF SessionDataInit
  <2>1. AccountsFit /\ TokenFitsSession
    BY DEF CaInit, AccountsFit, TokenFitsSession
  <2>2. CommandFits
    <3>1. NoCommand \in Commands
      BY DEF NoCommand, Commands, NoAccount
    <3>2. NoCommand.step = "idle" /\ NoCommand.answer = "none"
      BY DEF NoCommand
    <3>3. QED
      BY <3>1, <3>2 DEF CaInit, CommandFits, EveryCommandIsAnswered
  <2>3. TreeFits
    <3>1. NoTable.state # "loaded"
      BY DEF NoTable
    <3>2. QED
      BY <3>1 DEF CaInit, TreeFits, OfNode, Drawn
  <2>4. QED
    BY <2>1, <2>2, <2>3 DEF CaInv
<1>2. CaInv /\ [SessionDataNext]_sessionDataVars => CaInv'
  BY CaPartsStep, CaStep
<1>3. CaInv => CasIsOwn
  BY DEF CaInv, CommandFits, TreeFits, OfNode, Drawn, CasIsOwn, ShownIsCurrent, IconFits
<1>4. QED
  BY <1>1, <1>2, <1>3, PTL DEF SessionDataSpec

-----------------------------------------------------------------------------
(* Rich output, of one window: what a listing before the job does not have *)
(* as it is now, the job has written.                                      *)
SessionFile == [size : Nat, by : Nat, shows : BOOLEAN]
RunPhases == {"idle", "starting", "running", "listing", "capturing", "deleting"}
RcTypes ==
    /\ directory \in [RichFiles -> SessionFile]
    /\ phase \in [Backends -> RunPhases] /\ job \in [Backends -> 0..MaxJobs] /\ jobs \in 0..MaxJobs
    /\ before = [x \in Backends |-> before[x]] /\ after = [x \in Backends |-> after[x]]
    /\ candidates \in [Backends -> SUBSET RichFiles]
    /\ fetched = [x \in Backends |-> fetched[x]]
    /\ emptyOdsBodySize \in [Backends -> {0, EmptySize}]
    /\ wrote \in [Jobs -> SUBSET (RichFiles \X BOOLEAN)]

DirectoryFits ==
    /\ \A n \in RichFiles : directory[n] # NoSessionFile =>
          directory[n].size >= 1 /\ directory[n].by >= 1 /\ directory[n].by <= jobs
    /\ \A n \in Figures : directory[n] # NoSessionFile => directory[n].shows
    /\ directory[Ods] # NoSessionFile =>
          (directory[Ods].shows <=> directory[Ods].size # EmptySize)
    /\ \A j \in Jobs : j > jobs => wrote[j] = {}

SameAsBefore(b, n) ==
    IF directory[n] = NoSessionFile THEN n \notin DOMAIN before[b]
    ELSE n \in DOMAIN before[b] /\ before[b][n] = directory[n].size
Said(b, w) ==
    w[2] => \/ <<job[b], w[1]>> \in noted
            \/ \E c \in captured : c.file = w[1] /\ c.in = job[b]
HasWritten(b, w) ==
    /\ directory[w[1]].by = job[b]
    /\ \/ before[b] = NoListing \/ w[1] \notin DOMAIN before[b]
       \/ before[b][w[1]] # directory[w[1]].size

RunFits(b) ==
    /\ job[b] <= jobs
    /\ phase[b] \in {"idle", "starting"} /\ job[b] # 0 =>
          \A w \in wrote[job[b]] : Said(b, w)
    /\ phase[b] = "starting" =>
          before[b] = NoListing \/ \A n \in RichFiles : SameAsBefore(b, n)
    /\ phase[b] \in {"running", "listing", "capturing", "deleting"} => job[b] >= 1
    /\ phase[b] \in {"running", "listing"} =>
          /\ \A n \in Figures :
                before[b] = NoListing \/ directory[n].by = job[b] \/ SameAsBefore(b, n)
          /\ \A w \in wrote[job[b]] : w[1] # Ods /\ w[2] => HasWritten(b, w)
          /\ \A w \in wrote[job[b]] : w[1] = Ods => phase[b] = "listing" /\ directory[Ods].shows
    /\ phase[b] = "listing" => directory[Ods].by = job[b]
    /\ phase[b] \in {"capturing", "deleting"} =>
          /\ \A n \in candidates[b] : directory[n].by = job[b] /\ after[b][n] = directory[n].size
          /\ Ods \in candidates[b] =>
                \A w \in wrote[job[b]] : w[1] = Ods => directory[Ods].shows
          /\ \A w \in wrote[job[b]] : Said(b, w) \/ w[1] \in candidates[b]
    /\ phase[b] = "deleting" =>
          /\ fetched[b] \in RichFiles \ candidates[b]
          /\ \E c \in captured : c.file = fetched[b] /\ c.by = directory[fetched[b]].by

RcInv(b) == RcTypes /\ DirectoryFits /\ RunFits(b) /\ ShowsItsOwn /\ OnlyShownIsDeleted

LEMMA RcPartsStep ==
    ASSUME [SessionDataNext]_sessionDataVars
    PROVE  [RcNext]_rcVars
BY DEF SessionDataNext, ViewerSteps, ExportSteps, CasSteps, FilerefSteps, RichSteps,
       sessionDataVars

LEMMA ListingIs ==
    \A n \in RichFiles :
        /\ n \in DOMAIN Listing <=> directory[n] # NoSessionFile
        /\ directory[n] # NoSessionFile => Listing[n] = directory[n].size
BY DEF Listing

LEMMA RcFacts ==
    ASSUME RcTypes
    PROVE  /\ MaxJobs \in Nat /\ jobs \in Nat /\ Ods \in RichFiles /\ Ods \notin Figures
           /\ Figures \subseteq RichFiles /\ \A n \in RichFiles : n # Ods => n \in Figures
           /\ Sizes \subseteq Nat \ {0} /\ NoSessionFile \in SessionFile /\ EmptySize = 1
BY RcAssumption DEF RcTypes, RichFiles, NoSessionFile, SessionFile, EmptySize

LEMMA ListsBeforeOn ==
    ASSUME NEW b \in Backends, RcInv(b), ListsBefore(b)
    PROVE  RcInv(b)'
<1>1. /\ phase[b] = "idle" /\ phase' = [phase EXCEPT ![b] = "starting"]
      /\ UNCHANGED <<directory, job, after, candidates, fetched, emptyOdsBodySize, jobs, wrote,
                     captured, noted, unseen>>
  BY DEF ListsBefore, BackendGoes, results
<1>2. PICK l : before' = [before EXCEPT ![b] = l] /\ l \in {Listing, NoListing}
  BY DEF ListsBefore
<1>3. RcTypes /\ DirectoryFits /\ RunFits(b)
  BY DEF RcInv
<1>4. RcTypes'
  BY <1>1, <1>2, <1>3 DEF RcTypes, RunPhases
<1>5. before'[b] = l /\ phase'[b] = "starting"
  BY <1>1, <1>2, <1>3 DEF RcTypes
<1>6. before'[b] = NoListing \/ \A n \in RichFiles : SameAsBefore(b, n)'
  BY <1>1, <1>2, <1>5, ListingIs DEF SameAsBefore
<1>7. RunFits(b)'
  BY <1>1, <1>3, <1>5, <1>6 DEF RunFits, Said
<1>8. DirectoryFits' /\ ShowsItsOwn' /\ OnlyShownIsDeleted'
  BY <1>1, <1>3 DEF RcInv, DirectoryFits, ShowsItsOwn, OnlyShownIsDeleted
<1>9. QED
  BY <1>4, <1>7, <1>8 DEF RcInv

LEMMA CreatesJobOn ==
    ASSUME NEW b \in Backends, RcInv(b), CreatesJob(b)
    PROVE  RcInv(b)'
<1>1. /\ phase[b] = "starting" /\ phase' = [phase EXCEPT ![b] = "running"] /\ jobs < MaxJobs
      /\ jobs' = jobs + 1 /\ job' = [job EXCEPT ![b] = jobs + 1]
      /\ UNCHANGED <<directory, before, after, candidates, fetched, emptyOdsBodySize, wrote,
                     captured, noted, unseen>>
  BY DEF CreatesJob, BackendGoes, results, rcListings
<1>2. RcTypes /\ DirectoryFits /\ RunFits(b) /\ MaxJobs \in Nat /\ jobs \in Nat
  BY RcFacts DEF RcInv
<1>3. RcTypes'
  BY <1>1, <1>2 DEF RcTypes, RunPhases
<1>4. job'[b] = jobs + 1 /\ phase'[b] = "running" /\ jobs + 1 \in Jobs
  BY <1>1, <1>2 DEF RcTypes, Jobs
<1>5. wrote'[jobs + 1] = {}
  BY <1>1, <1>2, <1>4 DEF DirectoryFits
<1>6. \A n \in Figures : before'[b] = NoListing \/ SameAsBefore(b, n)'
  BY <1>1, <1>2, RcFacts DEF RunFits, SameAsBefore
<1>7. RunFits(b)'
  BY <1>1, <1>2, <1>4, <1>5, <1>6 DEF RunFits
<1>8. DirectoryFits'
  <2>1. \A n \in RichFiles : directory[n].by \in Nat
    BY <1>2 DEF RcTypes, SessionFile
  <2>2. \A n \in RichFiles : directory[n].by <= jobs => directory[n].by <= jobs + 1
    BY <1>2, <2>1
  <2>3. \A j \in Jobs : j > jobs + 1 => j > jobs
    BY <1>2 DEF Jobs
  <2>4. QED
    BY <1>1, <1>2, <2>2, <2>3 DEF DirectoryFits
<1>9. ShowsItsOwn' /\ OnlyShownIsDeleted'
  BY <1>1 DEF RcInv, ShowsItsOwn, OnlyShownIsDeleted
<1>10. QED
  BY <1>3, <1>7, <1>8, <1>9 DEF RcInv

LEMMA WritesFileOn ==
    ASSUME NEW b \in Backends, RcInv(b), WritesFile(b)
    PROVE  RcInv(b)'
<1>1. RcTypes /\ DirectoryFits /\ RunFits(b) /\ MaxJobs \in Nat /\ jobs \in Nat
  BY RcFacts DEF RcInv
<1>2. PICK n \in Figures, s \in Sizes :
       /\ directory[n].by # job[b]
       /\ directory' = [directory EXCEPT ![n] = [size |-> s, by |-> job[b], shows |-> TRUE]]
       /\ wrote' = [wrote EXCEPT ![job[b]] = @ \cup {<<n, directory[n].size # s>>}]
  BY DEF WritesFile
<1>3. phase[b] = "running" /\ UNCHANGED <<phase, job, before, after, candidates, fetched,
                                          emptyOdsBodySize, jobs, captured, noted, unseen>>
  BY DEF WritesFile, rcListings, results
<1>4. /\ job[b] >= 1 /\ job[b] \in Jobs /\ job[b] <= jobs /\ n \in RichFiles /\ n # Ods
      /\ s \in Nat /\ s >= 1 /\ job[b] \in Nat
  BY <1>1, <1>3, RcFacts DEF RunFits, RcTypes, Jobs
<1> DEFINE f == [size |-> s, by |-> job[b], shows |-> TRUE]
<1>w. PICK w0 : w0 = <<n, directory[n].size # s>>
  OBVIOUS
<1>5. f \in SessionFile /\ f.size = s /\ f.by = job[b] /\ f.shows /\ f # NoSessionFile
  <2>1. f \in SessionFile
    BY <1>4 DEF SessionFile
  <2>2. f.size = s /\ f.by = job[b] /\ f.shows /\ NoSessionFile.size = 0 /\ s # 0
    BY <1>4 DEF NoSessionFile
  <2>3. QED
    <3> HIDE DEF f
    <3> QED
      BY <2>1, <2>2
<1>6. /\ directory'[n] = f /\ \A m \in RichFiles : m # n => directory'[m] = directory[m]
      /\ directory' \in [RichFiles -> SessionFile]
  BY <1>1, <1>2, <1>4, <1>5 DEF RcTypes
<1>7. w0 \in RichFiles \X BOOLEAN /\ w0[1] = n /\ (w0[2] <=> directory[n].size # s)
  BY <1>4, <1>w
<1> HIDE DEF f
<1>8. /\ wrote'[job[b]] = wrote[job[b]] \cup {w0} /\ wrote' \in [Jobs -> SUBSET (RichFiles \X BOOLEAN)]
      /\ \A j \in Jobs : j # job[b] => wrote'[j] = wrote[j]
  <2>1. wrote' = [wrote EXCEPT ![job[b]] = @ \cup {w0}]
    BY <1>2, <1>w
  <2>2. QED
    BY <1>1, <1>4, <1>7, <2>1 DEF RcTypes
<1>9. RcTypes'
  BY <1>1, <1>3, <1>6, <1>8 DEF RcTypes
<1>10. DirectoryFits'
  <2>1. \A m \in RichFiles : directory'[m] # NoSessionFile =>
           directory'[m].size >= 1 /\ directory'[m].by >= 1 /\ directory'[m].by <= jobs
    BY <1>1, <1>4, <1>5, <1>6 DEF DirectoryFits
  <2>2. \A m \in Figures : directory'[m] # NoSessionFile => directory'[m].shows
    BY <1>1, <1>5, <1>6, RcFacts DEF DirectoryFits
  <2>3. directory'[Ods] = directory[Ods]
    BY <1>1, <1>4, <1>6, RcFacts
  <2>4. \A j \in Jobs : j > jobs => wrote'[j] = {}
    BY <1>1, <1>4, <1>8 DEF DirectoryFits, Jobs
  <2>5. QED
    BY <1>1, <1>3, <2>1, <2>2, <2>3, <2>4 DEF DirectoryFits
<1>11. before[b] = NoListing \/ SameAsBefore(b, n)
  BY <1>1, <1>2, <1>3 DEF RunFits
<1>12. w0[2] => HasWritten(b, w0)'
  BY <1>3, <1>5, <1>6, <1>7, <1>11 DEF HasWritten, SameAsBefore
<1>13. \A w \in wrote[job[b]] : w[1] # Ods /\ w[2] => HasWritten(b, w)'
  <2> SUFFICES ASSUME NEW w \in wrote[job[b]], w[1] # Ods, w[2] PROVE HasWritten(b, w)'
    OBVIOUS
  <2>1. HasWritten(b, w) /\ w[1] \in RichFiles
    BY <1>1, <1>3, <1>4 DEF RunFits, RcTypes
  <2>2. w[1] # n
    BY <1>2, <2>1 DEF HasWritten
  <2>3. QED
    BY <1>3, <1>6, <2>1, <2>2 DEF HasWritten
<1>14. \A w \in wrote'[job[b]] : w[1] # Ods /\ w[2] => HasWritten(b, w)'
  BY <1>8, <1>12, <1>13 DEF HasWritten
<1>15. \A w \in wrote'[job[b]] : w[1] # Ods
  BY <1>1, <1>3, <1>4, <1>7, <1>8 DEF RunFits
<1>16. \A m \in Figures :
         before[b] = NoListing \/ directory'[m].by = job[b] \/ SameAsBefore(b, m)'
  <2> SUFFICES ASSUME NEW m \in Figures, m # n
               PROVE  before[b] = NoListing \/ directory'[m].by = job[b] \/ SameAsBefore(b, m)'
    BY <1>5, <1>6
  <2>1. directory'[m] = directory[m]
    BY <1>1, <1>6, RcFacts
  <2>2. QED
    BY <1>1, <1>3, <2>1 DEF RunFits, SameAsBefore
<1>17. RunFits(b)'
  BY <1>3, <1>4, <1>14, <1>15, <1>16 DEF RunFits
<1>18. ShowsItsOwn' /\ OnlyShownIsDeleted'
  BY <1>3 DEF RcInv, ShowsItsOwn, OnlyShownIsDeleted
<1>19. QED
  BY <1>9, <1>10, <1>17, <1>18 DEF RcInv

(* The body of ODS that a job leaves.                                      *)
LEMMA BodyIs ==
    ASSUME RcTypes, NEW b \in Backends, job[b] >= 1, NEW body \in OdsBodies(b)
    PROVE  /\ body \in SessionFile /\ body.size >= 1 /\ body.by = job[b]
           /\ body.shows <=> body.size # EmptySize
<1>1. job[b] \in Nat
  BY RcFacts DEF RcTypes
<1>2. CASE body = [size |-> EmptySize, by |-> job[b], shows |-> FALSE]
  BY <1>1, <1>2, RcFacts DEF SessionFile
<1>3. ASSUME NEW s \in Sizes \ {EmptySize}, body = [size |-> s, by |-> job[b], shows |-> TRUE]
      PROVE  /\ body \in SessionFile /\ body.size >= 1 /\ body.by = job[b]
             /\ body.shows <=> body.size # EmptySize
  <2>1. s \in Nat /\ s >= 1 /\ s # EmptySize
    BY RcFacts
  <2>2. QED
    BY <1>1, <1>3, <2>1 DEF SessionFile
<1>4. QED
  BY <1>2, <1>3 DEF OdsBodies

LEMMA BodyOn ==
    ASSUME NEW b \in Backends, RcTypes, DirectoryFits, job[b] >= 1, job[b] <= jobs,
           NEW body \in {directory[Ods]} \cup OdsBodies(b),
           directory' = [directory EXCEPT ![Ods] = body]
    PROVE  /\ directory' \in [RichFiles -> SessionFile] /\ directory'[Ods] = body
           /\ \A n \in Figures : directory'[n] = directory[n]
           /\ \A n \in RichFiles : directory'[n] # NoSessionFile =>
                 directory'[n].size >= 1 /\ directory'[n].by >= 1 /\ directory'[n].by <= jobs
           /\ \A n \in Figures : directory'[n] # NoSessionFile => directory'[n].shows
           /\ directory'[Ods] # NoSessionFile =>
                 (directory'[Ods].shows <=> directory'[Ods].size # EmptySize)
<1>1. body \in SessionFile /\ Ods \in RichFiles /\ Ods \notin Figures /\ Figures \subseteq RichFiles
  BY BodyIs, RcFacts DEF RcTypes
<1>2. directory'[Ods] = body /\ directory' \in [RichFiles -> SessionFile]
      /\ \A n \in RichFiles : n # Ods => directory'[n] = directory[n]
  BY <1>1 DEF RcTypes
<1>3. body # NoSessionFile =>
        /\ body.size >= 1 /\ body.by >= 1 /\ body.by <= jobs
        /\ body.shows <=> body.size # EmptySize
  <2>1. CASE body = directory[Ods]
    BY <1>1, <2>1 DEF DirectoryFits
  <2>2. CASE body \in OdsBodies(b)
    BY <2>2, BodyIs
  <2>3. QED
    BY <2>1, <2>2
<1>4. QED
  BY <1>1, <1>2, <1>3 DEF DirectoryFits

LEMMA EndsJobOn ==
    ASSUME NEW b \in Backends, RcInv(b), EndsJob(b)
    PROVE  RcInv(b)'
<1>1. RcTypes /\ DirectoryFits /\ RunFits(b)
  BY DEF RcInv
<1>2. PICK body \in OdsBodies(b) :
       /\ directory' = [directory EXCEPT ![Ods] = body]
       /\ wrote' = [wrote EXCEPT ![job[b]] = @ \cup (IF body.shows THEN {<<Ods, TRUE>>} ELSE {})]
  BY DEF EndsJob
<1>3. phase[b] = "running" /\ phase' = [phase EXCEPT ![b] = "listing"]
      /\ UNCHANGED <<job, before, after, candidates, fetched, emptyOdsBodySize, jobs, captured,
                     noted, unseen>>
  BY DEF EndsJob, rcListings, results, BackendGoes
<1>4. job[b] >= 1 /\ job[b] <= jobs /\ job[b] \in Jobs /\ job[b] \in Nat /\ jobs \in Nat
  BY <1>1, <1>3, RcFacts DEF RunFits, RcTypes, Jobs
<1>5. /\ directory' \in [RichFiles -> SessionFile] /\ directory'[Ods] = body
      /\ \A n \in Figures : directory'[n] = directory[n]
      /\ \A n \in RichFiles : directory'[n] # NoSessionFile =>
            directory'[n].size >= 1 /\ directory'[n].by >= 1 /\ directory'[n].by <= jobs
      /\ \A n \in Figures : directory'[n] # NoSessionFile => directory'[n].shows
      /\ directory'[Ods] # NoSessionFile =>
            (directory'[Ods].shows <=> directory'[Ods].size # EmptySize)
  BY <1>1, <1>2, <1>4, BodyOn
<1>6. PICK more : more = IF body.shows THEN {<<Ods, TRUE>>} ELSE {}
  OBVIOUS
<1>7. more \in SUBSET (RichFiles \X BOOLEAN)
      /\ \A w \in more : w[1] = Ods /\ body.shows
  <2>1. \A w \in more : w = <<Ods, TRUE>> /\ body.shows
    BY <1>6
  <2>2. <<Ods, TRUE>> \in RichFiles \X BOOLEAN
    BY <1>1, RcFacts
  <2>3. more \subseteq RichFiles \X BOOLEAN
    BY <2>1, <2>2
  <2>4. \A w \in more : w[1] = Ods
    <3>1. \A t : t = <<Ods, TRUE>> => t[1] = Ods
      OBVIOUS
    <3>2. QED
      BY <2>1, <3>1
  <2>5. QED
    BY <2>1, <2>3, <2>4
<1>8. /\ wrote'[job[b]] = wrote[job[b]] \cup more
      /\ wrote' \in [Jobs -> SUBSET (RichFiles \X BOOLEAN)]
      /\ \A j \in Jobs : j # job[b] => wrote'[j] = wrote[j]
  <2>1. wrote' = [wrote EXCEPT ![job[b]] = @ \cup more]
    BY <1>2, <1>6
  <2>2. QED
    BY <1>1, <1>4, <1>7, <2>1 DEF RcTypes
<1>9. RcTypes'
  BY <1>1, <1>3, <1>5, <1>8 DEF RcTypes, RunPhases
<1>10. \A j \in Jobs : j > jobs => wrote'[j] = {}
  BY <1>1, <1>4, <1>8 DEF DirectoryFits, Jobs
<1>11. DirectoryFits'
  BY <1>3, <1>5, <1>10 DEF DirectoryFits
<1>12. phase'[b] = "listing" /\ directory'[Ods].by = job[b]
  BY <1>1, <1>2, <1>3, <1>4, <1>5, BodyIs DEF RcTypes
<1>13. \A n \in Figures :
         before[b] = NoListing \/ directory'[n].by = job[b] \/ SameAsBefore(b, n)'
  BY <1>1, <1>3, <1>5 DEF RunFits, SameAsBefore
<1>14. \A w \in wrote'[job[b]] : w[1] # Ods /\ w[2] => HasWritten(b, w)'
  <2> SUFFICES ASSUME NEW w \in wrote'[job[b]], w[1] # Ods, w[2] PROVE HasWritten(b, w)'
    OBVIOUS
  <2>1. w \in wrote[job[b]] /\ w[1] \in Figures
    <3>1. w \in wrote[job[b]]
      BY <1>7, <1>8
    <3>2. w \in RichFiles \X BOOLEAN
      BY <1>4, <1>8
    <3>3. w[1] \in RichFiles
      BY <3>2
    <3>4. QED
      BY <1>1, <3>1, <3>3, RcFacts
  <2>2. HasWritten(b, w)
    BY <1>1, <1>3, <2>1 DEF RunFits
  <2>3. QED
    BY <1>3, <1>5, <2>1, <2>2 DEF HasWritten
<1>15. \A w \in wrote'[job[b]] : w[1] = Ods => directory'[Ods].shows
  BY <1>1, <1>3, <1>5, <1>7, <1>8 DEF RunFits
<1>16. RunFits(b)'
  BY <1>3, <1>4, <1>12, <1>13, <1>14, <1>15 DEF RunFits
<1>17. ShowsItsOwn' /\ OnlyShownIsDeleted'
  BY <1>3 DEF RcInv, ShowsItsOwn, OnlyShownIsDeleted
<1>18. QED
  BY <1>9, <1>11, <1>16, <1>17 DEF RcInv

LEMMA CancelsRunOn ==
    ASSUME NEW b \in Backends, RcInv(b), CancelsRun(b)
    PROVE  RcInv(b)'
<1>1. RcTypes /\ DirectoryFits /\ RunFits(b)
  BY DEF RcInv
<1>2. phase[b] \in {"starting", "running"} /\ phase' = [phase EXCEPT ![b] = "idle"]
      /\ UNCHANGED <<job, before, after, candidates, fetched, emptyOdsBodySize, jobs, captured,
                     noted, unseen>>
  BY DEF CancelsRun, rcListings, results, BackendGoes
<1>3. phase'[b] = "idle" /\ ShowsItsOwn' /\ OnlyShownIsDeleted'
  BY <1>1, <1>2 DEF RcTypes, RcInv, ShowsItsOwn, OnlyShownIsDeleted
<1>4. CASE phase[b] = "starting"
  <2>1. UNCHANGED <<wrote, directory>>
    BY <1>4 DEF CancelsRun
  <2>2. RcTypes' /\ DirectoryFits'
    BY <1>1, <1>2, <2>1 DEF RcTypes, DirectoryFits, RunPhases
  <2>3. RunFits(b)'
    BY <1>1, <1>2, <1>3, <1>4, <2>1 DEF RunFits, Said
  <2>4. QED
    BY <1>3, <2>2, <2>3 DEF RcInv
<1>5. CASE phase[b] = "running"
  <2>1. wrote' = [wrote EXCEPT ![job[b]] = {}]
    BY <1>5 DEF CancelsRun
  <2>2. PICK body \in {directory[Ods]} \cup OdsBodies(b) :
          directory' = [directory EXCEPT ![Ods] = body]
    BY <1>5 DEF CancelsRun
  <2>3. job[b] >= 1 /\ job[b] <= jobs /\ job[b] \in Jobs /\ jobs \in Nat
    BY <1>1, <1>5, RcFacts DEF RunFits, RcTypes, Jobs
  <2>4. /\ directory' \in [RichFiles -> SessionFile]
        /\ \A n \in RichFiles : directory'[n] # NoSessionFile =>
              directory'[n].size >= 1 /\ directory'[n].by >= 1 /\ directory'[n].by <= jobs
        /\ \A n \in Figures : directory'[n] # NoSessionFile => directory'[n].shows
        /\ directory'[Ods] # NoSessionFile =>
              (directory'[Ods].shows <=> directory'[Ods].size # EmptySize)
    BY <1>1, <2>2, <2>3, BodyOn
  <2>5. wrote' \in [Jobs -> SUBSET (RichFiles \X BOOLEAN)] /\ wrote'[job[b]] = {}
        /\ \A j \in Jobs : wrote'[j] = wrote[j] \/ wrote'[j] = {}
    BY <1>1, <2>1, <2>3 DEF RcTypes
  <2>6. RcTypes'
    BY <1>1, <1>2, <2>4, <2>5 DEF RcTypes, RunPhases
  <2>7. DirectoryFits'
    BY <1>1, <1>2, <2>4, <2>5 DEF DirectoryFits
  <2>8. RunFits(b)'
    BY <1>2, <1>3, <2>3, <2>5 DEF RunFits
  <2>9. QED
    BY <1>3, <2>6, <2>7, <2>8 DEF RcInv
<1>6. QED
  BY <1>2, <1>4, <1>5

LEMMA ListsAfterOn ==
    ASSUME NEW b \in Backends, RcInv(b), ListsAfter(b)
    PROVE  RcInv(b)'
<1>1. RcTypes /\ DirectoryFits /\ RunFits(b)
  BY DEF RcInv
<1>2. phase[b] = "listing"
      /\ UNCHANGED <<directory, job, before, fetched, emptyOdsBodySize, jobs, wrote, captured,
                     unseen>>
  BY DEF ListsAfter
<1>3. PICK l \in {Listing, NoListing} : after' = [after EXCEPT ![b] = l]
  BY DEF ListsAfter
<1>4. after'[b] = l /\ after' = [x \in Backends |-> after'[x]]
  BY <1>1, <1>3 DEF RcTypes
<1>5. job[b] >= 1 /\ job[b] <= jobs /\ job[b] \in Jobs /\ jobs \in Nat
      /\ \A w \in wrote[job[b]] : w[1] \in RichFiles
  BY <1>1, <1>2, RcFacts DEF RunFits, RcTypes, Jobs
<1>6. DirectoryFits' /\ ShowsItsOwn' /\ OnlyShownIsDeleted'
  BY <1>1, <1>2 DEF DirectoryFits, RcInv, ShowsItsOwn, OnlyShownIsDeleted
<1>7. CASE before[b] = NoListing \/ l = NoListing
  <2>1. phase' = [phase EXCEPT ![b] = "idle"] /\ UNCHANGED candidates
        /\ noted' = noted \cup {<<job[b], n>> : n \in RichFiles}
    BY <1>4, <1>7 DEF ListsAfter, BackendGoes
  <2>2. RcTypes'
    BY <1>1, <1>2, <1>4, <2>1 DEF RcTypes, RunPhases
  <2>3. phase'[b] = "idle"
    BY <1>1, <2>1 DEF RcTypes
  <2>4. \A w \in wrote'[job'[b]] : Said(b, w)'
    BY <1>2, <1>5, <2>1 DEF Said
  <2>5. RunFits(b)'
    BY <1>2, <1>5, <2>3, <2>4 DEF RunFits
  <2>6. QED
    BY <1>6, <2>2, <2>5 DEF RcInv
<1>8. CASE before[b] # NoListing /\ l # NoListing
  <2>1. PICK C : /\ candidates' = [candidates EXCEPT ![b] = C]
                 /\ C = Candidates(b) \cup (IF SelectOdsBody(b) THEN {Ods} ELSE {})
    BY <1>4, <1>8 DEF ListsAfter
  <2>2. phase' = [phase EXCEPT ![b] = "capturing"] /\ UNCHANGED noted
    BY <1>4, <1>8 DEF ListsAfter, BackendGoes
  <2>3. /\ after'[b] = Listing /\ DOMAIN Listing \subseteq RichFiles
        /\ \A n \in RichFiles : n \in DOMAIN Listing =>
              directory[n] # NoSessionFile /\ Listing[n] = directory[n].size
    BY <1>4, <1>8, ListingIs DEF Listing
  <2>4. \A n \in RichFiles : directory[n].by = job[b] => n \in DOMAIN after'[b]
                                /\ after'[b][n] = directory[n].size
    <3> SUFFICES ASSUME NEW n \in RichFiles, directory[n].by = job[b]
                 PROVE  directory[n] # NoSessionFile
      BY <2>3, ListingIs
    <3>1. NoSessionFile.by = 0 /\ job[b] # 0
      BY <1>5 DEF NoSessionFile, Jobs
    <3>2. QED
      BY <3>1
  <2>5. \A n \in C : n \in RichFiles /\ directory[n].by = job[b]
    <3> SUFFICES ASSUME NEW n \in C PROVE n \in RichFiles /\ directory[n].by = job[b]
      OBVIOUS
    <3>1. CASE n = Ods
      BY <1>1, <1>2, <3>1, RcFacts DEF RunFits
    <3>2. CASE n # Ods
      <4>1. n \in DOMAIN after'[b] /\ (n \notin DOMAIN before[b] \/ before[b][n] # after'[b][n])
        BY <2>1, <3>2 DEF Candidates, ChangedSince
      <4>2. n \in Figures /\ n \in RichFiles
        BY <1>1, <2>3, <3>2, <4>1, RcFacts
      <4>3. directory[n] # NoSessionFile /\ after'[b][n] = directory[n].size
        BY <2>3, <4>1, <4>2
      <4>4. ~SameAsBefore(b, n)
        BY <4>1, <4>3 DEF SameAsBefore
      <4>5. QED
        BY <1>1, <1>2, <1>8, <4>2, <4>4 DEF RunFits
    <3>3. QED
      BY <3>1, <3>2
  <2>6. \A w \in wrote[job[b]] : w[2] => w[1] \in C
    <3> SUFFICES ASSUME NEW w \in wrote[job[b]], w[2] PROVE w[1] \in C
      OBVIOUS
    <3>1. CASE w[1] = Ods
      <4>1. directory[Ods].by = job[b] /\ directory[Ods].shows
        BY <1>1, <1>2, <3>1 DEF RunFits
      <4>2. Ods \in DOMAIN after'[b] /\ after'[b][Ods] = directory[Ods].size
            /\ directory[Ods] # NoSessionFile
        BY <1>1, <2>3, <2>4, <4>1, RcFacts
      <4>3. directory[Ods].size # EmptySize /\ directory[Ods].size # 0
        <5>1. directory[Ods].size >= 1 /\ directory[Ods].size # EmptySize
          BY <1>1, <4>1, <4>2, RcFacts DEF DirectoryFits
        <5>2. QED
          BY <5>1
      <4>4. emptyOdsBodySize[b] \in {0, EmptySize}
        BY <1>1 DEF RcTypes
      <4>5. SelectOdsBody(b)
        BY <4>2, <4>3, <4>4 DEF SelectOdsBody
      <4>6. QED
        BY <2>1, <3>1, <4>5
    <3>2. CASE w[1] # Ods
      <4>1. HasWritten(b, w) /\ w[1] \in RichFiles
        BY <1>1, <1>2, <1>5, <3>2 DEF RunFits
      <4>2. w[1] \in DOMAIN after'[b] /\ after'[b][w[1]] = directory[w[1]].size
        BY <2>4, <4>1 DEF HasWritten
      <4>3. w[1] \in Candidates(b)
        BY <1>8, <3>2, <4>1, <4>2 DEF Candidates, ChangedSince, HasWritten
      <4>4. QED
        BY <2>1, <4>3
    <3>3. QED
      BY <3>1, <3>2
  <2>7. phase'[b] = "capturing" /\ candidates'[b] = C
        /\ candidates' \in [Backends -> SUBSET RichFiles]
    BY <1>1, <2>1, <2>2, <2>5 DEF RcTypes
  <2>8. RcTypes'
    BY <1>1, <1>2, <1>4, <2>2, <2>7 DEF RcTypes, RunPhases
  <2>9. \A n \in C : directory'[n].by = job'[b] /\ after'[b][n] = directory'[n].size
    BY <1>2, <2>4, <2>5
  <2>10. \A w \in wrote'[job'[b]] : w[1] = Ods => directory'[Ods].shows
    BY <1>1, <1>2 DEF RunFits
  <2>11. \A w \in wrote'[job'[b]] : Said(b, w)' \/ w[1] \in C
    BY <1>2, <2>6 DEF Said
  <2>12. RunFits(b)'
    BY <1>2, <1>5, <2>7, <2>9, <2>10, <2>11 DEF RunFits
  <2>13. QED
    BY <1>6, <2>8, <2>12 DEF RcInv
<1>9. QED
  BY <1>7, <1>8

LEMMA SkipsFileOn ==
    ASSUME NEW b \in Backends, RcInv(b), SkipsFile(b)
    PROVE  RcInv(b)'
<1>1. RcTypes /\ DirectoryFits /\ RunFits(b)
  BY DEF RcInv
<1>2. PICK n \in candidates[b] :
        /\ candidates' = [candidates EXCEPT ![b] = @ \ {n}]
        /\ noted' = noted \cup {<<job[b], n>>} /\ UNCHANGED <<phase, fetched>>
  BY DEF SkipsFile, Spares
<1>3. phase[b] = "capturing" /\ UNCHANGED <<phase, directory, job, before, after, fetched,
                                            emptyOdsBodySize, jobs, wrote, captured, unseen>>
  BY <1>2 DEF SkipsFile, rcListings
<1>4. candidates'[b] = candidates[b] \ {n} /\ candidates' \in [Backends -> SUBSET RichFiles]
  BY <1>1, <1>2 DEF RcTypes
<1>5. RcTypes'
  BY <1>1, <1>3, <1>4 DEF RcTypes
<1>6. \A w \in wrote[job[b]] : Said(b, w)' \/ w[1] \in candidates'[b]
  <2>1. \A w \in wrote[job[b]] : Said(b, w) \/ w[1] \in candidates[b]
    BY <1>1, <1>3 DEF RunFits
  <2>2. QED
    BY <1>2, <1>3, <1>4, <2>1 DEF Said
<1>7. RunFits(b)'
  BY <1>1, <1>3, <1>4, <1>6 DEF RunFits
<1>8. DirectoryFits' /\ ShowsItsOwn' /\ OnlyShownIsDeleted'
  BY <1>1, <1>3 DEF DirectoryFits, RcInv, ShowsItsOwn, OnlyShownIsDeleted
<1>9. QED
  BY <1>5, <1>7, <1>8 DEF RcInv

LEMMA FetchesFileOn ==
    ASSUME NEW b \in Backends, RcInv(b), FetchesFile(b)
    PROVE  RcInv(b)'
<1>1. RcTypes /\ DirectoryFits /\ RunFits(b)
  BY DEF RcInv
<1>2. PICK n \in candidates[b] :
       /\ n = Ods => candidates[b] = {Ods}
       /\ directory[n] # NoSessionFile
       /\ candidates' = [candidates EXCEPT ![b] = @ \ {n}]
       /\ IF directory[n].shows
          THEN /\ captured' = captured \cup {[file |-> n, by |-> directory[n].by, in |-> job[b]]}
               /\ fetched' = [fetched EXCEPT ![b] = n] /\ BackendGoes(b, "deleting")
               /\ UNCHANGED emptyOdsBodySize
          ELSE /\ emptyOdsBodySize' = [emptyOdsBodySize EXCEPT ![b] = after[b][n]]
               /\ UNCHANGED <<captured, fetched, phase>>
  BY DEF FetchesFile
<1>3. phase[b] = "capturing"
      /\ UNCHANGED <<directory, job, before, after, jobs, wrote, noted, unseen>>
  BY DEF FetchesFile, rcListings
<1>4. /\ candidates'[b] = candidates[b] \ {n} /\ candidates' \in [Backends -> SUBSET RichFiles]
      /\ n \in RichFiles
  BY <1>1, <1>2 DEF RcTypes
<1>5. /\ \A m \in candidates[b] : directory[m].by = job[b] /\ after[b][m] = directory[m].size
      /\ \A w \in wrote[job[b]] : Said(b, w) \/ w[1] \in candidates[b]
      /\ job[b] >= 1 /\ job[b] <= jobs
  BY <1>1, <1>3 DEF RunFits
<1>6. DirectoryFits' /\ OnlyShownIsDeleted'
  BY <1>1, <1>3 DEF DirectoryFits, RcInv, OnlyShownIsDeleted
<1>7. Ods \in candidates'[b] =>
         \A w \in wrote[job[b]] : w[1] = Ods => directory[Ods].shows
  BY <1>1, <1>3, <1>4 DEF RunFits
<1>8. CASE directory[n].shows
  <2>1. PICK c : /\ c.file = n /\ c.by = directory[n].by /\ c.in = job[b]
                 /\ captured' = captured \cup {c}
    BY <1>2, <1>8
  <2>2. fetched' = [fetched EXCEPT ![b] = n] /\ phase' = [phase EXCEPT ![b] = "deleting"]
        /\ UNCHANGED emptyOdsBodySize
    BY <1>2, <1>8 DEF BackendGoes
  <2>3. /\ fetched'[b] = n /\ fetched' = [x \in Backends |-> fetched'[x]]
        /\ phase'[b] = "deleting" /\ phase' \in [Backends -> RunPhases]
    BY <1>1, <2>2 DEF RcTypes, RunPhases
  <2>4. RcTypes'
    BY <1>1, <1>3, <1>4, <2>2, <2>3 DEF RcTypes
  <2>5. \A w \in wrote[job[b]] : Said(b, w)' \/ w[1] \in candidates'[b]
    BY <1>3, <1>4, <1>5, <2>1 DEF Said
  <2>6. fetched'[b] \in RichFiles \ candidates'[b]
    BY <1>4, <2>3
  <2>7. \E d \in captured' : d.file = fetched'[b] /\ d.by = directory'[fetched'[b]].by
    BY <1>3, <2>1, <2>3
  <2>8. RunFits(b)'
    BY <1>3, <1>4, <1>5, <1>7, <2>3, <2>5, <2>6, <2>7 DEF RunFits
  <2>9. ShowsItsOwn'
    <3>1. c.in = c.by
      BY <1>2, <1>5, <2>1
    <3>2. QED
      BY <2>1, <3>1 DEF RcInv, ShowsItsOwn
  <2>10. QED
    BY <1>6, <2>4, <2>8, <2>9 DEF RcInv
<1>9. CASE ~directory[n].shows
  <2>1. emptyOdsBodySize' = [emptyOdsBodySize EXCEPT ![b] = after[b][n]]
        /\ UNCHANGED <<captured, fetched, phase>>
    BY <1>2, <1>9
  <2>2. n = Ods
    BY <1>1, <1>2, <1>4, <1>9, RcFacts DEF DirectoryFits
  <2>3. after[b][n] = EmptySize
    BY <1>1, <1>2, <1>5, <1>9, <2>2 DEF DirectoryFits
  <2>4. emptyOdsBodySize' \in [Backends -> {0, EmptySize}]
    BY <1>1, <2>1, <2>3 DEF RcTypes
  <2>5. RcTypes'
    BY <1>1, <1>3, <1>4, <2>1, <2>4 DEF RcTypes
  <2>6. \A w \in wrote[job[b]] : w[1] # Ods
    BY <1>1, <1>2, <1>3, <1>9, <2>2 DEF RunFits
  <2>7. \A w \in wrote[job[b]] : Said(b, w)' \/ w[1] \in candidates'[b]
    BY <1>3, <1>4, <1>5, <2>1, <2>2, <2>6 DEF Said
  <2>8. RunFits(b)'
    BY <1>3, <1>4, <1>5, <1>7, <2>1, <2>7 DEF RunFits
  <2>9. ShowsItsOwn'
    BY <2>1 DEF RcInv, ShowsItsOwn
  <2>10. QED
    BY <1>6, <2>5, <2>8, <2>9 DEF RcInv
<1>10. QED
  BY <1>8, <1>9

LEMMA DeletesFileOn ==
    ASSUME NEW b \in Backends, RcInv(b), DeletesFile(b)
    PROVE  RcInv(b)'
<1>1. RcTypes /\ DirectoryFits /\ RunFits(b)
  BY DEF RcInv
<1>2. phase[b] = "deleting" /\ phase' = [phase EXCEPT ![b] = "capturing"]
      /\ UNCHANGED <<job, before, after, candidates, fetched, emptyOdsBodySize, jobs, wrote,
                     captured, noted>>
  BY DEF DeletesFile, rcListings, BackendGoes
<1>3. /\ fetched[b] \in RichFiles \ candidates[b]
      /\ \E c \in captured : c.file = fetched[b] /\ c.by = directory[fetched[b]].by
  BY <1>1, <1>2 DEF RunFits
<1>4. UNCHANGED unseen
      /\ (UNCHANGED directory \/ directory' = [directory EXCEPT ![fetched[b]] = NoSessionFile])
  BY <1>3 DEF DeletesFile
<1>5. /\ directory' \in [RichFiles -> SessionFile]
      /\ \A n \in RichFiles : directory'[n] = directory[n] \/ directory'[n] = NoSessionFile
      /\ \A n \in candidates[b] : directory'[n] = directory[n]
  BY <1>1, <1>3, <1>4, RcFacts DEF RcTypes
<1>6. phase'[b] = "capturing"
  BY <1>1, <1>2 DEF RcTypes
<1>7. RcTypes'
  BY <1>1, <1>2, <1>5 DEF RcTypes, RunPhases
<1>8. DirectoryFits'
  BY <1>1, <1>2, <1>5, RcFacts DEF DirectoryFits
<1>9. \A w \in wrote'[job'[b]] : Said(b, w)' \/ w[1] \in candidates'[b]
  BY <1>1, <1>2 DEF RunFits, Said
<1>10. RunFits(b)'
  BY <1>1, <1>2, <1>5, <1>6, <1>9 DEF RunFits
<1>11. ShowsItsOwn' /\ OnlyShownIsDeleted'
  BY <1>2, <1>4 DEF RcInv, ShowsItsOwn, OnlyShownIsDeleted
<1>12. QED
  BY <1>7, <1>8, <1>10, <1>11 DEF RcInv

LEMMA IsDoneOn ==
    ASSUME NEW b \in Backends, RcInv(b), IsDone(b)
    PROVE  RcInv(b)'
<1>1. RcTypes /\ DirectoryFits /\ RunFits(b)
  BY DEF RcInv
<1>2. phase[b] = "capturing" /\ candidates[b] = {} /\ phase' = [phase EXCEPT ![b] = "idle"]
      /\ UNCHANGED <<directory, job, before, after, candidates, fetched, emptyOdsBodySize, jobs,
                     wrote, captured, noted, unseen>>
  BY DEF IsDone, rcListings, results, BackendGoes
<1>3. RcTypes' /\ phase'[b] = "idle"
  BY <1>1, <1>2 DEF RcTypes, RunPhases
<1>4. \A w \in wrote'[job'[b]] : Said(b, w)'
  BY <1>1, <1>2 DEF RunFits, Said
<1>5. RunFits(b)'
  BY <1>1, <1>2, <1>3, <1>4 DEF RunFits
<1>6. DirectoryFits' /\ ShowsItsOwn' /\ OnlyShownIsDeleted'
  BY <1>1, <1>2 DEF DirectoryFits, RcInv, ShowsItsOwn, OnlyShownIsDeleted
<1>7. QED
  BY <1>3, <1>5, <1>6 DEF RcInv

LEMMA RcStep ==
    ASSUME NEW b \in Backends, Backends = {b}, RcInv(b), [RcNext]_rcVars
    PROVE  RcInv(b)'
<1>1. CASE UNCHANGED rcVars
  BY <1>1 DEF rcVars, RcInv, RcTypes, DirectoryFits, RunFits, Said, SameAsBefore, HasWritten,
     ShowsItsOwn, OnlyShownIsDeleted
<1>2. CASE RcNext
  BY <1>2, ListsBeforeOn, CreatesJobOn, WritesFileOn, EndsJobOn, CancelsRunOn, ListsAfterOn,
     SkipsFileOn, FetchesFileOn, DeletesFileOn, IsDoneOn DEF RcNext
<1>3. QED
  BY <1>1, <1>2

(* A run of the one window at a session shows what its own program made,   *)
(* also after runs that were cancelled or could not delete theirs; what it *)
(* wrote anew has been shown or said to be left out by the time it is      *)
(* over; and nothing is deleted that was not shown: for any number of jobs, *)
(* files and sizes (captureRichOutput of src/backend/procPython.ts).       *)
THEOREM FiguresHold ==
    ASSUME NEW b, Backends = {b}
    PROVE  SessionDataSpec => []FiguresAreShown
<1>1. SessionDataInit => RcInv(b)
  <2> SUFFICES ASSUME RcInit PROVE RcInv(b)
    BY DEF SessionDataInit
  <2>1. NoSessionFile \in SessionFile /\ MaxJobs \in Nat
    BY RcAssumption DEF NoSessionFile, SessionFile
  <2>2. RcTypes
    BY <2>1 DEF RcInit, RcTypes, RunPhases, Jobs
  <2>3. DirectoryFits
    BY RcFacts, <2>2 DEF RcInit, DirectoryFits
  <2>4. RunFits(b)
    BY DEF RcInit, RunFits
  <2>5. ShowsItsOwn /\ OnlyShownIsDeleted
    BY DEF RcInit, ShowsItsOwn, OnlyShownIsDeleted
  <2>6. QED
    BY <2>2, <2>3, <2>4, <2>5 DEF RcInv
<1>2. RcInv(b) /\ [SessionDataNext]_sessionDataVars => RcInv(b)'
  BY RcPartsStep, RcStep
<1>3. RcInv(b) => FiguresAreShown
  BY DEF RcInv, RunFits, Said, FiguresAreShown, EveryFigureIsShown
<1>4. QED
  BY <1>1, <1>2, <1>3, PTL DEF SessionDataSpec

-----------------------------------------------------------------------------
(* The data viewer.  A view is of the order of whoever has it in hand; one  *)
(* request at a time makes or drops one.                                   *)
Busy == {"discard", "create", "refused"}
ViewerTypes ==
    /\ active \in Orders /\ grid \in Orders \cup {None}
    /\ held \in [view : Views \cup {None}, order : Orders \cup {None}]
    /\ views \in [Views -> Orders \cup {None}]
    /\ queue \in Seq(Requests)
    /\ requests \in [Requests -> [at : {"none"} \cup Phases, order : Orders \cup {None},
                                  known : BOOLEAN, view : Views \cup {None}]]

QueueFits ==
    /\ \A r \in Requests : requests[r].at \in Busy => queue # <<>> /\ Head(queue) = r
    /\ \A r \in Requests : requests[r].at = "queued" => \E i \in 1..Len(queue) : queue[i] = r

GridFits ==
    /\ grid # None => grid = active
    /\ \A r \in Requests : requests[r].known => grid = active
    /\ panel \in {"new", "loading"} =>
          rows = None /\ \A r \in Requests : requests[r] = NoRequest

ViewsFit ==
    /\ \A r \in Requests : requests[r].at \in {"discard", "create"} => held.view = None
    /\ \A r \in Requests :
          requests[r].at \in {"create", "read"} /\ Lives(requests[r].view) =>
             views[requests[r].view] = requests[r].order
    /\ Lives(held.view) => views[held.view] = held.order

ViewerInv ==
    ViewerTypes /\ QueueFits /\ GridFits /\ ViewsFit /\ RowsFitTheChoice /\ NoViewForgotten

LEMMA ViewerPartsStep ==
    ASSUME [SessionDataNext]_sessionDataVars
    PROVE  [DvNext]_dvVars
BY DEF SessionDataNext, ViewerSteps, ExportSteps, CasSteps, FilerefSteps, RichSteps,
       sessionDataVars

LEMMA UnderWayIs ==
    \A v : v \in UnderWay <=>
       \E r \in Requests : requests[r].at \in {"discard", "create"} /\ requests[r].view = v
BY DEF UnderWay

(* Steps of the document alone.                                            *)
LEMMA DocumentOn ==
    ASSUME ViewerInv, UNCHANGED <<active, source, requests>>,
           grid' = grid \/ grid' = active \/ (grid' = None /\ panel \in {"new", "loading"}),
           rows' = rows, rows # None => grid' = grid,
           panel' = panel \/ panel' \in {"open", "failed"} \/ (panel = "new" /\ panel' = "loading"),
           panel # "closed", panel' # "closed"
    PROVE  ViewerInv'
<1>1. UNCHANGED <<active, held, views, closing, lost, unheard, queue, requests>>
  BY DEF source
<1>2. ViewerTypes /\ QueueFits /\ GridFits /\ ViewsFit
  BY DEF ViewerInv
<1>3. ViewerTypes' /\ QueueFits' /\ ViewsFit'
  BY <1>1, <1>2 DEF ViewerTypes, QueueFits, ViewsFit, Lives
<1>4. GridFits'
  <2>1. panel' \in {"new", "loading"} => panel \in {"new", "loading"}
    OBVIOUS
  <2>2. grid' = None /\ panel \in {"new", "loading"} => \A r \in Requests : ~requests[r].known
    BY <1>2 DEF GridFits, NoRequest
  <2>3. QED
    BY <1>1, <1>2, <2>1, <2>2 DEF GridFits
<1>5. RowsFitTheChoice'
  BY DEF ViewerInv, RowsFitTheChoice
<1>6. NoViewForgotten'
  BY <1>1 DEF ViewerInv, NoViewForgotten, UnderWay, InHand, Lives
<1>7. QED
  BY <1>3, <1>4, <1>5, <1>6 DEF ViewerInv

LEMMA ForgetsOn ==
    ASSUME ViewerInv, ForgetsDocument
    PROVE  /\ requests' \in [Requests -> [at : {"none"} \cup Phases, order : Orders \cup {None},
                                          known : BOOLEAN, view : Views \cup {None}]]
           /\ \A r \in Requests :
                 /\ ~requests'[r].known /\ requests'[r].at = requests[r].at
                 /\ requests'[r].view = requests[r].view /\ requests'[r].order = requests[r].order
<1>1. requests' = [r \in Requests |-> [requests[r] EXCEPT !.known = FALSE]]
  BY DEF ForgetsDocument
<1>2. \A r \in Requests : requests[r] \in [at : {"none"} \cup Phases, order : Orders \cup {None},
                                           known : BOOLEAN, view : Views \cup {None}]
  BY DEF ViewerInv, ViewerTypes
<1>3. QED
  BY <1>1, <1>2

LEMMA HidesDocumentOn ==
    ASSUME ViewerInv, HidesDocument
    PROVE  ViewerInv'
<1>1. /\ ForgetsDocument /\ grid' = None /\ rows' = None /\ panel = "open" /\ UNCHANGED panel
      /\ UNCHANGED <<active, held, views, closing, lost, unheard, queue>>
  BY DEF HidesDocument, ForgetsDocument, source
<1>2. ViewerTypes /\ QueueFits /\ GridFits /\ ViewsFit
  BY DEF ViewerInv
<1>3. /\ requests' \in [Requests -> [at : {"none"} \cup Phases, order : Orders \cup {None},
                                     known : BOOLEAN, view : Views \cup {None}]]
      /\ \A r \in Requests :
            /\ ~requests'[r].known /\ requests'[r].at = requests[r].at
            /\ requests'[r].view = requests[r].view /\ requests'[r].order = requests[r].order
  BY <1>1, ForgetsOn
<1>4. ViewerTypes' /\ QueueFits' /\ GridFits'
  BY <1>1, <1>2, <1>3 DEF ViewerTypes, QueueFits, GridFits
<1>5. ViewsFit'
  BY <1>1, <1>2, <1>3 DEF ViewsFit, Lives
<1>6. NoViewForgotten'
  <2>1. \A v : v \in UnderWay' <=> v \in UnderWay
    BY <1>3 DEF UnderWay
  <2>2. QED
    BY <1>1, <2>1 DEF ViewerInv, NoViewForgotten, InHand, Lives
<1>7. QED
  BY <1>1, <1>4, <1>5, <1>6 DEF ViewerInv, RowsFitTheChoice

LEMMA ClosesPanelOn ==
    ASSUME ViewerInv, ClosesPanel
    PROVE  ViewerInv'
<1>1. /\ ForgetsDocument /\ grid' = None /\ rows' = None /\ panel' = "closed" /\ panel # "closed"
      /\ held' = [view |-> None, order |-> None] /\ closing' = held.view
      /\ UNCHANGED <<active, views, lost, unheard, queue>>
  BY DEF ClosesPanel, ForgetsDocument
<1>2. ViewerTypes /\ QueueFits /\ GridFits /\ ViewsFit
  BY DEF ViewerInv
<1>3. /\ requests' \in [Requests -> [at : {"none"} \cup Phases, order : Orders \cup {None},
                                     known : BOOLEAN, view : Views \cup {None}]]
      /\ \A r \in Requests :
            /\ ~requests'[r].known /\ requests'[r].at = requests[r].at
            /\ requests'[r].view = requests[r].view /\ requests'[r].order = requests[r].order
  BY <1>1, ForgetsOn
<1>4. held'.view = None /\ held' \in [view : Views \cup {None}, order : Orders \cup {None}]
  BY <1>1
<1>5. ViewerTypes' /\ QueueFits' /\ GridFits'
  BY <1>1, <1>2, <1>3, <1>4 DEF ViewerTypes, QueueFits, GridFits
<1>6. ViewsFit'
  BY <1>1, <1>2, <1>3, <1>4 DEF ViewsFit, Lives
<1>7. NoViewForgotten'
  <2>1. \A v : v \in UnderWay' <=> v \in UnderWay
    BY <1>3 DEF UnderWay
  <2>2. QED
    BY <1>1, <2>1 DEF ViewerInv, NoViewForgotten, InHand, Lives
<1>8. QED
  BY <1>1, <1>5, <1>6, <1>7 DEF ViewerInv, RowsFitTheChoice

LEMMA DeletesLastOn ==
    ASSUME ViewerInv, DeletesLast
    PROVE  ViewerInv'
<1>1. /\ closing # None /\ closing' = None
      /\ UNCHANGED <<panel, grid, active, held, unheard, queue, requests, rows>>
      /\ \/ views' = [views EXCEPT ![closing] = None] /\ UNCHANGED lost
         \/ lost' = lost \cup {closing} /\ UNCHANGED views
  BY DEF DeletesLast
<1>2. ViewerTypes /\ QueueFits /\ GridFits /\ ViewsFit /\ NoViewForgotten
  BY DEF ViewerInv
<1>3. /\ views' \in [Views -> Orders \cup {None}]
      /\ \A v \in Views : views'[v] = views[v] \/ (views'[v] = None /\ v = closing)
  BY <1>1, <1>2 DEF ViewerTypes
<1>4. \A v \in Views : views'[v] # None => v # closing \/ v \in lost'
  BY <1>1, <1>2 DEF ViewerTypes
<1>5. lost \subseteq lost'
  BY <1>1
<1>6. ViewerTypes' /\ QueueFits' /\ GridFits' /\ RowsFitTheChoice'
  BY <1>1, <1>2, <1>3 DEF ViewerInv, ViewerTypes, QueueFits, GridFits, RowsFitTheChoice
<1>7. /\ \A r \in Requests : requests[r].view \in Views \cup {None}
      /\ held.view \in Views \cup {None}
  BY <1>2 DEF ViewerTypes
<1>8. ViewsFit'
  BY <1>1, <1>2, <1>3, <1>7 DEF ViewsFit, Lives
<1>9. NoViewForgotten'
  BY <1>1, <1>2, <1>3, <1>4, <1>5 DEF NoViewForgotten, InHand, UnderWay, Lives
<1>10. QED
  BY <1>6, <1>8, <1>9 DEF ViewerInv

(* Whose turn it is, is alone at work; a body that ends lets the next begin. *)
LEMMA TurnFacts ==
    ASSUME ViewerInv, NEW r \in Requests, MyTurn(r), requests[r].at \in Busy \cup {"queued"}
    PROVE  /\ queue # <<>> /\ queue \in Seq(Requests) /\ Head(queue) = r
           /\ \A x \in Requests : x # r => requests[x].at \notin Busy
           /\ panel \notin {"new", "loading"}
<1>1. ViewerTypes /\ QueueFits /\ GridFits
  BY DEF ViewerInv
<1>2. queue \in Seq(Requests) /\ Head(queue) = r
  BY <1>1 DEF ViewerTypes, MyTurn
<1>3. queue # <<>>
  <2>1. CASE requests[r].at \in Busy
    BY <1>1, <2>1 DEF QueueFits
  <2>2. CASE requests[r].at = "queued"
    BY <1>1, <1>2, <2>2 DEF QueueFits
  <2>3. QED
    BY <2>1, <2>2
<1>4. \A x \in Requests : x # r => requests[x].at \notin Busy
  BY <1>1, <1>2 DEF QueueFits
<1>5. panel \notin {"new", "loading"}
  BY <1>1 DEF GridFits, NoRequest, Busy
<1>6. QED
  BY <1>2, <1>3, <1>4, <1>5

LEMMA LeavesOn ==
    ASSUME ViewerInv, NEW r \in Requests, MyTurn(r), requests[r].at \in Busy \cup {"queued"},
           Leaves, requests'[r].at \in {"read", "none"},
           \A x \in Requests : x # r => requests'[x] = requests[x]
    PROVE  QueueFits' /\ queue' \in Seq(Requests)
<1>1. /\ queue # <<>> /\ queue \in Seq(Requests) /\ Head(queue) = r
      /\ \A x \in Requests : x # r => requests[x].at \notin Busy
  BY TurnFacts
<1>2. queue' = Tail(queue) /\ queue' \in Seq(Requests) /\ Len(queue') = Len(queue) - 1
      /\ \A i \in 1..Len(queue') : queue'[i] = queue[i + 1]
  BY <1>1 DEF Leaves
<1>3. \A x \in Requests : requests'[x].at \notin Busy
  BY <1>1 DEF Busy
<1>4. ASSUME NEW x \in Requests, requests'[x].at = "queued"
      PROVE  \E i \in 1..Len(queue') : queue'[i] = x
  <2>1. x # r /\ requests[x].at = "queued"
    BY <1>4
  <2>2. PICK i \in 1..Len(queue) : queue[i] = x
    BY <2>1 DEF ViewerInv, QueueFits
  <2>3. i # 1
    BY <1>1, <2>1, <2>2
  <2>4. i - 1 \in 1..Len(queue') /\ queue'[i - 1] = queue[i - 1 + 1] /\ i - 1 + 1 = i
    BY <1>1, <1>2, <2>2, <2>3
  <2>5. QED
    BY <2>2, <2>4
<1>5. QED
  BY <1>2, <1>3, <1>4 DEF QueueFits

LEMMA StaysOn ==
    ASSUME ViewerInv, NEW r \in Requests, MyTurn(r), requests[r].at \in Busy \cup {"queued"},
           UNCHANGED queue, requests'[r].at # "queued",
           \A x \in Requests : x # r => requests'[x] = requests[x]
    PROVE  QueueFits' /\ queue' \in Seq(Requests)
<1>1. /\ queue # <<>> /\ queue \in Seq(Requests) /\ Head(queue) = r
      /\ \A x \in Requests : x # r => requests[x].at \notin Busy
  BY TurnFacts
<1>2. QED
  BY <1>1 DEF ViewerInv, QueueFits

(* What a move of a request does to it.                                    *)
LEMMA MovesIs ==
    ASSUME ViewerInv, NEW r \in Requests, NEW phase1 \in Phases, NEW v \in Views \cup {None},
           Moves(r, phase1, v)
    PROVE  /\ requests' \in [Requests -> [at : {"none"} \cup Phases, order : Orders \cup {None},
                                          known : BOOLEAN, view : Views \cup {None}]]
           /\ requests'[r].at = phase1 /\ requests'[r].view = v
           /\ requests'[r].order = requests[r].order /\ (requests'[r].known <=> requests[r].known)
           /\ \A x \in Requests : x # r => requests'[x] = requests[x]
           /\ rows' = rows
<1>1. requests' = [requests EXCEPT ![r].at = phase1, ![r].view = v] /\ rows' = rows
  BY DEF Moves
<1>2. requests \in [Requests -> [at : {"none"} \cup Phases, order : Orders \cup {None},
                                 known : BOOLEAN, view : Views \cup {None}]]
  BY DEF ViewerInv, ViewerTypes
<1>3. requests[r] \in [at : {"none"} \cup Phases, order : Orders \cup {None},
                       known : BOOLEAN, view : Views \cup {None}]
  BY <1>2
<1>4. requests' = [requests EXCEPT ![r] = [requests[r] EXCEPT !.at = phase1, !.view = v]]
  BY <1>1, <1>2, <1>3
<1>5. [requests[r] EXCEPT !.at = phase1, !.view = v]
         \in [at : {"none"} \cup Phases, order : Orders \cup {None},
              known : BOOLEAN, view : Views \cup {None}]
  BY <1>3
<1>6. requests'[r] = [requests[r] EXCEPT !.at = phase1, !.view = v]
  BY <1>2, <1>4
<1>7. QED
  BY <1>1, <1>2, <1>3, <1>4, <1>5, <1>6

(* A move changes nothing the document knows.                              *)
LEMMA MovesGrid ==
    ASSUME ViewerInv, NEW r \in Requests, UNCHANGED <<panel, grid, active, rows>>,
           requests'[r].known => requests[r].known, panel \notin {"new", "loading"},
           \A x \in Requests : x # r => requests'[x] = requests[x]
    PROVE  GridFits' /\ RowsFitTheChoice'
BY DEF ViewerInv, GridFits, RowsFitTheChoice

LEMMA AsksRowsOn ==
    ASSUME ViewerInv, NEW r \in Requests, AsksRows(r)
    PROVE  ViewerInv'
<1>1. ViewerTypes /\ QueueFits /\ GridFits /\ ViewsFit /\ NoViewForgotten /\ RowsFitTheChoice
  BY DEF ViewerInv
<1>2. PICK o \in Orders :
        /\ grid' = o /\ active' = o
        /\ rows' = IF o = grid THEN rows ELSE None
        /\ requests' = [requests EXCEPT ![r] =
              [NoRequest EXCEPT !.at = "queued", !.order = o, !.known = TRUE]]
  BY DEF AsksRows
<1>3. /\ panel = "open" /\ grid # None /\ requests[r] = NoRequest /\ queue' = Append(queue, r)
      /\ UNCHANGED <<panel, held, views, closing, lost, unheard>>
  BY DEF AsksRows
<1>4. /\ requests' \in [Requests -> [at : {"none"} \cup Phases, order : Orders \cup {None},
                                     known : BOOLEAN, view : Views \cup {None}]]
      /\ requests'[r].at = "queued"
      /\ \A x \in Requests : x # r => requests'[x] = requests[x]
  BY <1>1, <1>2 DEF ViewerTypes, NoRequest, Phases
<1>5. requests[r].at = "none"
  BY <1>3 DEF NoRequest
<1>6. ViewerTypes'
  BY <1>1, <1>2, <1>3, <1>4 DEF ViewerTypes
<1>7. QueueFits'
  <2>1. /\ queue' \in Seq(Requests) /\ Len(queue') = Len(queue) + 1 /\ queue'[Len(queue) + 1] = r
        /\ \A i \in 1..Len(queue) : queue'[i] = queue[i]
        /\ queue' # <<>> /\ (queue # <<>> => Head(queue') = Head(queue))
    BY <1>1, <1>3 DEF ViewerTypes
  <2>2. \A x \in Requests : requests'[x].at \in Busy => queue' # <<>> /\ Head(queue') = x
    BY <1>1, <1>4, <2>1 DEF QueueFits, Busy
  <2>3. ASSUME NEW x \in Requests, requests'[x].at = "queued"
        PROVE  \E i \in 1..Len(queue') : queue'[i] = x
    <3>1. CASE x = r
      <4>1. Len(queue) + 1 \in 1..Len(queue')
        BY <1>1, <2>1 DEF ViewerTypes
      <4>2. QED
        BY <2>1, <3>1, <4>1
    <3>2. CASE x # r
      <4>1. PICK i \in 1..Len(queue) : queue[i] = x
        BY <1>1, <1>4, <2>3, <3>2 DEF QueueFits
      <4>2. i \in 1..Len(queue') /\ queue'[i] = x
        BY <1>1, <2>1, <4>1 DEF ViewerTypes
      <4>3. QED
        BY <4>2
    <3>3. QED
      BY <3>1, <3>2
  <2>4. QED
    BY <2>2, <2>3 DEF QueueFits
<1>8. GridFits'
  BY <1>2, <1>3 DEF GridFits
<1>9. ViewsFit'
  BY <1>1, <1>3, <1>4 DEF ViewsFit, Lives
<1>10. RowsFitTheChoice'
  BY <1>1, <1>2 DEF RowsFitTheChoice
<1>11. NoViewForgotten'
  <2>1. \A v : v \in UnderWay => v \in UnderWay'
    BY <1>4, <1>5, UnderWayIs DEF UnderWay
  <2>2. QED
    BY <1>1, <1>3, <2>1 DEF NoViewForgotten, InHand, Lives
<1>12. QED
  BY <1>6, <1>7, <1>8, <1>9, <1>10, <1>11 DEF ViewerInv

LEMMA StartsTargetOn ==
    ASSUME ViewerInv, NEW r \in Requests, StartsTarget(r)
    PROVE  ViewerInv'
<1>1. ViewerTypes /\ QueueFits /\ GridFits /\ ViewsFit /\ NoViewForgotten /\ RowsFitTheChoice
  BY DEF ViewerInv
<1>2. /\ requests[r].at = "queued" /\ MyTurn(r)
      /\ UNCHANGED <<panel, grid, active, views, closing, lost, unheard>>
  BY DEF StartsTarget, Turn
<1>3. /\ queue # <<>> /\ queue \in Seq(Requests) /\ Head(queue) = r
      /\ \A x \in Requests : x # r => requests[x].at \notin Busy
      /\ panel \notin {"new", "loading"}
  BY <1>2, TurnFacts DEF Busy
<1>4. held.view \in Views \cup {None}
  BY <1>1 DEF ViewerTypes
<1>5. CASE /\ held.view # None /\ Moves(r, "discard", held.view)
           /\ held' = [view |-> None, order |-> None] /\ UNCHANGED queue
  <2>1. /\ requests' \in [Requests -> [at : {"none"} \cup Phases, order : Orders \cup {None},
                                       known : BOOLEAN, view : Views \cup {None}]]
        /\ requests'[r].at = "discard" /\ requests'[r].view = held.view
        /\ (requests'[r].known <=> requests[r].known)
        /\ \A x \in Requests : x # r => requests'[x] = requests[x]
        /\ rows' = rows
    BY <1>4, <1>5, MovesIs DEF Phases
  <2>2. held' \in [view : Views \cup {None}, order : Orders \cup {None}] /\ held'.view = None
    BY <1>5
  <2>3. ViewerTypes'
    BY <1>1, <1>2, <1>5, <2>1, <2>2 DEF ViewerTypes
  <2>4. QueueFits'
    BY <1>2, <1>5, <2>1, StaysOn
  <2>5. GridFits' /\ RowsFitTheChoice'
    BY <1>2, <1>3, <2>1, MovesGrid
  <2>6. ViewsFit'
    BY <1>1, <1>2, <2>1, <2>2 DEF ViewsFit, Lives
  <2>7. NoViewForgotten'
    <3>1. \A v : v \in UnderWay \/ v = held.view => v \in UnderWay'
      BY <1>2, <2>1, UnderWayIs DEF UnderWay
    <3>2. QED
      BY <1>1, <1>2, <3>1 DEF NoViewForgotten, InHand, Lives
  <2>8. QED
    BY <2>3, <2>4, <2>5, <2>6, <2>7 DEF ViewerInv
<1>6. CASE /\ UNCHANGED held /\ Moves(r, "read", held.view) /\ Leaves
           /\ held.view # None => held.order = requests[r].order
  <2>1. /\ requests' \in [Requests -> [at : {"none"} \cup Phases, order : Orders \cup {None},
                                       known : BOOLEAN, view : Views \cup {None}]]
        /\ requests'[r].at = "read" /\ requests'[r].view = held.view
        /\ requests'[r].order = requests[r].order /\ (requests'[r].known <=> requests[r].known)
        /\ \A x \in Requests : x # r => requests'[x] = requests[x]
        /\ rows' = rows
    BY <1>4, <1>6, MovesIs DEF Phases
  <2>2. QueueFits' /\ queue' \in Seq(Requests)
    BY <1>2, <1>6, <2>1, LeavesOn
  <2>3. ViewerTypes'
    BY <1>1, <1>2, <1>6, <2>1, <2>2 DEF ViewerTypes
  <2>4. GridFits' /\ RowsFitTheChoice'
    BY <1>2, <1>3, <2>1, MovesGrid
  <2>5. ViewsFit'
    BY <1>1, <1>2, <1>6, <2>1 DEF ViewsFit, Lives
  <2>6. NoViewForgotten'
    <3>1. \A v : v \in UnderWay => v \in UnderWay'
      BY <1>2, <2>1, UnderWayIs DEF UnderWay
    <3>2. QED
      BY <1>1, <1>2, <1>6, <3>1 DEF NoViewForgotten, InHand, Lives
  <2>7. QED
    BY <2>2, <2>3, <2>4, <2>5, <2>6 DEF ViewerInv
<1>7. CASE held.view = None /\ UNCHANGED <<held, queue>> /\ Moves(r, Sends, None)
  <2>1. Sends \in {"refused", "create"} /\ Sends \in Phases
    BY DEF Sends, Phases
  <2>2. /\ requests' \in [Requests -> [at : {"none"} \cup Phases, order : Orders \cup {None},
                                       known : BOOLEAN, view : Views \cup {None}]]
        /\ requests'[r].at = Sends /\ requests'[r].view = None
        /\ (requests'[r].known <=> requests[r].known)
        /\ \A x \in Requests : x # r => requests'[x] = requests[x]
        /\ rows' = rows
    BY <1>7, <2>1, MovesIs
  <2>3. ViewerTypes'
    BY <1>1, <1>2, <1>7, <2>2 DEF ViewerTypes
  <2>4. QueueFits'
    BY <1>2, <1>7, <2>1, <2>2, StaysOn
  <2>5. GridFits' /\ RowsFitTheChoice'
    BY <1>2, <1>3, <2>2, MovesGrid
  <2>6. ViewsFit'
    BY <1>1, <1>2, <1>7, <2>2 DEF ViewsFit, Lives
  <2>7. NoViewForgotten'
    <3>1. \A v : v \in UnderWay => v \in UnderWay'
      BY <1>2, <2>2, UnderWayIs DEF UnderWay
    <3>2. QED
      BY <1>1, <1>2, <1>7, <3>1 DEF NoViewForgotten, InHand, Lives
  <2>8. QED
    BY <2>3, <2>4, <2>5, <2>6, <2>7 DEF ViewerInv
<1>8. QED
  BY <1>5, <1>6, <1>7 DEF StartsTarget, DropsView, SameOrder

LEMMA DiscardsViewOn ==
    ASSUME ViewerInv, NEW r \in Requests, DiscardsView(r)
    PROVE  ViewerInv'
<1>1. ViewerTypes /\ QueueFits /\ GridFits /\ ViewsFit /\ NoViewForgotten /\ RowsFitTheChoice
  BY DEF ViewerInv
<1>2. /\ requests[r].at = "discard" /\ MyTurn(r)
      /\ UNCHANGED <<panel, grid, active, held, closing, unheard>>
  BY DEF DiscardsView, Turn
<1>3. /\ queue # <<>> /\ queue \in Seq(Requests) /\ Head(queue) = r
      /\ \A x \in Requests : x # r => requests[x].at \notin Busy
      /\ panel \notin {"new", "loading"}
  BY <1>2, TurnFacts DEF Busy
<1>4. /\ views' \in [Views -> Orders \cup {None}] /\ lost \subseteq lost'
      /\ \A v \in Views : views'[v] = views[v] \/ views'[v] = None
      /\ requests[r].view \in Views => views'[requests[r].view] = None
                                       \/ requests[r].view \in lost'
  BY <1>1 DEF DiscardsView, Deletes, ViewerTypes
<1>5. held.view = None /\ held.view \in Views \cup {None}
      /\ \A x \in Requests : requests[x].view \in Views \cup {None}
  BY <1>1, <1>2 DEF ViewsFit, ViewerTypes
<1>6. PICK p \in {"read", "refused", "create"} :
         /\ Moves(r, p, None)
         /\ (p = "read" /\ Leaves) \/ (p # "read" /\ UNCHANGED queue)
  BY DEF DiscardsView, Sends
<1>7. /\ requests' \in [Requests -> [at : {"none"} \cup Phases, order : Orders \cup {None},
                                     known : BOOLEAN, view : Views \cup {None}]]
      /\ requests'[r].at = p /\ requests'[r].view = None
      /\ (requests'[r].known <=> requests[r].known)
      /\ \A x \in Requests : x # r => requests'[x] = requests[x]
      /\ rows' = rows
  BY <1>6, MovesIs DEF Phases
<1>8. QueueFits' /\ queue' \in Seq(Requests)
  <2>1. CASE p = "read" /\ Leaves
    BY <1>2, <1>7, <2>1, LeavesOn DEF Busy
  <2>2. CASE p # "read" /\ UNCHANGED queue
    BY <1>2, <1>7, <2>2, StaysOn DEF Busy
  <2>3. QED
    BY <1>6, <2>1, <2>2
<1>9. ViewerTypes'
  BY <1>1, <1>2, <1>4, <1>7, <1>8 DEF ViewerTypes
<1>10. GridFits' /\ RowsFitTheChoice'
  BY <1>2, <1>3, <1>7, MovesGrid
<1>11. ViewsFit'
  BY <1>1, <1>2, <1>4, <1>5, <1>7 DEF ViewsFit, Lives
<1>12. NoViewForgotten'
  <2>1. \A v : v \in UnderWay => v \in UnderWay' \/ v = requests[r].view
    BY <1>2, <1>7, UnderWayIs DEF UnderWay
  <2>2. QED
    BY <1>1, <1>2, <1>4, <2>1 DEF NoViewForgotten, InHand, Lives
<1>13. QED
  BY <1>8, <1>9, <1>10, <1>11, <1>12 DEF ViewerInv

LEMMA MakesViewOn ==
    ASSUME ViewerInv, NEW r \in Requests, MakesView(r)
    PROVE  ViewerInv'
<1>1. ViewerTypes /\ QueueFits /\ GridFits /\ ViewsFit /\ NoViewForgotten /\ RowsFitTheChoice
  BY DEF ViewerInv
<1>2. /\ requests[r].at = "create" /\ MyTurn(r) /\ requests[r].view = None
      /\ UNCHANGED <<panel, grid, active, held, closing, lost, unheard, queue>>
  BY DEF MakesView, Turn
<1>3. /\ queue # <<>> /\ queue \in Seq(Requests) /\ Head(queue) = r
      /\ \A x \in Requests : x # r => requests[x].at \notin Busy
      /\ panel \notin {"new", "loading"}
  BY <1>2, TurnFacts DEF Busy
<1>4. PICK v \in Free : views' = [views EXCEPT ![v] = requests[r].order] /\ Moves(r, "create", v)
  BY DEF MakesView
<1>5. /\ v \in Views /\ v \notin {held.view, closing} /\ v # None
      /\ \A x \in Requests : requests[x].view # v
  BY <1>4, DataViewerAssumption DEF Free
<1>6. /\ requests' \in [Requests -> [at : {"none"} \cup Phases, order : Orders \cup {None},
                                     known : BOOLEAN, view : Views \cup {None}]]
      /\ requests'[r].at = "create" /\ requests'[r].view = v
      /\ requests'[r].order = requests[r].order /\ (requests'[r].known <=> requests[r].known)
      /\ \A x \in Requests : x # r => requests'[x] = requests[x]
      /\ rows' = rows
  BY <1>4, <1>5, MovesIs DEF Phases
<1>7. /\ views' \in [Views -> Orders \cup {None}] /\ views'[v] = requests[r].order
      /\ \A w \in Views : w # v => views'[w] = views[w]
  BY <1>1, <1>4, <1>5 DEF ViewerTypes
<1>8. QueueFits'
  BY <1>2, <1>6, StaysOn DEF Busy
<1>9. ViewerTypes'
  BY <1>1, <1>2, <1>6, <1>7 DEF ViewerTypes
<1>10. GridFits' /\ RowsFitTheChoice'
  BY <1>2, <1>3, <1>6, MovesGrid
<1>11. \A x \in Requests : requests[x].view \in Views \cup {None}
  BY <1>1 DEF ViewerTypes
<1>12. held.view \in Views \cup {None}
  BY <1>1 DEF ViewerTypes
<1>13. ViewsFit'
  <2>1. \A x \in Requests : requests'[x].at \in {"discard", "create"} => held'.view = None
    BY <1>1, <1>2, <1>6 DEF ViewsFit
  <2>2. \A x \in Requests :
           /\ requests'[x].at \in {"create", "read"}
           /\ requests'[x].view # None /\ views'[requests'[x].view] # None
           => views'[requests'[x].view] = requests'[x].order
    <3> SUFFICES ASSUME NEW x \in Requests, requests'[x].at \in {"create", "read"},
                        requests'[x].view # None, views'[requests'[x].view] # None
                 PROVE  views'[requests'[x].view] = requests'[x].order
      OBVIOUS
    <3>1. CASE x = r
      BY <1>6, <1>7, <3>1
    <3>2. CASE x # r
      <4>1. requests'[x] = requests[x] /\ requests[x].view \in Views /\ requests[x].view # v
        BY <1>5, <1>6, <1>11, <3>2
      <4>2. QED
        BY <1>1, <1>7, <4>1 DEF ViewsFit, Lives
    <3>3. QED
      BY <3>1, <3>2
  <2>3. held'.view # None /\ views'[held'.view] # None => views'[held'.view] = held'.order
    BY <1>1, <1>2, <1>5, <1>7, <1>12 DEF ViewsFit, Lives
  <2>4. QED
    BY <2>1, <2>2, <2>3 DEF ViewsFit, Lives
<1>14. NoViewForgotten'
  <2>1. \A w : w \in UnderWay => w \in UnderWay' \/ w = None
    BY <1>2, <1>6, UnderWayIs DEF UnderWay
  <2>2. v \in UnderWay'
    BY <1>6 DEF UnderWay
  <2>3. QED
    BY <1>1, <1>2, <1>7, <2>1, <2>2, DataViewerAssumption DEF NoViewForgotten, InHand, Lives
<1>15. QED
  BY <1>8, <1>9, <1>10, <1>13, <1>14 DEF ViewerInv

LEMMA TakesViewOn ==
    ASSUME ViewerInv, NEW r \in Requests, TakesView(r)
    PROVE  ViewerInv'
<1>1. ViewerTypes /\ QueueFits /\ GridFits /\ ViewsFit /\ NoViewForgotten /\ RowsFitTheChoice
  BY DEF ViewerInv
<1>2. /\ requests[r].at = "create" /\ MyTurn(r) /\ panel # "closed" /\ Leaves
      /\ held' = [view |-> requests[r].view, order |-> requests[r].order]
      /\ Moves(r, "read", requests[r].view)
      /\ UNCHANGED <<panel, grid, active, views, closing, lost, unheard>>
  BY DEF TakesView, Turn, Aborted
<1>3. /\ queue # <<>> /\ queue \in Seq(Requests) /\ Head(queue) = r
      /\ \A x \in Requests : x # r => requests[x].at \notin Busy
      /\ panel \notin {"new", "loading"}
  BY <1>2, TurnFacts DEF Busy
<1>4. /\ requests[r].view \in Views \cup {None} /\ requests[r].order \in Orders \cup {None}
      /\ held.view = None
  BY <1>1, <1>2 DEF ViewerTypes, ViewsFit
<1>5. /\ held' \in [view : Views \cup {None}, order : Orders \cup {None}]
      /\ held'.view = requests[r].view /\ held'.order = requests[r].order
  BY <1>2, <1>4
<1>6. /\ requests' \in [Requests -> [at : {"none"} \cup Phases, order : Orders \cup {None},
                                     known : BOOLEAN, view : Views \cup {None}]]
      /\ requests'[r].at = "read" /\ requests'[r].view = requests[r].view
      /\ requests'[r].order = requests[r].order /\ (requests'[r].known <=> requests[r].known)
      /\ \A x \in Requests : x # r => requests'[x] = requests[x]
      /\ rows' = rows
  BY <1>2, <1>4, MovesIs DEF Phases
<1>7. QueueFits' /\ queue' \in Seq(Requests)
  BY <1>2, <1>6, LeavesOn DEF Busy
<1>8. ViewerTypes'
  BY <1>1, <1>2, <1>5, <1>6, <1>7 DEF ViewerTypes
<1>9. GridFits' /\ RowsFitTheChoice'
  BY <1>2, <1>3, <1>6, MovesGrid
<1>10. ViewsFit'
  BY <1>1, <1>2, <1>3, <1>5, <1>6 DEF ViewsFit, Lives, Busy
<1>11. NoViewForgotten'
  <2>1. \A v : v \in UnderWay => v \in UnderWay' \/ v = requests[r].view
    BY <1>2, <1>6, UnderWayIs DEF UnderWay
  <2>2. QED
    BY <1>1, <1>2, <1>4, <1>5, <2>1 DEF NoViewForgotten, InHand, Lives
<1>12. QED
  BY <1>7, <1>8, <1>9, <1>10, <1>11 DEF ViewerInv

(* An answer ends its request; it shows rows only of the order the         *)
(* document is on.                                                         *)
LEMMA AnswersIs ==
    ASSUME ViewerInv, NEW r \in Requests, NEW ok \in BOOLEAN, NEW read, Answers(r, ok, read),
           ok => read = requests[r].order, UNCHANGED <<panel, grid, active>>,
           panel \notin {"new", "loading"}
    PROVE  /\ requests' \in [Requests -> [at : {"none"} \cup Phases, order : Orders \cup {None},
                                          known : BOOLEAN, view : Views \cup {None}]]
           /\ requests'[r] = NoRequest
           /\ \A x \in Requests : x # r => requests'[x] = requests[x]
           /\ GridFits' /\ RowsFitTheChoice'
<1>1. ViewerTypes /\ GridFits /\ RowsFitTheChoice
  BY DEF ViewerInv
<1>2. requests' = [requests EXCEPT ![r] = NoRequest]
  BY DEF Answers
<1>3. NoRequest \in [at : {"none"} \cup Phases, order : Orders \cup {None},
                     known : BOOLEAN, view : Views \cup {None}]
  BY DEF NoRequest
<1>4. /\ requests' \in [Requests -> [at : {"none"} \cup Phases, order : Orders \cup {None},
                                     known : BOOLEAN, view : Views \cup {None}]]
      /\ requests'[r] = NoRequest /\ \A x \in Requests : x # r => requests'[x] = requests[x]
  BY <1>1, <1>2, <1>3 DEF ViewerTypes
<1>5. GridFits'
  <2>1. ~NoRequest.known
    BY DEF NoRequest
  <2>2. \A x \in Requests : requests'[x].known => requests[x].known
    BY <1>4, <2>1
  <2>3. QED
    BY <1>1, <2>2 DEF GridFits
<1>6. RowsFitTheChoice'
  <2>1. rows' = rows \/ (requests[r].known /\ ok /\ requests[r].order = active /\ rows' = read)
    BY DEF Answers, Superseded
  <2>2. QED
    BY <1>1, <2>1 DEF GridFits, RowsFitTheChoice
<1>7. QED
  BY <1>4, <1>5, <1>6

LEMMA FailsViewOn ==
    ASSUME ViewerInv, NEW r \in Requests, FailsView(r)
    PROVE  ViewerInv'
<1>1. ViewerTypes /\ QueueFits /\ GridFits /\ ViewsFit /\ NoViewForgotten /\ RowsFitTheChoice
  BY DEF ViewerInv
<1>2. /\ requests[r].at \in {"create", "refused"} /\ MyTurn(r) /\ Leaves
      /\ requests[r].at = "refused" \/ requests[r].at = "create"
      /\ Answers(r, FALSE, None)
      /\ unheard' = unheard \cup ({requests[r].view} \ {None})
      /\ UNCHANGED <<panel, grid, active, held, views, closing, lost>>
  BY DEF FailsView, Turn
<1>3. /\ \A x \in Requests : x # r => requests[x].at \notin Busy
      /\ panel \notin {"new", "loading"}
  BY <1>2, TurnFacts DEF Busy
<1>4. /\ requests' \in [Requests -> [at : {"none"} \cup Phases, order : Orders \cup {None},
                                     known : BOOLEAN, view : Views \cup {None}]]
      /\ requests'[r] = NoRequest
      /\ \A x \in Requests : x # r => requests'[x] = requests[x]
      /\ GridFits' /\ RowsFitTheChoice'
  BY <1>2, <1>3, AnswersIs
<1>5. requests'[r].at = "none"
  BY <1>4 DEF NoRequest
<1>6. QueueFits' /\ queue' \in Seq(Requests)
  BY <1>2, <1>4, <1>5, LeavesOn DEF Busy
<1>7. ViewerTypes'
  BY <1>1, <1>2, <1>4, <1>6 DEF ViewerTypes
<1>8. ViewsFit'
  BY <1>1, <1>2, <1>4, <1>5 DEF ViewsFit, Lives
<1>9. NoViewForgotten'
  <2>1. \A v : v \in UnderWay => v \in UnderWay' \/ v = requests[r].view
    BY <1>4, UnderWayIs DEF UnderWay
  <2>2. QED
    BY <1>1, <1>2, <2>1 DEF NoViewForgotten, InHand, Lives
<1>10. QED
  BY <1>4, <1>6, <1>7, <1>8, <1>9 DEF ViewerInv

LEMMA ReadsRowsOn ==
    ASSUME ViewerInv, NEW r \in Requests, ReadsRows(r)
    PROVE  ViewerInv'
<1>1. ViewerTypes /\ QueueFits /\ GridFits /\ ViewsFit /\ NoViewForgotten /\ RowsFitTheChoice
  BY DEF ViewerInv
<1>2. /\ requests[r].at = "read" /\ UNCHANGED <<panel, grid, active>>
      /\ UNCHANGED <<held, views, closing, lost, unheard, queue>>
  BY DEF ReadsRows, source
<1>3. panel \notin {"new", "loading"}
  BY <1>1, <1>2 DEF GridFits, NoRequest
<1>4. PICK ok \in BOOLEAN, read \in {None, requests[r].order, views[requests[r].view]} :
        Answers(r, ok, read) /\ (ok => read = requests[r].order)
  <2>1. CASE Answers(r, FALSE, None)
    BY <2>1
  <2>2. CASE /\ requests[r].view = None \/ Lives(requests[r].view)
             /\ Answers(r, TRUE, IF requests[r].view = None THEN requests[r].order
                                 ELSE views[requests[r].view])
    <3>1. CASE requests[r].view = None
      BY <2>2, <3>1
    <3>2. CASE requests[r].view # None
      <4>1. views[requests[r].view] = requests[r].order
        BY <1>1, <1>2, <2>2, <3>2 DEF ViewsFit
      <4>2. QED
        BY <2>2, <3>2, <4>1
    <3>3. QED
      BY <3>1, <3>2
  <2>3. QED
    BY <2>1, <2>2 DEF ReadsRows
<1>5. /\ requests' \in [Requests -> [at : {"none"} \cup Phases, order : Orders \cup {None},
                                     known : BOOLEAN, view : Views \cup {None}]]
      /\ requests'[r] = NoRequest
      /\ \A x \in Requests : x # r => requests'[x] = requests[x]
      /\ GridFits' /\ RowsFitTheChoice'
  BY <1>2, <1>3, <1>4, AnswersIs
<1>6. requests'[r].at = "none"
  BY <1>5 DEF NoRequest
<1>7. ViewerTypes'
  BY <1>1, <1>2, <1>5 DEF ViewerTypes
<1>8. QueueFits'
  BY <1>1, <1>2, <1>5, <1>6 DEF QueueFits, Busy
<1>9. ViewsFit'
  BY <1>1, <1>2, <1>5, <1>6 DEF ViewsFit, Lives
<1>10. NoViewForgotten'
  <2>1. \A v : v \in UnderWay => v \in UnderWay'
    BY <1>2, <1>5, UnderWayIs DEF UnderWay
  <2>2. QED
    BY <1>1, <1>2, <2>1 DEF NoViewForgotten, InHand, Lives
<1>11. QED
  BY <1>5, <1>7, <1>8, <1>9, <1>10 DEF ViewerInv

LEMMA ViewerBegins ==
    ASSUME DvInit
    PROVE  ViewerInv
<1>1. /\ active \in Orders /\ held \in [view : Views \cup {None}, order : Orders \cup {None}]
      /\ held.view = None
  BY DataViewerAssumption DEF DvInit, Orders
<1>2. \A r \in Requests : requests[r].at = "none" /\ ~requests[r].known /\ requests[r] = NoRequest
  BY DEF DvInit, NoRequest
<1>3. requests \in [Requests -> [at : {"none"} \cup Phases, order : Orders \cup {None},
                                 known : BOOLEAN, view : Views \cup {None}]]
  BY DEF DvInit, NoRequest
<1>4. ViewerTypes
  BY <1>1, <1>3 DEF DvInit, ViewerTypes
<1>5. QueueFits /\ GridFits /\ RowsFitTheChoice
  BY <1>2 DEF DvInit, QueueFits, GridFits, RowsFitTheChoice, Busy
<1>6. \A v \in Views : ~Lives(v)
  BY DEF DvInit, Lives
<1>7. ViewsFit /\ NoViewForgotten
  BY <1>1, <1>2, <1>6 DEF ViewsFit, NoViewForgotten, Lives
<1>8. QED
  BY <1>4, <1>5, <1>7 DEF ViewerInv

LEMMA ViewerStep ==
    ASSUME ViewerInv, [DvNext]_dvVars
    PROVE  ViewerInv'
<1>1. CASE UNCHANGED dvVars
  BY <1>1 DEF dvVars, ViewerInv, ViewerTypes, QueueFits, GridFits, ViewsFit, RowsFitTheChoice,
     NoViewForgotten, UnderWay, InHand, Lives
<1>2. CASE OpensPanel
  <2>1. ViewerInv /\ UNCHANGED <<active, source, requests, grid, rows>>
    BY <1>2 DEF OpensPanel
  <2>2. QED
    BY <1>2, <2>1, DocumentOn DEF OpensPanel
<1>3. CASE LoadsTable
  <2>1. rows = None
    BY <1>3 DEF LoadsTable, ViewerInv, GridFits
  <2>2. QED
    BY <1>3, <2>1, DocumentOn DEF LoadsTable
<1>4. CASE ShowsDocument
  <2>1. rows = None
    BY <1>4, DataViewerAssumption DEF ShowsDocument, ViewerInv, RowsFitTheChoice
  <2>2. QED
    BY <1>4, <2>1, DocumentOn DEF ShowsDocument
<1>5. CASE DvNext /\ ~OpensPanel /\ ~LoadsTable /\ ~ShowsDocument
  BY <1>5, HidesDocumentOn, ClosesPanelOn, DeletesLastOn, AsksRowsOn, StartsTargetOn,
     DiscardsViewOn, MakesViewOn, TakesViewOn, FailsViewOn, ReadsRowsOn DEF DvNext
<1>6. QED
  BY <1>1, <1>2, <1>3, <1>4, <1>5

-----------------------------------------------------------------------------
(* The CSV export.  What an export has written is what it has read through  *)
(* of the table, as long as that is still the one it opened.               *)
EarlySteps == {"idle", "opening", "sampling", "confirming"}
FileSteps == {"reading", "writing", "ending", "renaming"}
CsvFile == [by : SUBSET Exports, rows : Seq(Nat), bad : BOOLEAN]
ReadThrough(e) == IF step[e] = "writing" THEN start[e] + PageSize ELSE start[e]
RowsUpTo(n) == SubSeq(Last(tables), 1, Lesser(n, Len(Last(tables))))

CsvTypes ==
    /\ tables \in Seq(Seq(Nat)) /\ tables # <<>>
    /\ destination \in CsvFile /\ temp \in [Exports -> CsvFile]
    /\ step \in [Exports -> Works \cup {"idle", "cleaning", "over"}]
    /\ opened \in [Exports -> Nat] /\ rowCount \in [Exports -> Nat]
    /\ start \in [Exports -> Nat] /\ rowsDone \in [Exports -> Nat]
    /\ streamError \in [Exports -> BOOLEAN] /\ aborted \in [Exports -> BOOLEAN]
    /\ outcome \in [Exports -> {"none", "declined", "cancelled", "failed", "succeeded"}]

FileFits(e) ==
    /\ temp[e].by = {e} /\ (temp[e].bad => streamError[e])
    /\ opened[e] >= 1
    /\ opened[e] = Len(tables) =>
          temp[e].rows = IF step[e] \in {"reading", "writing"} THEN RowsUpTo(ReadThrough(e))
                         ELSE Last(tables)

CountFits(e) ==
    /\ rowsDone[e] <= start[e]
    /\ rowsDone[e] > rowCount[e] => Outgrown(e)
    /\ step[e] = "writing" /\ start[e] > rowCount[e] => Outgrown(e)
    /\ KeepsRows(e) => Lesser(ReadThrough(e), rowCount[e]) <= Len(temp[e].rows)

(* The user does not cancel between the last page and the rename.          *)
CancelsInTime == "late cancel" \notin CxMayMeet

ExportFits(e) ==
    /\ opened[e] <= Len(tables)
    /\ step[e] \in EarlySteps => start[e] = 0 /\ rowsDone[e] = 0
    /\ step[e] \in {"sampling", "confirming"} => opened[e] >= 1
    /\ step[e] \in FileSteps => FileFits(e) /\ CountFits(e)
    /\ CancelsInTime /\ step[e] \in {"ending", "renaming"} => ~aborted[e]
    /\ step[e] = "renaming" => ~streamError[e]
    /\ step[e] = "over" => temp[e] = NoFile \/ e \in kept

DestinationFits ==
    \A e \in destination.by :
       /\ step[e] = "over" /\ outcome[e] = "succeeded" /\ ~destination.bad
       /\ CancelsInTime => ~aborted[e]
       /\ opened[e] = Len(tables) => destination.rows = Last(tables)

CsvInv == CsvTypes /\ (\A e \in Exports : ExportFits(e)) /\ DestinationFits

LEMMA CsvPartsStep ==
    ASSUME [SessionDataNext]_sessionDataVars
    PROVE  [CxNext]_cxVars
BY DEF SessionDataNext, ViewerSteps, ExportSteps, CasSteps, FilerefSteps, RichSteps,
       sessionDataVars

LEMMA LesserIs ==
    ASSUME NEW i \in Int, NEW j \in Int
    PROVE  /\ Lesser(i, j) \in {i, j} /\ Lesser(i, j) \in Int
           /\ Lesser(i, j) <= i /\ Lesser(i, j) <= j
BY DEF Lesser

LEMMA TableIs ==
    ASSUME CsvTypes
    PROVE  /\ Last(tables) \in Seq(Nat) /\ Len(Last(tables)) \in Nat
           /\ Len(tables) \in Nat /\ Len(tables) >= 1 /\ PageSize \in Nat /\ PageSize >= 1
           /\ Last(tables) = tables[Len(tables)]
<1>1. PageSize \in Nat \ {0}
  BY CxAssumption, Zenon
<1>2. tables \in Seq(Seq(Nat)) /\ tables # <<>>
  BY DEF CsvTypes
<1>3. Len(tables) \in Nat /\ Len(tables) >= 1
  BY <1>2
<1>4. tables[Len(tables)] \in Seq(Nat)
  BY <1>2, <1>3
<1>5. Len(tables[Len(tables)]) \in Nat
  BY <1>4
<1>6. PageSize \in Nat /\ PageSize >= 1
  BY <1>1
<1>7. QED
  BY <1>3, <1>4, <1>5, <1>6 DEF Last

(* A page that follows the rows read through makes them more by itself.    *)
LEMMA PageFollows ==
    ASSUME NEW s \in Seq(Nat), NEW n \in Nat, NEW k \in Nat
    PROVE  /\ SubSeq(s, n + 1, Lesser(n + k, Len(s))) \in Seq(Nat)
           /\ SubSeq(s, 1, Lesser(n, Len(s))) \o SubSeq(s, n + 1, Lesser(n + k, Len(s)))
                = SubSeq(s, 1, Lesser(n + k, Len(s)))
           /\ n <= Len(s) =>
                 Len(SubSeq(s, n + 1, Lesser(n + k, Len(s)))) = Lesser(n + k, Len(s)) - n
           /\ n > Len(s) => SubSeq(s, n + 1, Lesser(n + k, Len(s))) = <<>>
<1> DEFINE m == Lesser(n, Len(s))
           l == Lesser(n + k, Len(s))
           p == SubSeq(s, n + 1, l)
           a == SubSeq(s, 1, m)
           b == SubSeq(s, 1, l)
<1>1. /\ Len(s) \in Nat /\ m \in Nat /\ l \in Nat /\ l <= Len(s) /\ m <= l
      /\ n <= Len(s) => m = n /\ n <= l
      /\ n > Len(s) => m = Len(s) /\ l = Len(s)
      /\ \A i \in 1..Len(s) : s[i] \in Nat
  BY DEF Lesser
<1> HIDE DEF m, l
<1>2. /\ a \in Seq(Nat) /\ Len(a) = m /\ \A i \in 1..m : a[i] = s[i]
  <2>1. \A i \in 1..m : s[i] \in Nat
    BY <1>1
  <2>2. /\ a \in Seq(Nat) /\ Len(a) = (IF 1 <= m THEN m - 1 + 1 ELSE 0)
        /\ \A i \in 1..(m - 1 + 1) : a[i] = s[1 + i - 1]
    BY <1>1, <2>1, SubSeqProperties
  <2>3. m - 1 + 1 = m /\ \A i \in 1..m : 1 + i - 1 = i
    BY <1>1
  <2> HIDE DEF a
  <2>4. QED
    BY <1>1, <2>2, <2>3
<1>3. /\ b \in Seq(Nat) /\ Len(b) = l /\ \A i \in 1..l : b[i] = s[i]
  <2>1. \A i \in 1..l : s[i] \in Nat
    BY <1>1
  <2>2. /\ b \in Seq(Nat) /\ Len(b) = (IF 1 <= l THEN l - 1 + 1 ELSE 0)
        /\ \A i \in 1..(l - 1 + 1) : b[i] = s[1 + i - 1]
    BY <1>1, <2>1, SubSeqProperties
  <2>3. l - 1 + 1 = l /\ \A i \in 1..l : 1 + i - 1 = i
    BY <1>1
  <2> HIDE DEF b
  <2>4. QED
    BY <1>1, <2>2, <2>3
<1>4. /\ p \in Seq(Nat) /\ Len(p) = l - m /\ (n > Len(s) => p = <<>>)
      /\ \A i \in 1..(l - m) : p[i] = s[m + i]
  <2>1. \A i \in (n + 1)..l : s[i] \in Nat
    BY <1>1
  <2>2. /\ p \in Seq(Nat) /\ Len(p) = (IF n + 1 <= l THEN l - (n + 1) + 1 ELSE 0)
        /\ \A i \in 1..(l - (n + 1) + 1) : p[i] = s[n + 1 + i - 1]
    BY <1>1, <2>1, SubSeqProperties
  <2>3. n > Len(s) => p = <<>>
    BY <1>1, SubSeqEmpty
  <2>4. l - (n + 1) + 1 = l - n /\ \A i \in 1..(l - n) : n + 1 + i - 1 = n + i
    BY <1>1
  <2> HIDE DEF p
  <2>5. CASE n <= Len(s)
    BY <1>1, <2>2, <2>4, <2>5
  <2>6. CASE n > Len(s)
    BY <1>1, <2>2, <2>3, <2>6
  <2>7. QED
    BY <1>1, <2>2, <2>3, <2>5, <2>6
<1>5. a \o p = b
  <2> HIDE DEF a, p, b
  <2>1. /\ a \o p \in Seq(Nat) /\ Len(a \o p) = Len(a) + Len(p)
        /\ \A i \in 1..(Len(a) + Len(p)) :
              (a \o p)[i] = IF i <= Len(a) THEN a[i] ELSE p[i - Len(a)]
    <3>1. a \in Seq(Nat) /\ p \in Seq(Nat)
      BY <1>2, <1>4
    <3>2. QED
      BY <3>1, ConcatProperties
  <2>2. Len(a) + Len(p) = l /\ Len(a) = m
    BY <1>1, <1>2, <1>4
  <2>3. \A i \in 1..l : (a \o p)[i] = b[i]
    <3> SUFFICES ASSUME NEW i \in 1..l PROVE (a \o p)[i] = b[i]
      OBVIOUS
    <3>1. CASE i <= m
      <4>1. i \in 1..m
        BY <1>1, <3>1
      <4>2. (a \o p)[i] = a[i]
        BY <2>1, <2>2, <3>1
      <4>3. QED
        BY <1>2, <1>3, <4>1, <4>2
    <3>2. CASE i > m
      <4>1. i - m \in 1..(l - m) /\ m + (i - m) = i
        BY <1>1, <3>2
      <4>2. p[i - m] = s[i]
        BY <1>4, <4>1
      <4>3. (a \o p)[i] = p[i - m]
        <5>1. ~(i <= m)
          BY <1>1, <3>2
        <5>2. QED
          BY <2>1, <2>2, <5>1
      <4>4. QED
        BY <1>3, <4>2, <4>3
    <3>3. i <= m \/ i > m
      <4>1. i \in Int /\ m \in Int
        BY <1>1
      <4>2. QED
        BY <4>1
    <3>4. QED
      BY <3>1, <3>2, <3>3
  <2>4. QED
    BY <1>3, <2>1, <2>2, <2>3, SeqEqual
<1>6. QED
  BY <1>1, <1>4, <1>5 DEF m, l

(* Another export's step leaves an export as it is.                        *)
SameExport(x) ==
    /\ temp'[x] = temp[x] /\ step'[x] = step[x] /\ opened'[x] = opened[x]
    /\ rowCount'[x] = rowCount[x] /\ start'[x] = start[x] /\ rowsDone'[x] = rowsDone[x]
    /\ (streamError'[x] <=> streamError[x]) /\ (aborted'[x] <=> aborted[x])
    /\ outcome'[x] = outcome[x] /\ (x \in kept => x \in kept')

LEMMA OtherExports ==
    ASSUME NEW x \in Exports, ExportFits(x), tables' = tables, SameExport(x)
    PROVE  ExportFits(x)'
<1>1. ReadThrough(x)' = ReadThrough(x)
  BY DEF ReadThrough, SameExport
<1>2. /\ KeepsRows(x)' <=> KeepsRows(x)
      /\ Outgrown(x)' <=> Outgrown(x)
      /\ RowsUpTo(ReadThrough(x))' = RowsUpTo(ReadThrough(x))
  BY <1>1 DEF KeepsRows, Outgrown, RowsUpTo, SameExport
<1>3. FileFits(x) => FileFits(x)'
  BY <1>2 DEF FileFits, SameExport
<1>4. CountFits(x) => CountFits(x)'
  BY <1>1, <1>2 DEF CountFits, SameExport
<1>5. QED
  BY <1>3, <1>4 DEF ExportFits, SameExport

(* The step of an export that is not over, and does not rename its file.    *)
LEMMA ExportOn ==
    ASSUME CsvInv, NEW e \in Exports, tables' = tables, CsvTypes', ExportFits(e)',
           destination' = destination, step[e] # "over",
           \A x \in Exports : x # e => SameExport(x)
    PROVE  CsvInv'
<1>1. \A x \in Exports : ExportFits(x)'
  <2>1. \A x \in Exports : x # e => ExportFits(x)'
    BY OtherExports DEF CsvInv
  <2>2. QED
    BY <2>1
<1>2. \A x \in destination.by : x \in Exports /\ x # e
  BY DEF CsvInv, CsvTypes, CsvFile, DestinationFits
<1>3. DestinationFits'
  BY <1>2 DEF CsvInv, DestinationFits, SameExport
<1>4. QED
  BY <1>1, <1>3 DEF CsvInv

LEMMA StartsOn ==
    ASSUME CsvInv, NEW e \in Exports, Starts(e)
    PROVE  CsvInv'
<1>1. step[e] = "idle" /\ step' = [step EXCEPT ![e] = "opening"]
      /\ UNCHANGED <<tables, opened, rowCount, destination, temp, start, rowsDone, streamError,
                     aborted, outcome, kept>>
  BY DEF Starts, Goes, pages
<1>2. CsvTypes /\ ExportFits(e)
  BY DEF CsvInv
<1>3. CsvTypes' /\ step'[e] = "opening" /\ \A x \in Exports : x # e => SameExport(x)
  BY <1>1, <1>2 DEF CsvTypes, Works, Asks, SameExport
<1>4. ExportFits(e)'
  BY <1>1, <1>2, <1>3 DEF ExportFits, EarlySteps, FileSteps
<1>5. QED
  BY <1>1, <1>3, <1>4, ExportOn

LEMMA CancelsOn ==
    ASSUME CsvInv, NEW e \in Exports, Cancels(e)
    PROVE  CsvInv'
<1>1. step[e] \in Works /\ (CancelsInTime => step[e] \notin {"ending", "renaming"})
  BY Zenon DEF Cancels, CancelsInTime
<1>2. /\ aborted' = [aborted EXCEPT ![e] = TRUE]
      /\ UNCHANGED <<tables, opened, rowCount, destination, temp, step, start, rowsDone,
                     streamError, outcome, kept>>
  BY Zenon DEF Cancels, pages
<1>3. CsvTypes /\ ExportFits(e)
  BY DEF CsvInv
<1>4. CsvTypes' /\ \A x \in Exports : x # e => SameExport(x)
  BY <1>2, <1>3 DEF CsvTypes, SameExport
<1>5. ReadThrough(e)' = ReadThrough(e)
  BY <1>2 DEF ReadThrough
<1>6. FileFits(e) => FileFits(e)'
  BY <1>2, <1>5 DEF FileFits, RowsUpTo
<1>7. CountFits(e) => CountFits(e)'
  BY <1>2, <1>5 DEF CountFits, KeepsRows, Outgrown
<1>8. ExportFits(e)'
  BY <1>1, <1>2, <1>3, <1>6, <1>7 DEF ExportFits
<1>9. step[e] # "over"
  BY <1>1 DEF Works, Asks
<1>10. QED
  BY <1>2, <1>4, <1>8, <1>9, ExportOn

LEMMA FailsOn ==
    ASSUME CsvInv, NEW e \in Exports, Fails(e), step[e] \in Works,
           UNCHANGED <<tables, opened, rowCount, destination, temp, start, rowsDone,
                       streamError, aborted, kept>>
    PROVE  CsvInv'
<1>1. PICK o \in {"cancelled", "failed"} : outcome' = [outcome EXCEPT ![e] = o]
  BY DEF Fails
<1>2. step' = [step EXCEPT ![e] = "cleaning"]
  BY DEF Fails, Goes
<1>3. CsvTypes /\ ExportFits(e)
  BY DEF CsvInv
<1>4. CsvTypes' /\ step'[e] = "cleaning" /\ \A x \in Exports : x # e => SameExport(x)
  BY <1>1, <1>2, <1>3 DEF CsvTypes, SameExport
<1>5. ExportFits(e)'
  BY <1>3, <1>4 DEF ExportFits, EarlySteps, FileSteps
<1>6. step[e] # "over"
  BY DEF Works, Asks
<1>7. QED
  BY <1>4, <1>5, <1>6, ExportOn

LEMMA CreatesOn ==
    ASSUME CsvInv, NEW e \in Exports, Creates(e), step[e] \in {"opening", "sampling", "confirming"},
           UNCHANGED <<tables, destination, start, rowsDone, streamError, aborted, outcome, kept>>,
           opened' \in [Exports -> Nat], rowCount' \in [Exports -> Nat],
           opened'[e] >= 1, opened'[e] <= Len(tables),
           \A x \in Exports : x # e => opened'[x] = opened[x] /\ rowCount'[x] = rowCount[x]
    PROVE  CsvInv'
<1>1. temp' = [temp EXCEPT ![e] = NewFile(e)] /\ step' = [step EXCEPT ![e] = "reading"]
  BY DEF Creates, TempPath, Goes
<1>2. CsvTypes /\ ExportFits(e)
  BY DEF CsvInv
<1>3. /\ NewFile(e) \in CsvFile /\ NewFile(e).by = {e} /\ NewFile(e).rows = <<>>
      /\ ~NewFile(e).bad
  BY DEF NewFile, CsvFile
<1>4. /\ CsvTypes' /\ step'[e] = "reading" /\ temp'[e] = NewFile(e)
      /\ \A x \in Exports : x # e => SameExport(x)
  BY <1>1, <1>2, <1>3 DEF CsvTypes, Works, Asks, SameExport
<1>5. start[e] = 0 /\ rowsDone[e] = 0
  BY <1>2 DEF ExportFits, EarlySteps
<1>6. ReadThrough(e)' = 0
  BY <1>4, <1>5 DEF ReadThrough
<1>7. RowsUpTo(0)' = <<>>
  <2>1. /\ Lesser(0, Len(Last(tables))) = 0
        /\ SubSeq(Last(tables), 1, 0) = <<>>
    BY <1>2, TableIs, SubSeqEmpty DEF Lesser
  <2>2. QED
    BY <2>1 DEF RowsUpTo
<1>8. FileFits(e)'
  BY <1>3, <1>4, <1>6, <1>7 DEF FileFits
<1>9. CountFits(e)'
  <2>1. rowCount'[e] \in Nat /\ Lesser(0, rowCount'[e]) = 0
    BY DEF Lesser
  <2>2. Len(temp'[e].rows) = 0
    BY <1>3, <1>4
  <2>3. QED
    BY <1>4, <1>5, <1>6, <2>1, <2>2 DEF CountFits
<1>10. ExportFits(e)'
  BY <1>4, <1>8, <1>9 DEF ExportFits, EarlySteps, FileSteps
<1>11. QED
  BY <1>4, <1>10, ExportOn

LEMMA TakesSpaceOn ==
    ASSUME CsvInv, NEW e \in Exports, TakesSpace(e), step[e] \in {"sampling", "confirming"},
           UNCHANGED <<pages, destination, start, rowsDone, streamError, aborted, kept>>
    PROVE  CsvInv'
<1>1. UNCHANGED <<tables, opened, rowCount>> /\ step[e] \in Works
  BY DEF pages, Works, Asks
<1>2. CsvTypes /\ ExportFits(e)
  BY DEF CsvInv
<1>3. opened[e] >= 1 /\ opened[e] <= Len(tables)
  BY <1>2 DEF ExportFits
<1>4. CASE Fails(e) /\ UNCHANGED temp
  BY <1>1, <1>4, FailsOn
<1>5. CASE Creates(e) /\ UNCHANGED outcome
  <2>1. /\ opened' \in [Exports -> Nat] /\ rowCount' \in [Exports -> Nat]
        /\ opened'[e] >= 1 /\ opened'[e] <= Len(tables)
    BY <1>1, <1>2, <1>3 DEF CsvTypes
  <2>2. QED
    BY <1>1, <1>5, <2>1, CreatesOn
<1>6. QED
  BY <1>4, <1>5 DEF TakesSpace

LEMMA IsRefusedOn ==
    ASSUME CsvInv, NEW e \in Exports, IsRefused(e)
    PROVE  CsvInv'
<1>1. step[e] \in Works /\ Fails(e)
  BY DEF IsRefused, Works
<1>2. UNCHANGED <<tables, opened, rowCount, destination, temp, start, rowsDone, streamError,
                  aborted, kept>>
  BY DEF IsRefused, pages
<1>3. QED
  BY <1>1, <1>2, FailsOn

LEMMA IsOpenedOn ==
    ASSUME CsvInv, NEW e \in Exports, IsOpened(e)
    PROVE  CsvInv'
<1>1. CsvTypes /\ ExportFits(e)
  BY DEF CsvInv
<1>2. PICK n \in SaysRows :
        /\ rowCount' = [rowCount EXCEPT ![e] = n]
        /\ IF n = 0 THEN Creates(e) ELSE Goes(e, "sampling") /\ UNCHANGED temp
  BY DEF IsOpened
<1>3. /\ step[e] = "opening" /\ opened' = [opened EXCEPT ![e] = Len(tables)]
      /\ UNCHANGED <<tables, destination, start, rowsDone, streamError, aborted, outcome, kept>>
  BY DEF IsOpened
<1>4. n \in Nat /\ Len(tables) \in Nat /\ Len(tables) >= 1
  BY <1>1, TableIs DEF SaysRows
<1>5. /\ opened' \in [Exports -> Nat] /\ rowCount' \in [Exports -> Nat]
      /\ opened'[e] = Len(tables)
      /\ \A x \in Exports : x # e => opened'[x] = opened[x] /\ rowCount'[x] = rowCount[x]
  BY <1>1, <1>2, <1>3, <1>4 DEF CsvTypes
<1>6. CASE n = 0
  BY <1>2, <1>3, <1>4, <1>5, <1>6, CreatesOn
<1>7. CASE n # 0
  <2>1. step' = [step EXCEPT ![e] = "sampling"] /\ UNCHANGED temp
    BY <1>2, <1>7 DEF Goes
  <2>2. CsvTypes' /\ step'[e] = "sampling" /\ \A x \in Exports : x # e => SameExport(x)
    BY <1>1, <1>3, <1>5, <2>1 DEF CsvTypes, Works, Asks, SameExport
  <2>3. ExportFits(e)'
    BY <1>1, <1>3, <1>4, <1>5, <2>1, <2>2 DEF ExportFits, EarlySteps, FileSteps
  <2>4. QED
    BY <1>3, <2>2, <2>3, ExportOn
<1>8. QED
  BY <1>6, <1>7

LEMMA IsSampledOn ==
    ASSUME CsvInv, NEW e \in Exports, IsSampled(e)
    PROVE  CsvInv'
<1>1. CsvTypes /\ ExportFits(e)
  BY DEF CsvInv
<1>2. /\ step[e] = "sampling"
      /\ UNCHANGED <<pages, destination, start, rowsDone, streamError, aborted, kept>>
  BY DEF IsSampled
<1>3. CASE TakesSpace(e)
  BY <1>2, <1>3, TakesSpaceOn
<1>4. CASE Goes(e, "confirming") /\ UNCHANGED <<temp, outcome>>
  <2>1. step' = [step EXCEPT ![e] = "confirming"] /\ UNCHANGED <<tables, opened, rowCount>>
    BY <1>2, <1>4 DEF Goes, pages
  <2>2. CsvTypes' /\ step'[e] = "confirming" /\ \A x \in Exports : x # e => SameExport(x)
    BY <1>1, <1>2, <1>4, <2>1 DEF CsvTypes, Works, Asks, SameExport
  <2>3. ExportFits(e)'
    BY <1>1, <1>2, <2>1, <2>2 DEF ExportFits, EarlySteps, FileSteps
  <2>4. QED
    BY <1>2, <2>1, <2>2, <2>3, ExportOn
<1>5. QED
  BY <1>3, <1>4 DEF IsSampled

LEMMA IsConfirmedOn ==
    ASSUME CsvInv, NEW e \in Exports, IsConfirmed(e)
    PROVE  CsvInv'
<1>1. CsvTypes /\ ExportFits(e)
  BY DEF CsvInv
<1>2. /\ step[e] = "confirming"
      /\ UNCHANGED <<pages, destination, start, rowsDone, streamError, aborted, kept>>
  BY DEF IsConfirmed
<1>3. CASE TakesSpace(e)
  BY <1>2, <1>3, TakesSpaceOn
<1>4. CASE /\ outcome' = [outcome EXCEPT ![e] = "declined"]
           /\ Goes(e, "cleaning") /\ UNCHANGED temp
  <2>1. step' = [step EXCEPT ![e] = "cleaning"] /\ UNCHANGED <<tables, opened, rowCount>>
    BY <1>2, <1>4 DEF Goes, pages
  <2>2. CsvTypes' /\ step'[e] = "cleaning" /\ \A x \in Exports : x # e => SameExport(x)
    BY <1>1, <1>2, <1>4, <2>1 DEF CsvTypes, Works, Asks, SameExport
  <2>3. ExportFits(e)'
    BY <1>1, <1>2, <2>1, <2>2 DEF ExportFits, EarlySteps, FileSteps
  <2>4. QED
    BY <1>2, <2>1, <2>2, <2>3, ExportOn
<1>5. QED
  BY <1>3, <1>4 DEF IsConfirmed

LEMMA ReadsPageOn ==
    ASSUME CsvInv, NEW e \in Exports, ReadsPage(e)
    PROVE  CsvInv'
<1>1. CsvTypes /\ ExportFits(e)
  BY DEF CsvInv
<1>2. /\ step[e] = "reading" /\ ~aborted[e]
      /\ UNCHANGED <<tables, opened, rowCount, destination, start, rowsDone, streamError, aborted,
                     outcome, kept>>
  BY DEF ReadsPage, pages
<1>3. FileFits(e) /\ CountFits(e)
  BY <1>1, <1>2 DEF ExportFits, FileSteps
<1>4. ReadThrough(e) = start[e] /\ start[e] \in Nat /\ rowCount[e] \in Nat
  BY <1>1, <1>2 DEF ReadThrough, CsvTypes
<1>5. PICK s \in Seq(Nat) : s = Last(tables)
  BY <1>1, TableIs
<1>6. PICK n \in Nat : n = Len(s)
  OBVIOUS
<1>7. PICK k \in Nat : k = PageSize /\ k >= 1
  BY <1>1, TableIs
<1>8. PICK a \in Nat : a = start[e]
  BY <1>4
<1>9. PICK p \in Seq(Nat) :
        /\ p = PageFrom(e)
        /\ SubSeq(s, 1, Lesser(a, n)) \o p = SubSeq(s, 1, Lesser(a + k, n))
        /\ a <= n => Len(p) = Lesser(a + k, n) - a
        /\ a > n => p = <<>>
  <2>1. PageFrom(e) = SubSeq(s, a + 1, Lesser(a + k, Len(s)))
    BY <1>5, <1>7, <1>8 DEF PageFrom
  <2>2. /\ PageFrom(e) \in Seq(Nat)
        /\ SubSeq(s, 1, Lesser(a, Len(s))) \o PageFrom(e) = SubSeq(s, 1, Lesser(a + k, Len(s)))
        /\ a <= Len(s) => Len(PageFrom(e)) = Lesser(a + k, Len(s)) - a
        /\ a > Len(s) => PageFrom(e) = <<>>
    <3>1. /\ SubSeq(s, a + 1, Lesser(a + k, Len(s))) \in Seq(Nat)
          /\ SubSeq(s, 1, Lesser(a, Len(s))) \o SubSeq(s, a + 1, Lesser(a + k, Len(s)))
               = SubSeq(s, 1, Lesser(a + k, Len(s)))
          /\ a <= Len(s) =>
                Len(SubSeq(s, a + 1, Lesser(a + k, Len(s)))) = Lesser(a + k, Len(s)) - a
          /\ a > Len(s) => SubSeq(s, a + 1, Lesser(a + k, Len(s))) = <<>>
      BY PageFollows, Zenon
    <3>2. QED
      BY <2>1, <3>1, Zenon
  <2>3. QED
    BY <1>6, <2>2
<1>10. PICK f \in CsvFile : f = temp[e]
  BY <1>1 DEF CsvTypes
<1>11. f.by = {e} /\ (f.bad => streamError[e]) /\ f.rows \in Seq(Nat) /\ opened[e] >= 1
       /\ (opened[e] = Len(tables) => f.rows = SubSeq(s, 1, Lesser(a, n)))
  BY <1>2, <1>3, <1>4, <1>5, <1>6, <1>8, <1>10 DEF FileFits, CsvFile, RowsUpTo
<1>12. CASE IsPastEnd(e)
  <2>1. step' = [step EXCEPT ![e] = "ending"] /\ UNCHANGED temp
    BY <1>12 DEF ReadsPage, Goes
  <2>2. CsvTypes' /\ step'[e] = "ending" /\ \A x \in Exports : x # e => SameExport(x)
    BY <1>1, <1>2, <2>1 DEF CsvTypes, Works, Asks, SameExport
  <2>3. a >= n
    <3> SUFFICES ASSUME a < n PROVE FALSE
      BY <1>6, <1>8
    <3>1. Len(p) = 0
      BY <1>9, <1>12 DEF IsPastEnd
    <3>2. Lesser(a + k, n) - a >= 1
      BY <1>7 DEF Lesser
    <3>3. a <= n
      OBVIOUS
    <3>4. QED
      BY <1>9, <3>1, <3>2, <3>3
  <2>4. SubSeq(s, 1, Lesser(a, n)) = s
    <3>1. Lesser(a, n) = n
      BY <2>3 DEF Lesser
    <3>2. SubSeq(s, 1, Len(s)) = s
      BY SubSeqFull
    <3>3. QED
      BY <1>6, <3>1, <3>2
  <2>5. FileFits(e)'
    BY <1>2, <1>5, <1>10, <1>11, <2>1, <2>2, <2>4 DEF FileFits
  <2>6. ReadThrough(e)' = start[e]
    BY <1>2, <2>2 DEF ReadThrough
  <2>7. CountFits(e)'
    BY <1>2, <1>3, <1>4, <2>1, <2>2, <2>6 DEF CountFits, KeepsRows, Outgrown
  <2>8. ExportFits(e)'
    BY <1>1, <1>2, <2>2, <2>5, <2>7 DEF ExportFits, EarlySteps, FileSteps
  <2>9. QED
    BY <1>2, <2>2, <2>8, ExportOn
<1>13. CASE ~IsPastEnd(e)
  <2>1. /\ step' = [step EXCEPT ![e] = "writing"]
        /\ temp' = [temp EXCEPT ![e].rows = @ \o p]
    BY <1>9, <1>13 DEF ReadsPage, Goes, TempPath
  <2>2. f.rows \o p \in Seq(Nat) /\ Len(f.rows \o p) = Len(f.rows) + Len(p)
        /\ Len(p) \in Nat /\ Len(f.rows) \in Nat
    BY <1>11, ConcatProperties
  <2>3. PICK g \in CsvFile : /\ temp' = [temp EXCEPT ![e] = g]
                             /\ g.by = {e} /\ g.rows = f.rows \o p /\ (g.bad <=> f.bad)
    <3>1. [f EXCEPT !.rows = f.rows \o p] \in CsvFile
      BY <2>2 DEF CsvFile
    <3>2. temp' = [temp EXCEPT ![e] = [f EXCEPT !.rows = f.rows \o p]]
      BY <1>1, <1>10, <2>1 DEF CsvTypes
    <3>3. f \in [by : SUBSET Exports, rows : Seq(Nat), bad : BOOLEAN]
      BY DEF CsvFile
    <3>4. /\ [f EXCEPT !.rows = f.rows \o p].by = {e}
          /\ [f EXCEPT !.rows = f.rows \o p].rows = f.rows \o p
          /\ [f EXCEPT !.rows = f.rows \o p].bad <=> f.bad
      BY <1>11, <3>3
    <3>5. QED
      BY <3>1, <3>2, <3>4
  <2>4. /\ CsvTypes' /\ step'[e] = "writing" /\ temp'[e] = g
        /\ \A x \in Exports : x # e => SameExport(x)
    <3>1. step' = [step EXCEPT ![e] = "writing"] /\ temp' = [temp EXCEPT ![e] = g]
      BY <2>1, <2>3
    <3>2. CsvTypes'
      BY <1>1, <1>2, <3>1 DEF CsvTypes, Works, Asks
    <3>3. QED
      BY <1>1, <1>2, <3>1, <3>2 DEF CsvTypes, SameExport
  <2>5. ReadThrough(e)' = a + k
    BY <1>2, <1>7, <1>8, <2>4 DEF ReadThrough
  <2>6. FileFits(e)'
    <3>1. opened[e] = Len(tables) => g.rows = SubSeq(s, 1, Lesser(a + k, n))
      BY <1>9, <1>11, <2>3
    <3>2. RowsUpTo(ReadThrough(e))' = SubSeq(s, 1, Lesser(a + k, n))
      BY <1>2, <1>5, <1>6, <2>5 DEF RowsUpTo
    <3>3. QED
      BY <1>2, <1>11, <2>3, <2>4, <3>1, <3>2 DEF FileFits
  <2>7. a > rowCount[e] => Outgrown(e)
    <3> SUFFICES ASSUME a > rowCount[e] PROVE Outgrown(e)
      OBVIOUS
    <3>1. a > 0
      BY <1>4
    <3>2. n >= a
      <4>1. p # <<>>
        BY <1>8, <1>9, <1>13, <3>1 DEF IsPastEnd
      <4>2. QED
        BY <1>6, <1>9, <4>1
    <3>3. Len(tables[Len(tables)]) > rowCount[e]
      BY <1>1, <1>4, <1>5, <1>6, <3>2, TableIs
    <3>4. Len(tables) \in opened[e]..Len(tables)
      <4>1. opened[e] \in Nat /\ Len(tables) \in Nat /\ opened[e] <= Len(tables)
        BY <1>1, TableIs DEF CsvTypes, ExportFits
      <4>2. QED
        BY <4>1
    <3>5. QED
      BY <3>3, <3>4 DEF Outgrown
  <2>8. KeepsRows(e) => Lesser(a + k, rowCount[e]) <= Len(g.rows)
    <3> SUFFICES ASSUME KeepsRows(e) PROVE Lesser(a + k, rowCount[e]) <= Len(g.rows)
      OBVIOUS
    <3>1. Lesser(a, rowCount[e]) <= Len(f.rows)
      BY <1>3, <1>4, <1>8, <1>10 DEF CountFits
    <3>2. n >= rowCount[e]
      <4>1. Len(tables) \in opened[e]..Len(tables)
        <5>1. opened[e] \in Nat /\ Len(tables) \in Nat /\ opened[e] <= Len(tables)
          BY <1>1, TableIs DEF CsvTypes, ExportFits
        <5>2. QED
          BY <5>1
      <4>2. Len(tables[Len(tables)]) >= rowCount[e]
        BY <4>1 DEF KeepsRows
      <4>3. QED
        BY <1>1, <1>5, <1>6, <4>2, TableIs
    <3>3. Len(g.rows) = Len(f.rows) + Len(p)
      BY <2>2, <2>3
    <3>4. PICK c \in Nat : c = rowCount[e]
      BY <1>4
    <3>5. CASE a >= c
      BY <2>2, <3>1, <3>3, <3>4, <3>5 DEF Lesser
    <3>6. CASE a < c
      <4>1. a <= n /\ Lesser(a, c) = a
        BY <3>2, <3>4, <3>6 DEF Lesser
      <4>2. Len(p) = Lesser(a + k, n) - a
        BY <1>9, <4>1
      <4>3. Lesser(a + k, c) <= Lesser(a + k, n) /\ Lesser(a + k, n) \in Nat
        BY <3>2, <3>4 DEF Lesser
      <4>4. a <= Len(f.rows)
        BY <3>1, <3>4, <4>1
      <4>5. Lesser(a + k, c) \in Nat
        BY DEF Lesser
      <4>6. QED
        BY <2>2, <3>3, <3>4, <4>2, <4>3, <4>4, <4>5
    <3>7. QED
      BY <3>5, <3>6
  <2>9. CountFits(e)'
    <3>1. rowsDone[e] <= start[e] /\ (rowsDone[e] > rowCount[e] => Outgrown(e))
      BY <1>3 DEF CountFits
    <3>2. (Outgrown(e)' <=> Outgrown(e)) /\ (KeepsRows(e)' <=> KeepsRows(e))
      BY <1>2 DEF Outgrown, KeepsRows
    <3>3. start'[e] = a /\ rowCount'[e] = rowCount[e] /\ rowsDone'[e] = rowsDone[e]
      BY <1>2, <1>8
    <3>4. QED
      BY <1>8, <2>4, <2>5, <2>7, <2>8, <3>1, <3>2, <3>3 DEF CountFits
  <2>10. ExportFits(e)'
    BY <1>1, <1>2, <2>4, <2>6, <2>9 DEF ExportFits, EarlySteps, FileSteps
  <2>11. QED
    BY <1>2, <2>4, <2>10, ExportOn
<1>14. QED
  BY <1>12, <1>13

LEMMA StreamFailsOn ==
    ASSUME CsvInv, NEW e \in Exports, StreamFails(e)
    PROVE  CsvInv'
<1>1. CsvTypes /\ ExportFits(e)
  BY DEF CsvInv
<1>2. /\ step[e] \in {"writing", "ending"} /\ streamError' = [streamError EXCEPT ![e] = TRUE]
      /\ temp' = [temp EXCEPT ![e].bad = TRUE]
      /\ UNCHANGED <<tables, opened, rowCount, destination, step, start, rowsDone, aborted,
                     outcome, kept>>
  BY DEF StreamFails, TempPath, pages
<1>3. FileFits(e) /\ CountFits(e)
  BY <1>1, <1>2 DEF ExportFits, FileSteps
<1>4. PICK g \in CsvFile : /\ temp' = [temp EXCEPT ![e] = g]
                           /\ g.by = temp[e].by /\ g.rows = temp[e].rows
  <2>1. PICK f \in CsvFile : f = temp[e]
    BY <1>1 DEF CsvTypes
  <2>2. [f EXCEPT !.bad = TRUE] \in CsvFile
    BY DEF CsvFile
  <2>3. temp' = [temp EXCEPT ![e] = [f EXCEPT !.bad = TRUE]]
    BY <1>1, <1>2, <2>1 DEF CsvTypes
  <2>4. f \in [by : SUBSET Exports, rows : Seq(Nat), bad : BOOLEAN]
    BY DEF CsvFile
  <2>5. [f EXCEPT !.bad = TRUE].by = f.by /\ [f EXCEPT !.bad = TRUE].rows = f.rows
    BY <2>4
  <2>6. QED
    BY <2>1, <2>2, <2>3, <2>5
<1>5. temp'[e] = g /\ streamError'[e]
  BY <1>1, <1>2, <1>4 DEF CsvTypes
<1>6. CsvTypes'
  <2>1. streamError' \in [Exports -> BOOLEAN]
    BY <1>1, <1>2 DEF CsvTypes
  <2>2. temp' \in [Exports -> CsvFile]
    BY <1>1, <1>4 DEF CsvTypes
  <2>3. QED
    BY <1>1, <1>2, <2>1, <2>2 DEF CsvTypes
<1>7. \A x \in Exports : x # e => SameExport(x)
  BY <1>1, <1>2, <1>4 DEF CsvTypes, SameExport
<1>8. ReadThrough(e)' = ReadThrough(e)
  BY <1>2 DEF ReadThrough
<1>9. FileFits(e)'
  BY <1>2, <1>3, <1>4, <1>5, <1>8 DEF FileFits, RowsUpTo
<1>10. CountFits(e)'
  BY <1>2, <1>3, <1>4, <1>5, <1>8 DEF CountFits, KeepsRows, Outgrown
<1>11. ExportFits(e)'
  BY <1>1, <1>2, <1>9, <1>10 DEF ExportFits, EarlySteps
<1>12. QED
  BY <1>2, <1>6, <1>7, <1>11, ExportOn

LEMMA WritesOn ==
    ASSUME CsvInv, NEW e \in Exports, Writes(e)
    PROVE  CsvInv'
<1>1. CsvTypes /\ ExportFits(e)
  BY DEF CsvInv
<1>2. /\ step[e] = "writing" /\ step[e] \in Works
      /\ UNCHANGED <<tables, opened, rowCount, destination, temp, streamError, aborted, kept>>
  BY DEF Writes, pages, Works
<1>3. CASE streamError[e]
  <2>1. Fails(e) /\ UNCHANGED <<start, rowsDone>>
    BY <1>3 DEF Writes
  <2>2. QED
    BY <1>2, <2>1, FailsOn
<1>4. CASE ~streamError[e]
  <2>1. FileFits(e) /\ CountFits(e)
    BY <1>1, <1>2 DEF ExportFits, FileSteps
  <2>2. PICK a \in Nat, k \in Nat, c \in Nat :
           a = start[e] /\ k = PageSize /\ c = rowCount[e]
    BY <1>1, TableIs DEF CsvTypes
  <2>3. PICK d \in Nat :
           /\ d = IF c = 0 THEN 0 ELSE RowsShown(a, a + k, c)
           /\ d <= a + k /\ (d > c => a > c)
    BY DEF RowsShown, Lesser
  <2>4. /\ step' = [step EXCEPT ![e] = "reading"] /\ start' = [start EXCEPT ![e] = a + k]
        /\ rowsDone' = [rowsDone EXCEPT ![e] = d] /\ UNCHANGED outcome
    BY <1>4, <2>2, <2>3 DEF Writes, Goes
  <2>5. a + k \in Nat
    OBVIOUS
  <2>6. /\ CsvTypes' /\ step'[e] = "reading" /\ start'[e] = a + k /\ rowsDone'[e] = d
        /\ \A x \in Exports : x # e => SameExport(x)
    BY <1>1, <1>2, <2>4, <2>5 DEF CsvTypes, Works, Asks, SameExport
  <2>7. ReadThrough(e) = a + k /\ ReadThrough(e)' = a + k
    BY <1>2, <2>2, <2>6 DEF ReadThrough
  <2>8. FileFits(e)'
    BY <1>2, <2>1, <2>6, <2>7 DEF FileFits, RowsUpTo
  <2>9. CountFits(e)'
    <3>1. (Outgrown(e)' <=> Outgrown(e)) /\ (KeepsRows(e)' <=> KeepsRows(e))
      BY <1>2 DEF Outgrown, KeepsRows
    <3>2. /\ a > c => Outgrown(e)
          /\ KeepsRows(e) => Lesser(a + k, c) <= Len(temp[e].rows)
      BY <1>2, <2>1, <2>2, <2>7 DEF CountFits
    <3>3. d <= a + k /\ (d > c => Outgrown(e))
      BY <2>3, <3>2
    <3>4. rowCount'[e] = c /\ temp'[e] = temp[e]
      BY <1>2, <2>2
    <3>5. QED
      BY <2>6, <2>7, <3>1, <3>2, <3>3, <3>4 DEF CountFits
  <2>10. ExportFits(e)'
    BY <1>1, <1>2, <2>6, <2>8, <2>9 DEF ExportFits, EarlySteps
  <2>11. QED
    BY <1>2, <2>6, <2>10, ExportOn
<1>5. QED
  BY <1>3, <1>4

LEMMA EndsFileOn ==
    ASSUME CsvInv, NEW e \in Exports, EndsFile(e)
    PROVE  CsvInv'
<1>1. CsvTypes /\ ExportFits(e)
  BY DEF CsvInv
<1>2. /\ step[e] = "ending" /\ step[e] \in Works
      /\ UNCHANGED <<tables, opened, rowCount, destination, temp, start, rowsDone, streamError,
                     aborted, kept>>
  BY DEF EndsFile, pages, Works
<1>3. CASE streamError[e]
  <2>1. Fails(e)
    BY <1>3 DEF EndsFile, AfterFlush
  <2>2. QED
    BY <1>2, <2>1, FailsOn
<1>4. CASE ~streamError[e]
  <2>1. step' = [step EXCEPT ![e] = "renaming"] /\ UNCHANGED outcome
    BY <1>4 DEF EndsFile, AfterFlush, Goes
  <2>2. CsvTypes' /\ step'[e] = "renaming" /\ \A x \in Exports : x # e => SameExport(x)
    BY <1>1, <1>2, <2>1 DEF CsvTypes, Works, Asks, SameExport
  <2>3. FileFits(e) /\ CountFits(e)
    BY <1>1, <1>2 DEF ExportFits, FileSteps
  <2>4. ReadThrough(e)' = ReadThrough(e)
    BY <1>2, <2>2 DEF ReadThrough
  <2>5. FileFits(e)'
    BY <1>2, <2>2, <2>3 DEF FileFits
  <2>6. CountFits(e)'
    BY <1>2, <2>2, <2>3, <2>4 DEF CountFits, KeepsRows, Outgrown
  <2>7. ExportFits(e)'
    BY <1>1, <1>2, <1>4, <2>2, <2>5, <2>6 DEF ExportFits, EarlySteps
  <2>8. QED
    BY <1>2, <2>2, <2>7, ExportOn
<1>5. QED
  BY <1>3, <1>4

LEMMA RenamesOn ==
    ASSUME CsvInv, NEW e \in Exports, Renames(e)
    PROVE  CsvInv'
<1>1. CsvTypes /\ ExportFits(e)
  BY DEF CsvInv
<1>2. /\ step[e] = "renaming" /\ step[e] \in Works
      /\ UNCHANGED <<tables, opened, rowCount, start, rowsDone, streamError, aborted, kept>>
  BY DEF Renames, pages, Works
<1>3. CASE Fails(e) /\ UNCHANGED <<destination, temp>>
  BY <1>2, <1>3, FailsOn
<1>4. CASE /\ destination' = temp[TempPath(e)]
           /\ temp' = [temp EXCEPT ![TempPath(e)] = NoFile]
           /\ outcome' = [outcome EXCEPT ![e] = "succeeded"]
           /\ Goes(e, "over")
  <2>1. /\ destination' = temp[e] /\ temp' = [temp EXCEPT ![e] = NoFile]
        /\ step' = [step EXCEPT ![e] = "over"]
    BY <1>4 DEF TempPath, Goes
  <2>2. NoFile \in CsvFile
    BY DEF NoFile, CsvFile
  <2>3. /\ CsvTypes' /\ step'[e] = "over" /\ outcome'[e] = "succeeded" /\ temp'[e] = NoFile
        /\ \A x \in Exports : x # e => SameExport(x)
    <3>1. outcome' = [outcome EXCEPT ![e] = "succeeded"]
      BY <1>4
    <3>2. CsvTypes'
      <4>1. destination' \in CsvFile /\ temp' \in [Exports -> CsvFile]
        BY <1>1, <2>1, <2>2 DEF CsvTypes
      <4>2. /\ step' \in [Exports -> Works \cup {"idle", "cleaning", "over"}]
            /\ outcome' \in [Exports -> {"none", "declined", "cancelled", "failed", "succeeded"}]
        BY <1>1, <2>1, <3>1 DEF CsvTypes
      <4>3. QED
        BY <1>1, <1>2, <4>1, <4>2 DEF CsvTypes
    <3>3. step'[e] = "over" /\ outcome'[e] = "succeeded" /\ temp'[e] = NoFile
      BY <1>1, <2>1, <3>1 DEF CsvTypes
    <3>4. \A x \in Exports : x # e => SameExport(x)
      BY <1>1, <1>2, <2>1, <3>1 DEF CsvTypes, SameExport
    <3>5. QED
      BY <3>2, <3>3, <3>4
  <2>4. FileFits(e)
    BY <1>1, <1>2 DEF ExportFits, FileSteps
  <2>5. (CancelsInTime => ~aborted[e]) /\ ~streamError[e]
    BY <1>1, <1>2 DEF ExportFits
  <2>6. /\ temp[e].by = {e} /\ ~temp[e].bad
        /\ opened[e] = Len(tables) => temp[e].rows = Last(tables)
    BY <1>2, <2>4, <2>5 DEF FileFits
  <2>7. DestinationFits'
    BY <1>2, <2>1, <2>3, <2>5, <2>6 DEF DestinationFits
  <2>8. ExportFits(e)'
    BY <1>1, <1>2, <2>3 DEF ExportFits, EarlySteps, FileSteps
  <2>9. \A x \in Exports : ExportFits(x)'
    <3>1. \A x \in Exports : x # e => ExportFits(x)'
      BY <1>2, <2>3, OtherExports DEF CsvInv
    <3>2. QED
      BY <2>8, <3>1
  <2>10. QED
    BY <2>3, <2>7, <2>9 DEF CsvInv
<1>5. QED
  BY <1>3, <1>4 DEF Renames

LEMMA CleansOn ==
    ASSUME CsvInv, NEW e \in Exports, Cleans(e)
    PROVE  CsvInv'
<1>1. CsvTypes /\ ExportFits(e)
  BY DEF CsvInv
<1>2. /\ step[e] = "cleaning" /\ step' = [step EXCEPT ![e] = "over"]
      /\ UNCHANGED <<tables, opened, rowCount, destination, start, rowsDone, streamError, aborted,
                     outcome>>
      /\ \/ temp' = [temp EXCEPT ![e] = NoFile] /\ UNCHANGED kept
         \/ kept' = kept \cup {e} /\ UNCHANGED temp
  BY DEF Cleans, Removes, TempPath, Goes, pages
<1>3. NoFile \in CsvFile
  BY DEF NoFile, CsvFile
<1>4. /\ CsvTypes' /\ step'[e] = "over" /\ (temp'[e] = NoFile \/ e \in kept')
      /\ \A x \in Exports : x # e => SameExport(x)
  BY <1>1, <1>2, <1>3 DEF CsvTypes, Works, Asks, SameExport
<1>5. ExportFits(e)'
  BY <1>1, <1>2, <1>4 DEF ExportFits, EarlySteps, FileSteps
<1>6. QED
  BY <1>2, <1>4, <1>5, ExportOn

(* A table that changes is no longer the one any export has opened.        *)
LEMMA ChangesOn ==
    ASSUME CsvInv, Changes
    PROVE  CsvInv'
<1>1. CsvTypes /\ DestinationFits
  BY DEF CsvInv
<1>2. PICK t \in Tables : tables' = Append(tables, t)
  BY DEF Changes
<1>3. UNCHANGED <<destination, temp, step, opened, rowCount, start, rowsDone, streamError,
                  aborted, outcome, kept>>
  BY DEF Changes
<1>4. t \in Seq(Nat)
  BY CxAssumption, Zenon
<1>5. PICK n \in Nat : n = Len(tables)
  BY <1>1, TableIs
<1>6. /\ tables' \in Seq(Seq(Nat)) /\ tables' # <<>> /\ Len(tables') = n + 1
      /\ \A i \in 1..n : tables'[i] = tables[i]
  <2>1. tables \in Seq(Seq(Nat))
    BY <1>1 DEF CsvTypes
  <2>2. /\ Append(tables, t) \in Seq(Seq(Nat)) /\ Append(tables, t) # <<>>
        /\ Len(Append(tables, t)) = Len(tables) + 1
        /\ \A i \in 1..Len(tables) : Append(tables, t)[i] = tables[i]
    BY <1>4, <2>1, AppendProperties
  <2>3. QED
    BY <1>2, <1>5, <2>2
<1>7. CsvTypes'
  BY <1>1, <1>3, <1>6 DEF CsvTypes
<1>8. ASSUME NEW x \in Exports
      PROVE  ExportFits(x)'
  <2>1. ExportFits(x) /\ opened[x] \in Nat
    BY <1>1 DEF CsvInv, CsvTypes
  <2>2. opened[x] <= n /\ opened'[x] = opened[x] /\ opened'[x] # Len(tables')
    BY <1>3, <1>5, <1>6, <2>1 DEF ExportFits
  <2>3. ReadThrough(x)' = ReadThrough(x)
    BY <1>3 DEF ReadThrough
  <2>4. FileFits(x) => FileFits(x)'
    BY <1>3, <2>2 DEF FileFits
  <2>5. ASSUME FileFits(x)
        PROVE  (Outgrown(x) => Outgrown(x)') /\ (KeepsRows(x)' => KeepsRows(x))
    <3>1. PICK o \in Nat : o = opened[x] /\ o >= 1
      BY <2>1, <2>5 DEF FileFits
    <3>2. \A i \in o..n : i \in o..(n + 1) /\ i \in 1..n
      BY <3>1
    <3>3. \A i \in o..n : i \in o..(n + 1) /\ tables'[i] = tables[i]
      BY <1>6, <3>2
    <3>4. Len(tables) = n /\ Len(tables') = n + 1 /\ opened'[x] = o /\ opened[x] = o
          /\ rowCount'[x] = rowCount[x]
      BY <1>3, <1>5, <1>6, <3>1
    <3>5. QED
      BY <3>3, <3>4 DEF Outgrown, KeepsRows
  <2>6. FileFits(x) /\ CountFits(x) => CountFits(x)'
    BY <1>3, <2>3, <2>5 DEF CountFits
  <2>7. opened'[x] <= Len(tables')
    BY <1>6, <2>1, <2>2
  <2>8. QED
    BY <1>3, <2>1, <2>2, <2>4, <2>6, <2>7 DEF ExportFits
<1>9. DestinationFits'
  <2>1. \A x \in destination.by : opened'[x] # Len(tables')
    <3> SUFFICES ASSUME NEW x \in destination.by PROVE opened'[x] # Len(tables')
      OBVIOUS
    <3>1. x \in Exports
      BY <1>1 DEF CsvTypes, CsvFile
    <3>2. ExportFits(x) /\ opened[x] \in Nat
      BY <1>1, <3>1 DEF CsvInv, CsvTypes
    <3>3. QED
      BY <1>3, <1>5, <1>6, <3>2 DEF ExportFits
  <2>2. QED
    BY <1>1, <1>3, <2>1 DEF DestinationFits
<1>10. QED
  BY <1>7, <1>8, <1>9 DEF CsvInv

LEMMA CsvBegins ==
    ASSUME CxInit
    PROVE  CsvInv
<1>1. PICK t \in Tables : tables = <<t>>
  BY DEF CxInit
<1>2. t \in Seq(Nat)
  BY CxAssumption, Zenon
<1>3. tables \in Seq(Seq(Nat)) /\ tables # <<>> /\ Len(tables) = 1
  BY <1>1, <1>2
<1>4. NoFile \in CsvFile /\ NoFile.by = {}
  BY DEF NoFile, CsvFile
<1>5. CsvTypes
  BY <1>3, <1>4 DEF CxInit, CsvTypes, Works, Asks
<1>6. \A e \in Exports : ExportFits(e)
  BY <1>3 DEF CxInit, ExportFits, FileSteps
<1>7. DestinationFits
  BY <1>4 DEF CxInit, DestinationFits
<1>8. QED
  BY <1>5, <1>6, <1>7 DEF CsvInv

LEMMA CsvStep ==
    ASSUME CsvInv, [CxNext]_cxVars
    PROVE  CsvInv'
<1>1. CASE UNCHANGED cxVars
  <2>1. tables' = tables /\ destination' = destination /\ \A x \in Exports : SameExport(x)
    BY <1>1 DEF cxVars, SameExport
  <2>2. \A x \in Exports : ExportFits(x)'
    BY <2>1, OtherExports DEF CsvInv
  <2>3. CsvTypes' /\ DestinationFits'
    BY <1>1 DEF cxVars, CsvInv, CsvTypes, DestinationFits
  <2>4. QED
    BY <2>2, <2>3 DEF CsvInv
<1>2. CASE CxNext
  BY <1>2, ChangesOn, StartsOn, CancelsOn, IsRefusedOn, IsOpenedOn, IsSampledOn, IsConfirmedOn,
     ReadsPageOn, StreamFailsOn, WritesOn, EndsFileOn, RenamesOn, CleansOn DEF CxNext, Export
<1>3. QED
  BY <1>1, <1>2

LEMMA CsvIsWholeThen ==
    ASSUME CsvInv
    PROVE  /\ DestinationIsWhole /\ NoLitter /\ ShowsRowsWritten
           /\ CancelsInTime => CancelledLeavesIt
<1>1. CsvTypes /\ DestinationFits
  BY DEF CsvInv
<1>2. DestinationIsWhole /\ (CancelsInTime => CancelledLeavesIt)
  BY <1>1 DEF DestinationFits, DestinationIsWhole, CancelledLeavesIt
<1>3. NoLitter
  BY DEF CsvInv, ExportFits, NoLitter
<1>4. ShowsRowsWritten
  <2> SUFFICES ASSUME NEW e \in Exports, Exporting(e), KeepsRows(e)
               PROVE  /\ Lesser(rowsDone[e], rowCount[e]) <= Len(temp[e].rows)
                      /\ rowsDone[e] > rowCount[e] => Outgrown(e)
    BY DEF ShowsRowsWritten
  <2>1. CountFits(e)
    BY DEF CsvInv, ExportFits, Exporting, FileSteps
  <2>2. /\ rowsDone[e] <= start[e] /\ (rowsDone[e] > rowCount[e] => Outgrown(e))
        /\ Lesser(ReadThrough(e), rowCount[e]) <= Len(temp[e].rows)
    BY <2>1 DEF CountFits
  <2>3. /\ rowsDone[e] \in Nat /\ rowCount[e] \in Nat /\ start[e] \in Nat /\ PageSize \in Nat
        /\ Len(temp[e].rows) \in Nat
    BY <1>1, TableIs DEF CsvTypes, CsvFile
  <2>4. ReadThrough(e) \in Nat /\ start[e] <= ReadThrough(e)
    BY <2>3 DEF ReadThrough
  <2>5. QED
    BY <2>2, <2>3, <2>4 DEF Lesser
<1>5. QED
  BY <1>2, <1>3, <1>4

LEMMA TablesStep ==
    /\ SessionDataInit => ViewerInv /\ CsvInv
    /\ (ViewerInv /\ CsvInv) /\ [SessionDataNext]_sessionDataVars => (ViewerInv /\ CsvInv)'
BY ViewerBegins, CsvBegins, ViewerPartsStep, CsvPartsStep, ViewerStep, CsvStep
   DEF SessionDataInit

(* Whatever sorts and filters the user chooses, and in whatever order the   *)
(* answers come or are lost, the grid shows the rows of the last of them;   *)
(* the session keeps no view but the source's, those being made or deleted, *)
(* and those left by a delete that failed or a request that got no good     *)
(* answer (dataViewerPanel.ts, librarySource.ts); and a file an export      *)
(* has put in the place of the one asked for is the whole table it opened,  *)
(* every row once, with nothing left beside it (csvExportCommand.ts): for   *)
(* any number of requests, views, exports, rows and page sizes, and also if *)
(* the user cancels after the last page.                                    *)
THEOREM TablesFit ==
    SessionDataSpec => [](/\ RowsFitTheChoice /\ NoViewForgotten
                          /\ DestinationIsWhole /\ NoLitter /\ ShowsRowsWritten)
<1>1. ViewerInv /\ CsvInv => /\ RowsFitTheChoice /\ NoViewForgotten
                            /\ DestinationIsWhole /\ NoLitter /\ ShowsRowsWritten
  BY CsvIsWholeThen DEF ViewerInv
<1>2. QED
  BY <1>1, TablesStep, PTL DEF SessionDataSpec

(* All of that, and no file asked for is replaced by an export the user has *)
(* cancelled, if nobody cancels between the last page and the rename: the   *)
(* code does not look at the signal there.                                  *)
THEOREM TablesHold ==
    ASSUME "late cancel" \notin CxMayMeet
    PROVE  SessionDataSpec => []TablesAreWhole
<1>1. ViewerInv /\ CsvInv => TablesAreWhole
  <2>1. CancelsInTime
    BY Zenon DEF CancelsInTime
  <2>2. QED
    BY <2>1, CsvIsWholeThen DEF ViewerInv, TablesAreWhole, CsvIsWhole
<1>2. QED
  BY <1>1, TablesStep, PTL DEF SessionDataSpec

-----------------------------------------------------------------------------
(* Types, whatever meets what.  Filerefs: a run that is still looking for  *)
(* a name has a try left.                                                  *)
TriesLeft == \A h \in Hosts : at[Run(h)] # "idle" => attempts[h] < Attempts
FrTyped ==
    /\ FrTypes /\ TriesLeft
    /\ attempts \in [Hosts -> 0..Attempts] /\ blind \in [Hosts -> BOOLEAN]
    /\ refused \subseteq Hosts \X BOOLEAN

LEMMA HighestFits ==
    ASSUME NEW S \in SUBSET NumbersHeld
    PROVE  HighestOf(S) \in 0..MaxNumber
<1>1. PICK m \in Nat : m = MaxNumber
  BY BoundFits
<1>2. S \in SUBSET (0..m)
  <2>1. \A n \in 1..m : n \in 0..m
    OBVIOUS
  <2>2. QED
    BY <1>1, <2>1 DEF NumbersHeld
<1>3. CASE S = {}
  BY <1>1, <1>3 DEF HighestOf
<1>4. CASE S # {}
  <2>1. Max(S) \in S
    BY <1>1, <1>2, <1>4, Greatest
  <2>2. HighestOf(S) = Max(S)
    BY <1>4 DEF HighestOf
  <2>3. QED
    BY <1>1, <1>2, <2>1, <2>2
<1>5. QED
  BY <1>3, <1>4

LEMMA ContentFits ==
    ASSUME FrTypes, NEW a \in Writers
    PROVE  Bytes(a) \in Contents /\ a[1] \in Hosts
<1>1. a[1] \in Hosts
  BY Names
<1>2. tokens[a[1]] \in Nat /\ programs[a[1]] \in Nat
  BY <1>1 DEF FrTypes
<1>3. QED
  BY <1>1, <1>2 DEF Bytes, Contents

(* A fileref that is written, or that comes to be.                         *)
LEMMA WriteTyped ==
    ASSUME FrTypes, NEW n \in FilerefNames, NEW c \in Contents,
           \/ UNCHANGED filerefs
           \/ filerefs' = [filerefs EXCEPT ![n] = Assigned]
           \/ filerefs' = [filerefs EXCEPT ![n] = Users]
           \/ filerefs' = [filerefs EXCEPT ![n].content = c, ![n].etag = @ + 1]
    PROVE  filerefs' \in [FilerefNames -> Fileref]
<1>1. filerefs \in [FilerefNames -> Fileref] /\ filerefs[n] \in Fileref
  BY DEF FrTypes
<1>2. Assigned \in Fileref /\ Users \in Fileref
  BY DEF Assigned, Users, Fileref, Contents
<1>3. [filerefs[n] EXCEPT !.content = c, !.etag = @ + 1] \in Fileref
  <2>1. PICK f \in Fileref : f = filerefs[n]
    BY <1>1
  <2>2. f.etag + 1 \in Nat
    BY DEF Fileref
  <2>3. PICK k \in Nat : k = f.etag + 1
    BY <2>2
  <2>4. [f EXCEPT !.content = c, !.etag = k] \in Fileref
    BY DEF Fileref
  <2>5. QED
    BY <2>1, <2>3, <2>4
<1>4. CASE filerefs' = [filerefs EXCEPT ![n].content = c, ![n].etag = @ + 1]
  <2>1. filerefs' = [filerefs EXCEPT ![n] = [filerefs[n] EXCEPT !.content = c, !.etag = @ + 1]]
    BY <1>1, <1>4 DEF Fileref
  <2>2. QED
    BY <1>1, <1>3, <2>1
<1>5. QED
  BY <1>1, <1>2, <1>4

(* A run or a delivery goes to its next request.                           *)
LEMMA MoveTyped ==
    ASSUME FrTyped, NEW a \in Writers, NEW p \in Places,
           at' = [at EXCEPT ![a] = p], UNCHANGED attempts,
           p # "idle" => at[a] # "idle" \/ \A h \in Hosts : a # Run(h)
    PROVE  at' \in [Writers -> Places] /\ TriesLeft'
<1>1. at \in [Writers -> Places]
  BY DEF FrTyped, FrTypes
<1>2. at' \in [Writers -> Places] /\ at'[a] = p /\ \A b \in Writers : b # a => at'[b] = at[b]
  BY <1>1
<1>3. ASSUME NEW h \in Hosts, at'[Run(h)] # "idle" PROVE attempts[h] < Attempts
  <2>1. Run(h) \in Writers
    BY Names
  <2>2. at[Run(h)] # "idle"
    BY <1>2, <1>3, <2>1
  <2>3. QED
    BY <2>2 DEF FrTyped, TriesLeft
<1>4. QED
  BY <1>2, <1>3 DEF TriesLeft

LEMMA OthersTyped ==
    ASSUME FrTyped, filerefs' \in [FilerefNames -> Fileref], at' \in [Writers -> Places], TriesLeft',
           UNCHANGED frBackend \/ /\ filerefCounter' \in [Hosts -> 0..MaxNumber]
                                  /\ listed' \in [Hosts -> 0..MaxNumber]
                                  /\ filerefCounterSeeded' \in [Hosts -> BOOLEAN]
                                  /\ startupUploaded' \in [Hosts -> BOOLEAN],
           target' \in [Writers -> FilerefNames], tag' \in [Writers -> Nat],
           attempts' \in [Hosts -> 0..Attempts], blind' \in [Hosts -> BOOLEAN],
           seeding' \in [Hosts -> BOOLEAN],
           UNCHANGED programs \/ programs' \in [Hosts -> Nat],
           UNCHANGED tokens \/ tokens' \in [Hosts -> Nat],
           refused' \subseteq Hosts \X BOOLEAN
    PROVE  FrTyped'
BY DEF FrTyped, FrTypes, frBackend

LEMMA WriterTyped ==
    ASSUME FrTyped, NEW a \in Writers, WriterSteps(a)
    PROVE  FrTyped'
<1>1. /\ filerefs \in [FilerefNames -> Fileref] /\ target \in [Writers -> FilerefNames]
      /\ tag \in [Writers -> Nat] /\ startupUploaded \in [Hosts -> BOOLEAN] /\ FrTypes
      /\ filerefCounter \in [Hosts -> 0..MaxNumber] /\ listed \in [Hosts -> 0..MaxNumber]
      /\ filerefCounterSeeded \in [Hosts -> BOOLEAN]
      /\ attempts \in [Hosts -> 0..Attempts] /\ blind \in [Hosts -> BOOLEAN]
      /\ seeding \in [Hosts -> BOOLEAN] /\ refused \subseteq Hosts \X BOOLEAN
  BY DEF FrTyped, FrTypes
<1>2. Bytes(a) \in Contents /\ a[1] \in Hosts /\ target[a] \in FilerefNames
  BY <1>1, ContentFits
<1>3. UNCHANGED <<attempts, blind, seeding, refused, programs, tokens, filerefCounter,
                  filerefCounterSeeded, listed>>
  BY DEF WriterSteps, GivesUp, AssignsFixed, Finds, Tags, Puts, claim, frCounts, frBackend
<1>4. PICK p \in Places : at' = [at EXCEPT ![a] = p]
  <2>1. \A s \in Places : Goto(a, s) => \E p \in Places : at' = [at EXCEPT ![a] = p]
    BY DEF Goto
  <2>2. Counts(a[1]) \in Places
    BY DEF Counts, Places
  <2>3. \E s \in Places : Goto(a, s)
    <3>1. CASE GivesUp(a)
      BY <3>1 DEF GivesUp, Places
    <3>2. CASE AssignsFixed(a)
      BY <3>2 DEF AssignsFixed, Places
    <3>3. CASE Finds(a)
      BY <3>3 DEF Finds, Places
    <3>4. CASE Tags(a)
      BY <3>4 DEF Tags, Places
    <3>5. CASE Puts(a)
      BY <3>5, <2>2 DEF Puts, Places
    <3>6. QED
      BY <3>1, <3>2, <3>3, <3>4, <3>5 DEF WriterSteps
  <2>4. QED
    BY <2>1, <2>3
<1>5. at[a] # "idle"
  BY DEF WriterSteps, GivesUp, AssignsFixed, Finds, Tags, Puts
<1>6. at' \in [Writers -> Places] /\ TriesLeft'
  BY <1>3, <1>4, <1>5, MoveTyped
<1>7. \/ UNCHANGED filerefs
      \/ filerefs' = [filerefs EXCEPT ![target[a]] = Assigned]
      \/ filerefs' = [filerefs EXCEPT ![target[a]].content = Bytes(a), ![target[a]].etag = @ + 1]
  BY DEF WriterSteps, GivesUp, AssignsFixed, Finds, Tags, Puts
<1>8. filerefs' \in [FilerefNames -> Fileref]
  BY <1>1, <1>2, <1>7, WriteTyped
<1>9. target' \in [Writers -> FilerefNames] /\ tag' \in [Writers -> Nat]
  <2>1. filerefs[target[a]].etag \in Nat
    BY <1>1, <1>2 DEF Fileref
  <2>2. UNCHANGED target \/ target' = [target EXCEPT ![a] = Token]
    BY DEF WriterSteps, GivesUp, AssignsFixed, Finds, Tags, Puts, LetsGo
  <2>3. \/ UNCHANGED tag \/ tag' = [tag EXCEPT ![a] = 0]
        \/ tag' = [tag EXCEPT ![a] = filerefs[target[a]].etag]
    BY DEF WriterSteps, GivesUp, AssignsFixed, Finds, Tags, Puts, LetsGo
  <2>4. target' \in [Writers -> FilerefNames]
    BY <1>1, <2>2, Names
  <2>5. tag' \in [Writers -> Nat]
    <3> HIDE DEF Writers
    <3>1. \A k \in Nat : tag' = [tag EXCEPT ![a] = k] => tag' \in [Writers -> Nat]
      BY <1>1
    <3>2. QED
      BY <1>1, <2>1, <2>3, <3>1
  <2>6. QED
    BY <2>4, <2>5
<1>10. startupUploaded' \in [Hosts -> BOOLEAN]
  <2>1. \/ UNCHANGED startupUploaded
        \/ startupUploaded' = [startupUploaded EXCEPT ![a[1]] = @ \/ target[a] = Startup]
    BY DEF WriterSteps, GivesUp, AssignsFixed, Finds, Tags, Puts, frBackend
  <2>2. CASE startupUploaded' = [startupUploaded EXCEPT ![a[1]] = @ \/ target[a] = Startup]
    <3>1. (startupUploaded[a[1]] \/ target[a] = Startup) \in BOOLEAN
      OBVIOUS
    <3>2. QED
      BY <1>1, <1>2, <2>2, <3>1, Zenon
  <2>3. QED
    BY <1>1, <2>1, <2>2
<1>11. QED
  BY <1>1, <1>3, <1>6, <1>8, <1>9, <1>10, OthersTyped

LEMMA RunTyped ==
    ASSUME FrTyped, NEW h \in Hosts, BeginsRun(h) \/ BeginsToken(h) \/ Submits(h) \/ Reattaches(h)
    PROVE  FrTyped'
<1> DEFINE a == Run(h)
           d == Deliver(h)
<1>1. /\ filerefs \in [FilerefNames -> Fileref] /\ target \in [Writers -> FilerefNames]
      /\ tag \in [Writers -> Nat] /\ startupUploaded \in [Hosts -> BOOLEAN]
      /\ filerefCounter \in [Hosts -> 0..MaxNumber] /\ listed \in [Hosts -> 0..MaxNumber]
      /\ filerefCounterSeeded \in [Hosts -> BOOLEAN]
      /\ attempts \in [Hosts -> 0..Attempts] /\ blind \in [Hosts -> BOOLEAN]
      /\ seeding \in [Hosts -> BOOLEAN] /\ refused \subseteq Hosts \X BOOLEAN
      /\ at \in [Writers -> Places] /\ TriesLeft
      /\ programs \in [Hosts -> Nat] /\ tokens \in [Hosts -> Nat]
  BY DEF FrTyped, FrTypes
<1>2. a \in Writers /\ d \in Writers /\ Startup \in FilerefNames /\ Token \in FilerefNames
      /\ \A g \in Hosts : d # Run(g)
  BY Names
<1>3. Attempts \in Nat \ {0}
  BY FrAssumption
<1>4. CASE BeginsRun(h)
  <2>1. PICK p \in Places : at' = [at EXCEPT ![a] = p]
    <3>1. Counts(h) \in Places
      BY DEF Counts, Places
    <3>2. QED
      BY <1>4, <3>1 DEF BeginsRun, Goto, Places
  <2>2. PICK s \in BOOLEAN : seeding' = [seeding EXCEPT ![h] = s]
    BY <1>4 DEF BeginsRun
  <2>3. /\ programs' = [programs EXCEPT ![h] = @ + 1] /\ target' = [target EXCEPT ![a] = Startup]
        /\ attempts' = [attempts EXCEPT ![h] = 0] /\ blind' = [blind EXCEPT ![h] = FALSE]
        /\ UNCHANGED <<filerefs, frBackend, tag, tokens, refused>>
    BY <1>4 DEF BeginsRun
  <2> HIDE DEF a, d
  <2>4. /\ at' \in [Writers -> Places] /\ target' \in [Writers -> FilerefNames]
        /\ attempts' \in [Hosts -> 0..Attempts] /\ blind' \in [Hosts -> BOOLEAN]
        /\ seeding' \in [Hosts -> BOOLEAN] /\ programs' \in [Hosts -> Nat]
    BY <1>1, <1>2, <1>3, <2>1, <2>2, <2>3
  <2>5. TriesLeft'
    <3> SUFFICES ASSUME NEW g \in Hosts, at'[Run(g)] # "idle" PROVE attempts'[g] < Attempts
      BY DEF TriesLeft
    <3>1. CASE g = h
      BY <1>1, <1>3, <2>3, <3>1
    <3>2. CASE g # h
      <4>1. Run(g) # a /\ Run(g) \in Writers
        BY <3>2, Names DEF a
      <4>2. at'[Run(g)] = at[Run(g)] /\ attempts'[g] = attempts[g]
        BY <1>1, <1>2, <2>1, <2>3, <3>2, <4>1
      <4>3. QED
        BY <1>1, <4>2 DEF TriesLeft
    <3>3. QED
      BY <3>1, <3>2
  <2>6. QED
    BY <1>1, <2>3, <2>4, <2>5, OthersTyped
<1>5. CASE BeginsToken(h)
  <2>1. /\ at' = [at EXCEPT ![d] = "assigning"] /\ tokens' = [tokens EXCEPT ![h] = @ + 1]
        /\ UNCHANGED <<filerefs, frBackend, target, tag, claim, programs, refused>>
    BY <1>5 DEF BeginsToken, Goto
  <2>2. "assigning" \in Places /\ UNCHANGED <<attempts, blind, seeding>>
    BY <2>1 DEF Places, claim
  <2> HIDE DEF a, d
  <2>3. at' \in [Writers -> Places] /\ TriesLeft'
    BY <1>2, <2>1, <2>2, MoveTyped
  <2>4. tokens' \in [Hosts -> Nat]
    BY <1>1, <2>1
  <2>5. QED
    BY <1>1, <2>1, <2>2, <2>3, <2>4, OthersTyped
<1>6. CASE Submits(h)
  <2>1. /\ at' = [at EXCEPT ![a] = "idle"] /\ target' = [target EXCEPT ![a] = Token]
        /\ tag' = [tag EXCEPT ![a] = 0] /\ seeding' = [seeding EXCEPT ![h] = FALSE]
        /\ UNCHANGED <<filerefs, frBackend, attempts, blind, programs, tokens, refused>>
    BY <1>6 DEF Submits, Goto, LetsGo, frCounts
  <2>2. "idle" \in Places
    BY DEF Places
  <2> HIDE DEF a, d
  <2>3. at' \in [Writers -> Places] /\ TriesLeft'
    BY <1>2, <2>1, <2>2, MoveTyped
  <2>4. /\ target' \in [Writers -> FilerefNames] /\ tag' \in [Writers -> Nat]
        /\ seeding' \in [Hosts -> BOOLEAN]
    BY <1>1, <1>2, <2>1
  <2>5. QED
    BY <1>1, <2>1, <2>3, <2>4, OthersTyped
<1>7. CASE Reattaches(h)
  <2>1. /\ filerefCounter' = [filerefCounter EXCEPT ![h] = 0]
        /\ filerefCounterSeeded' = [filerefCounterSeeded EXCEPT ![h] = FALSE]
        /\ startupUploaded' = [startupUploaded EXCEPT ![h] = FALSE]
        /\ listed' = [listed EXCEPT ![h] = 0]
        /\ UNCHANGED <<filerefs, at, target, tag, attempts, blind, seeding, programs, tokens, refused>>
    BY <1>7 DEF Reattaches, claim
  <2>2. 0 \in 0..MaxNumber
    BY BoundFits
  <2>3. /\ filerefCounter' \in [Hosts -> 0..MaxNumber] /\ listed' \in [Hosts -> 0..MaxNumber]
        /\ filerefCounterSeeded' \in [Hosts -> BOOLEAN] /\ startupUploaded' \in [Hosts -> BOOLEAN]
    BY <1>1, <2>1, <2>2
  <2>4. TriesLeft'
    BY <1>1, <2>1 DEF TriesLeft
  <2>5. QED
    BY <1>1, <2>1, <2>3, <2>4, OthersTyped
<1>8. QED
  BY <1>4, <1>5, <1>6, <1>7

LEMMA NamingTyped ==
    ASSUME FrTyped, NEW h \in Hosts, Lists(h) \/ ClaimsName(h) \/ GivesUpClaim(h)
    PROVE  FrTyped'
<1> DEFINE a == Run(h)
           n == PY(filerefCounter[h] + 1)
<1>1. /\ filerefs \in [FilerefNames -> Fileref] /\ target \in [Writers -> FilerefNames]
      /\ tag \in [Writers -> Nat] /\ startupUploaded \in [Hosts -> BOOLEAN]
      /\ filerefCounter \in [Hosts -> 0..MaxNumber] /\ listed \in [Hosts -> 0..MaxNumber]
      /\ filerefCounterSeeded \in [Hosts -> BOOLEAN]
      /\ attempts \in [Hosts -> 0..Attempts] /\ blind \in [Hosts -> BOOLEAN]
      /\ seeding \in [Hosts -> BOOLEAN] /\ refused \subseteq Hosts \X BOOLEAN
      /\ at \in [Writers -> Places] /\ TriesLeft /\ FrTypes
  BY DEF FrTyped, FrTypes
<1>2. a \in Writers /\ Token \in FilerefNames /\ \A g \in Hosts : g # h => Run(g) # a
  BY Names
<1>3. Attempts \in Nat \ {0} /\ MaxNumber \in Nat
  BY FrAssumption, BoundFits
<1>4. CASE Lists(h)
  <2>1. /\ at[a] = "listing" /\ at' = [at EXCEPT ![a] = "claiming"]
        /\ UNCHANGED <<filerefs, startupUploaded, target, tag, attempts, seeding, programs, tokens,
                       refused>>
    BY <1>4 DEF Lists, Goto, frCounts
  <2>2. \/ /\ blind' = [blind EXCEPT ![h] = TRUE]
           /\ UNCHANGED <<filerefCounter, filerefCounterSeeded, listed>>
        \/ /\ UNCHANGED blind
           /\ \E S \in SUBSET NumbersHeld :
                filerefCounter' = [filerefCounter EXCEPT ![h] = Max({@, HighestOf(S)})]
           /\ filerefCounterSeeded' = [filerefCounterSeeded EXCEPT ![h] = TRUE]
           /\ listed' = [listed EXCEPT ![h] = HighestOf(NumbersHeld)]
    <3>1. \A S \in {EveryPage} \cup (IF "lost page" \in FrMayMeet THEN {FirstPage} ELSE {}) :
              S \in SUBSET NumbersHeld
      BY DEF EveryPage, FirstPage
    <3>2. QED
      BY <1>4, <3>1 DEF Lists
  <2>3. "claiming" \in Places
    BY DEF Places
  <2> HIDE DEF a, n
  <2>4. at' \in [Writers -> Places] /\ TriesLeft'
    BY <1>2, <2>1, <2>3, MoveTyped
  <2>5. /\ blind' \in [Hosts -> BOOLEAN] /\ filerefCounterSeeded' \in [Hosts -> BOOLEAN]
        /\ listed' \in [Hosts -> 0..MaxNumber] /\ filerefCounter' \in [Hosts -> 0..MaxNumber]
    <3>1. HighestOf(NumbersHeld) \in 0..MaxNumber
      BY HighestFits
    <3>2. CASE UNCHANGED <<filerefCounter, filerefCounterSeeded, listed>>
      BY <1>1, <2>2, <3>2
    <3>3. ASSUME NEW S \in SUBSET NumbersHeld,
                 filerefCounter' = [filerefCounter EXCEPT ![h] = Max({@, HighestOf(S)})]
          PROVE  filerefCounter' \in [Hosts -> 0..MaxNumber]
      <4> DEFINE c == filerefCounter[h]
                 e == HighestOf(S)
      <4>1. {c, e} \in SUBSET (0..MaxNumber) /\ {c, e} # {}
        BY <1>1, HighestFits
      <4>2. filerefCounter' = [filerefCounter EXCEPT ![h] = Max({c, e})]
        BY <3>3
      <4> HIDE DEF c, e
      <4>3. Max({c, e}) \in 0..MaxNumber
        BY <1>3, <4>1, Greatest
      <4>4. QED
        BY <1>1, <4>2, <4>3
    <3>4. CASE /\ UNCHANGED blind
               /\ \E S \in SUBSET NumbersHeld :
                    filerefCounter' = [filerefCounter EXCEPT ![h] = Max({@, HighestOf(S)})]
               /\ filerefCounterSeeded' = [filerefCounterSeeded EXCEPT ![h] = TRUE]
               /\ listed' = [listed EXCEPT ![h] = HighestOf(NumbersHeld)]
      <4>1. filerefCounter' \in [Hosts -> 0..MaxNumber]
        BY <3>3, <3>4
      <4>2. QED
        BY <1>1, <3>1, <3>4, <4>1
    <3>5. QED
      BY <2>2, <3>2, <3>4
  <2>6. QED
    BY <1>1, <2>1, <2>4, <2>5, OthersTyped
<1>5. ASSUME filerefCounter[h] < MaxNumber PROVE filerefCounter[h] + 1 \in 0..MaxNumber /\ n \in FilerefNames
  <2>1. filerefCounter[h] + 1 \in 1..MaxNumber
    BY <1>1, <1>3, <1>5
  <2>2. QED
    BY <2>1, Names
<1>6. CASE GivesUpClaim(h)
  <2>1. /\ filerefCounter[h] < MaxNumber /\ at[a] = "claiming"
        /\ at' = [at EXCEPT ![a] = "idle"] /\ target' = [target EXCEPT ![a] = Token]
        /\ tag' = [tag EXCEPT ![a] = 0]
        /\ UNCHANGED filerefs \/ filerefs' = [filerefs EXCEPT ![n] = Assigned]
        /\ filerefCounter' = [filerefCounter EXCEPT ![h] = @ + 1]
        /\ UNCHANGED <<filerefCounterSeeded, startupUploaded, listed, attempts, blind, seeding,
                       programs, tokens, refused>>
    BY <1>6 DEF GivesUpClaim, Goto, LetsGo, claim, frCounts
  <2>2. "idle" \in Places /\ n \in FilerefNames /\ filerefCounter[h] + 1 \in 0..MaxNumber
    BY <1>5, <2>1 DEF Places
  <2> HIDE DEF a, n
  <2>3. at' \in [Writers -> Places] /\ TriesLeft'
    BY <1>2, <2>1, <2>2, MoveTyped
  <2>4. filerefs' \in [FilerefNames -> Fileref]
    BY <1>1, <2>1, <2>2, WriteTyped, ContentFits, <1>2
  <2>5. /\ target' \in [Writers -> FilerefNames] /\ tag' \in [Writers -> Nat]
        /\ filerefCounter' \in [Hosts -> 0..MaxNumber]
    BY <1>1, <1>2, <2>1, <2>2
  <2>6. QED
    BY <1>1, <2>1, <2>3, <2>4, <2>5, OthersTyped
<1>7. CASE ClaimsName(h)
  <2>1. /\ filerefCounter[h] < MaxNumber /\ at[a] = "claiming"
        /\ filerefCounter' = [filerefCounter EXCEPT ![h] = @ + 1]
        /\ target' = [target EXCEPT ![a] = n]
        /\ UNCHANGED filerefs \/ filerefs' = [filerefs EXCEPT ![n] = Assigned]
        /\ UNCHANGED <<filerefCounterSeeded, startupUploaded, listed, tag, seeding, programs, tokens>>
    BY <1>7 DEF ClaimsName, frCounts
  <2>2. \/ /\ at' = [at EXCEPT ![a] = "tagging"] /\ UNCHANGED refused
           /\ attempts' = [attempts EXCEPT ![h] = 0] /\ blind' = [blind EXCEPT ![h] = FALSE]
        \/ /\ attempts' = [attempts EXCEPT ![h] = @ + 1] /\ UNCHANGED blind
           /\ \/ TriesMore(attempts'[h]) /\ UNCHANGED <<at, refused>>
              \/ at' = [at EXCEPT ![a] = "idle"] /\ refused' = refused \cup {<<h, blind[h]>>}
    BY <1>7 DEF ClaimsName, Goto
  <2>3. n \in FilerefNames /\ filerefCounter[h] + 1 \in 0..MaxNumber /\ attempts[h] < Attempts
    BY <1>1, <1>5, <2>1 DEF TriesLeft
  <2> HIDE DEF a, n
  <2>4. filerefs' \in [FilerefNames -> Fileref]
    BY <1>1, <1>2, <2>1, <2>3, WriteTyped, ContentFits
  <2>5. target' \in [Writers -> FilerefNames] /\ filerefCounter' \in [Hosts -> 0..MaxNumber]
    BY <1>1, <1>2, <2>1, <2>3
  <2>6. PICK k \in 0..Attempts : attempts' = [attempts EXCEPT ![h] = k]
                                 /\ (k < Attempts \/ at' = [at EXCEPT ![a] = "idle"])
    <3>1. attempts[h] + 1 \in 0..Attempts /\ 0 \in 0..Attempts /\ 0 < Attempts
      BY <1>1, <1>3, <2>3
    <3>2. CASE attempts' = [attempts EXCEPT ![h] = 0]
      BY <3>1, <3>2
    <3>3. CASE attempts' = [attempts EXCEPT ![h] = @ + 1]
      <4>1. attempts'[h] = attempts[h] + 1
        BY <1>1, <3>3
      <4>2. TriesMore(attempts'[h]) => attempts[h] + 1 < Attempts
        BY <4>1 DEF TriesMore
      <4>3. attempts' = [attempts EXCEPT ![h] = attempts[h] + 1]
        BY <3>3
      <4>4. attempts[h] + 1 < Attempts \/ at' = [at EXCEPT ![a] = "idle"]
        <5>1. CASE attempts' = [attempts EXCEPT ![h] = 0]
          BY <1>1, <4>1, <5>1
        <5>2. QED
          BY <2>2, <4>2, <5>1
      <4>5. QED
        BY <3>1, <4>3, <4>4
    <3>4. QED
      BY <2>2, <3>2, <3>3
  <2>7. attempts' \in [Hosts -> 0..Attempts]
    BY <1>1, <2>6
  <2>8. /\ at' \in [Writers -> Places] /\ blind' \in [Hosts -> BOOLEAN]
        /\ refused' \subseteq Hosts \X BOOLEAN
    <3>1. blind[h] \in BOOLEAN /\ <<h, blind[h]>> \in Hosts \X BOOLEAN
      BY <1>1
    <3>2. refused' \subseteq Hosts \X BOOLEAN
      BY <1>1, <2>2, <3>1
    <3>3. at' \in [Writers -> Places]
      BY <1>1, <1>2, <2>2 DEF Places
    <3>4. blind' \in [Hosts -> BOOLEAN]
      BY <1>1, <2>2
    <3>5. QED
      BY <3>2, <3>3, <3>4
  <2>9. TriesLeft'
    <3> SUFFICES ASSUME NEW g \in Hosts, at'[Run(g)] # "idle" PROVE attempts'[g] < Attempts
      BY DEF TriesLeft
    <3>1. CASE g = h
      <4>1. at' # [at EXCEPT ![a] = "idle"]
        BY <1>1, <1>2, <3>1 DEF a
      <4>2. QED
        BY <1>1, <2>6, <3>1, <4>1
    <3>2. CASE g # h
      <4>1. Run(g) # a /\ Run(g) \in Writers
        BY <3>2, Names DEF a
      <4>2. at'[Run(g)] = at[Run(g)] /\ attempts'[g] = attempts[g]
        BY <1>1, <1>2, <2>2, <2>6, <3>2, <4>1
      <4>3. QED
        BY <1>1, <4>2 DEF TriesLeft
    <3>3. QED
      BY <3>1, <3>2
  <2>10. QED
    BY <1>1, <2>1, <2>4, <2>5, <2>7, <2>8, <2>9, OthersTyped
<1>8. QED
  BY <1>4, <1>6, <1>7

LEMMA FilerefsTyped ==
    ASSUME FrTyped, [FrNext]_frVars
    PROVE  FrTyped'
<1>1. CASE UNCHANGED frVars
  BY <1>1 DEF frVars, FrTyped, FrTypes, TriesLeft
<1>2. ASSUME NEW h \in Hosts, BeginsRun(h) \/ BeginsToken(h) \/ Lists(h) \/ ClaimsName(h)
                              \/ GivesUpClaim(h) \/ Submits(h) \/ Reattaches(h)
      PROVE FrTyped'
  BY <1>2, RunTyped, NamingTyped
<1>3. ASSUME NEW a \in Writers, WriterSteps(a) PROVE FrTyped'
  BY <1>3, WriterTyped
<1>4. ASSUME NEW n \in {PY(Earlier + 1), Token}, UserAssigns(n) PROVE FrTyped'
  <2>1. n \in FilerefNames
    <3>1. Earlier + 1 \in 1..MaxNumber
      BY BoundFits
    <3>2. QED
      BY <3>1, Names
  <2>2. /\ filerefs' = [filerefs EXCEPT ![n] = Users]
        /\ UNCHANGED <<frBackend, at, target, tag, attempts, blind, seeding, programs, tokens, refused>>
    BY <1>4 DEF UserAssigns, claim, frCounts
  <2>3. <<"empty">> \in Contents
    BY DEF Contents
  <2>4. filerefs' \in [FilerefNames -> Fileref]
    BY <2>1, <2>2, <2>3, WriteTyped DEF FrTyped
  <2>5. QED
    BY <2>2, <2>4 DEF FrTyped, FrTypes, frBackend, TriesLeft
<1>5. QED
  BY <1>1, <1>2, <1>3, <1>4 DEF FrNext

LEMMA FilerefsBeginTyped == (FrInit => FrTyped) /\ (FrTyped => FrTypeOK)
<1>1. FrInit => FrTyped
  <2> SUFFICES ASSUME FrInit PROVE FrTyped
    OBVIOUS
  <2>1. FrTypes
    BY FrInitFits DEF FrInv
  <2>2. Attempts \in Nat \ {0}
    BY FrAssumption
  <2>3. QED
    BY <2>1, <2>2 DEF FrInit, FrTyped, TriesLeft
<1>2. FrTyped => FrTypeOK
  <2> SUFFICES ASSUME FrTyped PROVE FrTypeOK
    OBVIOUS
  <2>1. \A n \in FilerefNames : filerefs[n].owner \in {"none", "ext", "user"} /\ filerefs[n].etag \in Nat
    BY DEF FrTyped, FrTypes, Fileref
  <2>2. QED
    BY <2>1 DEF FrTyped, FrTypes, FrTypeOK, Places
<1>3. QED
  BY <1>1, <1>2

-----------------------------------------------------------------------------
(* A request is none, or has its order and its phase.                      *)
RequestStands(q) ==
    \/ q = NoRequest
    \/ q.at \in Phases /\ q.order \in Orders /\ (q.at = "discard" => q.view # None)
ViewerShapes ==
    /\ panel \in {"new", "loading", "open", "failed", "closed"}
    /\ rows \in Orders \cup {None} /\ banner \in Orders \cup {None} /\ closing \in Views \cup {None}
    /\ lost \subseteq Views /\ unheard \subseteq Views
    /\ \A r \in Requests : RequestStands(requests[r])

LEMMA DocumentShapes ==
    ASSUME ViewerInv, ViewerShapes, OpensPanel \/ LoadsTable \/ ShowsDocument \/ HidesDocument
                                    \/ ClosesPanel \/ DeletesLast
    PROVE  ViewerShapes'
<1>1. CASE OpensPanel \/ LoadsTable \/ ShowsDocument
  BY <1>1 DEF OpensPanel, LoadsTable, ShowsDocument, ViewerShapes, source
<1>2. CASE HidesDocument \/ ClosesPanel
  <2>1. ForgetsDocument
    BY <1>2 DEF HidesDocument, ClosesPanel
  <2>2. \A r \in Requests : RequestStands(requests'[r])
    <3> SUFFICES ASSUME NEW r \in Requests PROVE RequestStands(requests'[r])
      OBVIOUS
    <3>1. /\ requests'[r] \in [at : {"none"} \cup Phases, order : Orders \cup {None},
                               known : BOOLEAN, view : Views \cup {None}]
          /\ ~requests'[r].known /\ requests'[r].at = requests[r].at
          /\ requests'[r].view = requests[r].view /\ requests'[r].order = requests[r].order
      BY <2>1, ForgetsOn
    <3>2. CASE requests[r] = NoRequest
      <4>1. /\ requests'[r].at = "none" /\ requests'[r].view = None /\ requests'[r].order = None
            /\ requests'[r].known = FALSE
        BY <3>1, <3>2 DEF NoRequest
      <4>2. requests'[r] = NoRequest
        BY <3>1, <4>1 DEF NoRequest
      <4>3. QED
        BY <4>2 DEF RequestStands
    <3>3. CASE requests[r] # NoRequest
      BY <3>1, <3>3 DEF ViewerShapes, RequestStands
    <3>4. QED
      BY <3>2, <3>3
  <2>3. held.view \in Views \cup {None}
    BY DEF ViewerInv, ViewerTypes
  <2>4. rows' = None /\ banner' = None
    BY <2>1 DEF ForgetsDocument
  <2>5. /\ UNCHANGED <<lost, unheard>> /\ closing' \in {closing, held.view}
        /\ panel' \in {panel, "closed"}
    BY <1>2 DEF HidesDocument, ClosesPanel, source
  <2>6. QED
    BY <2>2, <2>3, <2>4, <2>5 DEF ViewerShapes
<1>3. CASE DeletesLast
  <2>1. /\ closing # None /\ closing' = None /\ lost' \in {lost, lost \cup {closing}}
        /\ UNCHANGED <<panel, unheard, requests, rows, banner>>
    BY <1>3 DEF DeletesLast
  <2>2. QED
    BY <2>1 DEF ViewerShapes
<1>4. QED
  BY <1>1, <1>2, <1>3

LEMMA MoveShapes ==
    ASSUME ViewerInv, ViewerShapes, NEW r \in Requests, NEW p \in Phases, NEW v \in Views \cup {None},
           Moves(r, p, v), requests[r].at \in Phases, p = "discard" => v # None,
           UNCHANGED <<panel, closing, unheard>>, lost' \subseteq Views
    PROVE  ViewerShapes'
<1>1. /\ requests'[r].at = p /\ requests'[r].view = v /\ requests'[r].order = requests[r].order
      /\ \A x \in Requests : x # r => requests'[x] = requests[x]
  BY MovesIs
<1>2. requests[r].order \in Orders
  BY DEF ViewerShapes, RequestStands, NoRequest, Phases
<1>3. \A x \in Requests : RequestStands(requests'[x])
  BY <1>1, <1>2 DEF ViewerShapes, RequestStands
<1>4. UNCHANGED <<rows, banner>>
  BY DEF Moves
<1>5. QED
  BY <1>3, <1>4 DEF ViewerShapes

LEMMA AnswerShapes ==
    ASSUME ViewerInv, ViewerShapes, NEW r \in Requests, NEW ok \in BOOLEAN,
           NEW read \in Orders \cup {None},
           Answers(r, ok, read), requests[r].order \in Orders,
           UNCHANGED <<panel, closing, lost>>, unheard' \subseteq Views
    PROVE  ViewerShapes'
<1>1. requests' = [requests EXCEPT ![r] = NoRequest]
  BY DEF Answers
<1>2. \A x \in Requests : requests'[x] = requests[x] \/ requests'[x] = NoRequest
  BY <1>1 DEF ViewerInv, ViewerTypes
<1>3. \A x \in Requests : RequestStands(requests'[x])
  BY <1>2 DEF ViewerShapes, RequestStands
<1>4. rows' \in {rows, read} /\ banner' \in {banner, None, requests[r].order}
  BY DEF Answers
<1>5. QED
  BY <1>3, <1>4 DEF ViewerShapes

LEMMA TurnShapes ==
    ASSUME ViewerInv, ViewerShapes, NEW r \in Requests,
           StartsTarget(r) \/ DiscardsView(r) \/ MakesView(r) \/ TakesView(r)
    PROVE  ViewerShapes'
<1>1. /\ requests[r].view \in Views \cup {None} /\ held.view \in Views \cup {None}
  BY DEF ViewerInv, ViewerTypes
<1>2. Sends \in Phases /\ Sends # "discard" /\ {"queued", "discard", "create", "read"} \subseteq Phases
  BY DEF Sends, Phases
<1>3. UNCHANGED <<panel, closing, unheard>>
  BY DEF StartsTarget, DiscardsView, MakesView, TakesView
<1>4. CASE StartsTarget(r)
  <2>1. requests[r].at = "queued" /\ UNCHANGED lost
    BY <1>4 DEF StartsTarget, Turn
  <2>2. \/ held.view # None /\ Moves(r, "discard", held.view)
        \/ Moves(r, "read", held.view)
        \/ Moves(r, Sends, None)
    BY <1>4 DEF StartsTarget
  <2>3. lost' \subseteq Views
    BY <2>1 DEF ViewerShapes
  <2>4. QED
    BY <1>1, <1>2, <1>3, <2>1, <2>2, <2>3, MoveShapes
<1>5. CASE DiscardsView(r)
  <2>1. requests[r].at = "discard" /\ lost' \in {lost, lost \cup {requests[r].view}}
    BY <1>5 DEF DiscardsView, Turn, Deletes
  <2>2. requests[r].view # None
    BY <2>1 DEF ViewerShapes, RequestStands, NoRequest
  <2>3. lost' \subseteq Views
    BY <1>1, <2>1, <2>2 DEF ViewerShapes
  <2>4. Moves(r, "read", None) \/ Moves(r, Sends, None)
    BY <1>5 DEF DiscardsView
  <2>5. QED
    BY <1>2, <1>3, <2>1, <2>3, <2>4, MoveShapes
<1>6. CASE MakesView(r)
  <2>1. requests[r].at = "create" /\ UNCHANGED lost /\ \E v \in Views : Moves(r, "create", v)
    BY <1>6 DEF MakesView, Turn, Free
  <2>2. lost' \subseteq Views
    BY <2>1 DEF ViewerShapes
  <2>3. QED
    BY <1>2, <1>3, <2>1, <2>2, MoveShapes
<1>7. CASE TakesView(r)
  <2>1. requests[r].at = "create" /\ UNCHANGED lost /\ Moves(r, "read", requests[r].view)
    BY <1>7 DEF TakesView, Turn
  <2>2. lost' \subseteq Views
    BY <2>1 DEF ViewerShapes
  <2>3. QED
    BY <1>1, <1>2, <1>3, <2>1, <2>2, MoveShapes
<1>8. QED
  BY <1>4, <1>5, <1>6, <1>7

LEMMA EndShapes ==
    ASSUME ViewerInv, ViewerShapes, NEW r \in Requests, FailsView(r) \/ ReadsRows(r) \/ AsksRows(r)
    PROVE  ViewerShapes'
<1>1. /\ requests[r].view \in Views \cup {None} /\ views \in [Views -> Orders \cup {None}]
      /\ requests \in [Requests -> [at : {"none"} \cup Phases, order : Orders \cup {None},
                                    known : BOOLEAN, view : Views \cup {None}]]
  BY DEF ViewerInv, ViewerTypes
<1>2. CASE FailsView(r)
  <2>1. /\ requests[r].at \in Phases /\ Answers(r, FALSE, None)
        /\ unheard' = unheard \cup ({requests[r].view} \ {None}) /\ UNCHANGED <<panel, closing, lost>>
    BY <1>2 DEF FailsView, Turn, Phases
  <2>2. requests[r].order \in Orders
    BY <2>1 DEF ViewerShapes, RequestStands, NoRequest, Phases
  <2>3. unheard' \subseteq Views
    BY <1>1, <2>1 DEF ViewerShapes
  <2>4. QED
    BY <2>1, <2>2, <2>3, AnswerShapes
<1>3. CASE ReadsRows(r)
  <2>1. requests[r].at = "read" /\ UNCHANGED <<panel, closing, lost, unheard>>
    BY <1>3 DEF ReadsRows, source
  <2>2. requests[r].order \in Orders
    BY <2>1 DEF ViewerShapes, RequestStands, NoRequest, Phases
  <2>3. \E ok \in BOOLEAN, read \in Orders \cup {None} : Answers(r, ok, read)
    <3>1. CASE Answers(r, FALSE, None)
      BY <3>1
    <3>2. CASE /\ requests[r].view = None \/ Lives(requests[r].view)
               /\ Answers(r, TRUE, IF requests[r].view = None THEN requests[r].order
                                   ELSE views[requests[r].view])
      <4>1. CASE requests[r].view = None
        BY <2>2, <3>2, <4>1
      <4>2. CASE requests[r].view # None
        <5>1. views[requests[r].view] \in Orders \cup {None}
          BY <1>1, <4>2
        <5>2. QED
          BY <3>2, <4>2, <5>1
      <4>3. QED
        BY <4>1, <4>2
    <3>3. QED
      BY <1>3, <3>1, <3>2 DEF ReadsRows
  <2>4. unheard' \subseteq Views
    BY <2>1 DEF ViewerShapes
  <2>5. QED
    BY <2>1, <2>2, <2>3, <2>4, AnswerShapes
<1>4. CASE AsksRows(r)
  <2>1. PICK o \in Orders :
          requests' = [requests EXCEPT ![r] =
             [NoRequest EXCEPT !.at = "queued", !.order = o, !.known = TRUE]]
    BY <1>4 DEF AsksRows
  <2>2. \A x \in Requests : RequestStands(requests'[x])
    <3>1. /\ requests'[r].at = "queued" /\ requests'[r].order = o
          /\ \A x \in Requests : x # r => requests'[x] = requests[x]
      BY <1>1, <2>1 DEF NoRequest
    <3>2. QED
      BY <3>1 DEF ViewerShapes, RequestStands, Phases
  <2>3. rows' \in {rows, None} /\ UNCHANGED <<panel, closing, lost, unheard, banner>>
    BY <1>4 DEF AsksRows
  <2>4. QED
    BY <2>2, <2>3 DEF ViewerShapes
<1>5. QED
  BY <1>2, <1>3, <1>4

LEMMA ViewerTyped ==
    /\ DvInit => ViewerShapes
    /\ ViewerInv /\ ViewerShapes /\ [DvNext]_dvVars => ViewerShapes'
    /\ ViewerInv /\ ViewerShapes => DvTypeOK
<1>1. DvInit => ViewerShapes
  BY DEF DvInit, ViewerShapes, RequestStands
<1>2. ASSUME ViewerInv, ViewerShapes, [DvNext]_dvVars PROVE ViewerShapes'
  <2>1. CASE UNCHANGED dvVars
    BY <1>2, <2>1 DEF dvVars, ViewerShapes, RequestStands
  <2>2. CASE DvNext
    BY <1>2, <2>2, DocumentShapes, TurnShapes, EndShapes DEF DvNext
  <2>3. QED
    BY <1>2, <2>1, <2>2
<1>3. ASSUME ViewerInv, ViewerShapes PROVE DvTypeOK
  <2>1. /\ grid \in Orders \cup {None} /\ active \in Orders /\ queue \in Seq(Requests)
        /\ held.order \in Orders \cup {None} /\ held.view \in Views \cup {None}
        /\ views \in [Views -> Orders \cup {None}]
    BY <1>3 DEF ViewerInv, ViewerTypes
  <2>2. ASSUME NEW r \in Requests
        PROVE  requests[r] = NoRequest
               \/ requests[r] \in [at : Phases, order : Orders, known : BOOLEAN,
                                   view : Views \cup {None}]
    <3>1. requests[r] \in [at : {"none"} \cup Phases, order : Orders \cup {None},
                           known : BOOLEAN, view : Views \cup {None}]
      BY <1>3 DEF ViewerInv, ViewerTypes
    <3>2. RequestStands(requests[r])
      BY <1>3 DEF ViewerShapes
    <3>3. QED
      BY <3>1, <3>2 DEF RequestStands
  <2>3. QED
    BY <1>3, <2>1, <2>2 DEF ViewerShapes, DvTypeOK
<1>4. QED
  BY <1>1, <1>2, <1>3

-----------------------------------------------------------------------------
(* The tree of CAS, also where a refresh comes while columns are read: the *)
(* reads under way are as many as may be, and a table to be redrawn is one *)
(* the tree has.                                                           *)
ReadCalls == [n : 1 .. MaxReads, of : Deployments, at : 0 .. MaxRefreshes,
              state : {"loaded", "unloaded"}, step : {"load", "columns"}]
ColumnsOf == [dep : Deployments, at : 0 .. MaxRefreshes] \cup {NoColumns}
ReadsTyped == reads \subseteq ReadCalls /\ IsFiniteSet(reads) /\ Cardinality(reads) <= MaxReads
DrawnTyped ==
    /\ shown \in ColumnsOf /\ justLoaded \in ColumnsOf /\ loadedTables \in ColumnsOf
    /\ redraw \in BOOLEAN /\ (redraw => node # NoTable)
    /\ node \in TableItems \cup {NoTable}
SurroundingsTyped ==
    /\ CommandFits /\ AccountsFit /\ endpoint \in Deployments
    /\ loaded \subseteq Deployments /\ gone \subseteq Deployments \X {1}
    /\ refreshes \in 0 .. MaxRefreshes
CaTyped == ReadsTyped /\ DrawnTyped /\ SurroundingsTyped

LEMMA ReadsBound ==
    ASSUME ReadsTyped, NEW r \in reads
    PROVE  /\ r \in ReadCalls /\ IsFiniteSet(reads \ {r})
           /\ Cardinality(reads \ {r}) = Cardinality(reads) - 1
           /\ Cardinality(reads) \in Nat /\ MaxReads \in Nat
<1>1. IsFiniteSet(reads) /\ reads \subseteq ReadCalls
  BY DEF ReadsTyped
<1>2. MaxReads \in Nat
  BY CaAssumption
<1>3. Cardinality(reads) \in Nat
  BY <1>1, FS_CardinalityType
<1>4. IsFiniteSet(reads \ {r}) /\ Cardinality(reads \ {r}) = Cardinality(reads) - 1
  BY <1>1, FS_RemoveElement
<1>5. QED
  BY <1>1, <1>2, <1>3, <1>4

LEMMA ExpandsTyped ==
    ASSUME CaTyped, ExpandsTable
    PROVE  ReadsTyped' /\ DrawnTyped'
<1>1. /\ ReadsTyped /\ DrawnTyped /\ node # NoTable /\ UNCHANGED <<node, loadedTables, redraw>>
      /\ node \in TableItems
  BY DEF CaTyped, ExpandsTable, DrawnTyped
<1>2. CASE justLoaded # NoColumns
  <2>1. shown' = justLoaded /\ justLoaded' = NoColumns /\ UNCHANGED reads
    BY <1>2 DEF ExpandsTable
  <2>2. QED
    BY <1>1, <2>1 DEF ReadsTyped, DrawnTyped, ColumnsOf
<1>3. CASE justLoaded = NoColumns
  <2>1. Cardinality(reads) < MaxReads /\ UNCHANGED <<shown, justLoaded>>
    BY <1>3 DEF ExpandsTable
  <2>2. PICK n \in 1 .. MaxReads :
          /\ \A r \in reads : r.n # n
          /\ reads' = reads \cup {[n |-> n, of |-> node.dep, at |-> node.at, state |-> node.state,
                                   step |-> IF node.state = "loaded" THEN "columns" ELSE "load"]}
    BY <1>3 DEF ExpandsTable
  <2>3. PICK s \in {"load", "columns"} : s = IF node.state = "loaded" THEN "columns" ELSE "load"
    OBVIOUS
  <2>4. PICK r : r = [n |-> n, of |-> node.dep, at |-> node.at, state |-> node.state, step |-> s]
    OBVIOUS
  <2>5. r \in ReadCalls /\ r.n = n
    BY <1>1, <2>4 DEF ReadCalls, TableItems
  <2>6. r \notin reads /\ reads' = reads \cup {r}
    BY <2>2, <2>3, <2>4, <2>5
  <2>7. IsFiniteSet(reads') /\ Cardinality(reads') = Cardinality(reads) + 1
    <3>1. IsFiniteSet(reads)
      BY <1>1 DEF ReadsTyped
    <3>2. QED
      BY <2>6, <3>1, FS_AddElement
  <2>8. Cardinality(reads') <= MaxReads
    <3>1. Cardinality(reads) \in Nat /\ MaxReads \in Nat
      BY <1>1, CaAssumption, FS_CardinalityType DEF ReadsTyped
    <3>2. QED
      BY <2>1, <2>7, <3>1
  <2>9. ReadsTyped'
    BY <1>1, <2>5, <2>6, <2>7, <2>8 DEF ReadsTyped
  <2>10. QED
    BY <1>1, <2>1, <2>9 DEF DrawnTyped
<1>4. QED
  BY <1>2, <1>3

LEMMA CallTyped ==
    ASSUME CaTyped, NEW r \in reads, Reads(r)
    PROVE  ReadsTyped' /\ DrawnTyped'
<1>1. ReadsTyped /\ DrawnTyped /\ node' = node
  BY DEF CaTyped, Reads, LoadsIntoMemory, ReadsColumns, FailsRead
<1>2. /\ r \in ReadCalls /\ IsFiniteSet(reads \ {r})
      /\ Cardinality(reads \ {r}) = Cardinality(reads) - 1
      /\ Cardinality(reads) \in Nat /\ MaxReads \in Nat /\ Cardinality(reads) <= MaxReads
  BY <1>1, ReadsBound DEF ReadsTyped
<1>3. CASE LoadsIntoMemory(r)
  <2>1. PICK q : reads' = (reads \ {r}) \cup {q} /\ q = [r EXCEPT !.step = "columns"]
    BY <1>3 DEF LoadsIntoMemory
  <2>2. q \in ReadCalls
    BY <1>2, <2>1 DEF ReadCalls
  <2>3. IsFiniteSet(reads') /\ Cardinality(reads') <= Cardinality(reads \ {r}) + 1
    <3>1. CASE q \in reads \ {r}
      <4>1. reads' = reads \ {r}
        BY <2>1, <3>1
      <4>2. QED
        BY <1>2, <4>1
    <3>2. CASE q \notin reads \ {r}
      <4>1. IsFiniteSet(reads') /\ Cardinality(reads') = Cardinality(reads \ {r}) + 1
        BY <1>2, <2>1, <3>2, FS_AddElement
      <4>2. QED
        BY <1>2, <4>1
    <3>3. QED
      BY <3>1, <3>2
  <2>4. Cardinality(reads') \in Nat
    BY <2>3, FS_CardinalityType
  <2>5. Cardinality(reads') <= MaxReads
    BY <1>2, <2>3, <2>4
  <2>6. ReadsTyped'
    BY <1>1, <2>1, <2>2, <2>3, <2>5 DEF ReadsTyped
  <2>7. UNCHANGED <<shown, justLoaded, loadedTables, redraw>>
    BY <1>3 DEF LoadsIntoMemory
  <2>8. QED
    BY <1>1, <2>6, <2>7 DEF DrawnTyped
<1>4. CASE ReadsColumns(r) \/ FailsRead(r)
  <2>1. reads' = reads \ {r}
    BY <1>4 DEF ReadsColumns, FailsRead
  <2>2. ReadsTyped'
    BY <1>1, <1>2, <2>1 DEF ReadsTyped
  <2>3. PICK c : c = [dep |-> r.of, at |-> r.at]
    OBVIOUS
  <2>4. c \in ColumnsOf
    BY <1>2, <2>3 DEF ReadCalls, ColumnsOf
  <2>5. shown' \in {shown, c}
    BY <1>4, <2>3 DEF ReadsColumns, FailsRead
  <2>6. \/ UNCHANGED <<justLoaded, loadedTables, redraw>>
        \/ justLoaded' = c /\ loadedTables' = c /\ redraw' = (redraw \/ Fires(r))
    BY <1>4, <2>3 DEF ReadsColumns, FailsRead
  <2>7. Fires(r) => node # NoTable
    <3>1. r.of \in Deployments /\ NoTable.dep = "none"
      BY <1>2 DEF ReadCalls, NoTable
    <3>2. QED
      BY <3>1, CaAssumption DEF Fires
  <2>8. redraw' \in BOOLEAN /\ (redraw' => node # NoTable)
    <3>1. Fires(r) \in BOOLEAN
      BY DEF Fires
    <3>2. QED
      BY <1>1, <2>6, <2>7, <3>1 DEF DrawnTyped
  <2>9. DrawnTyped'
    BY <1>1, <2>4, <2>5, <2>6, <2>8 DEF DrawnTyped
  <2>10. QED
    BY <2>2, <2>9
<1>5. QED
  BY <1>3, <1>4 DEF Reads

LEMMA DrawTyped ==
    ASSUME CaTyped, (\E d \in Deployments : Refreshes(d)) \/ ListsTable \/ Redraws
    PROVE  ReadsTyped' /\ DrawnTyped'
<1>1. ReadsTyped /\ DrawnTyped /\ reads' = reads
  BY DEF CaTyped, Refreshes, ListsTable, Redraws
<1>2. ReadsTyped'
  BY <1>1 DEF ReadsTyped
<1>3. ASSUME NEW d \in Deployments, Refreshes(d) PROVE DrawnTyped'
  BY <1>1, <1>3 DEF DrawnTyped, Refreshes, Dropped, ColumnsOf
<1>4. CASE ListsTable
  <2>1. PICK s \in {"loaded", "unloaded"} :
          node' = [dep |-> endpoint, at |-> refreshes, state |-> s, icon |-> IconOf(s)]
    BY <1>4 DEF ListsTable
  <2>2. IconOf(s) \in {"loaded", "unloaded"}
    BY DEF IconOf
  <2>3. node' \in TableItems
    BY <2>1, <2>2 DEF CaTyped, SurroundingsTyped, TableItems
  <2>4. node' # NoTable
    BY <2>1 DEF NoTable
  <2>5. UNCHANGED <<shown, justLoaded, loadedTables, redraw>>
    BY <1>4 DEF ListsTable
  <2>6. QED
    BY <1>1, <1>2, <2>3, <2>4, <2>5 DEF DrawnTyped
<1>5. CASE Redraws
  <2>1. PICK i : i = IconOf(node.state) /\ node' = [node EXCEPT !.icon = i]
    BY <1>5 DEF Redraws
  <2>2. node \in TableItems /\ redraw' = FALSE /\ UNCHANGED <<shown, justLoaded, loadedTables>>
    BY <1>1, <1>5 DEF Redraws, DrawnTyped
  <2>3. i \in {"loaded", "unloaded"}
    BY <2>1, <2>2 DEF IconOf, TableItems
  <2>4. node' \in TableItems
    BY <2>1, <2>2, <2>3 DEF TableItems
  <2>5. QED
    BY <1>1, <1>2, <2>2, <2>4 DEF DrawnTyped
<1>6. QED
  BY <1>2, <1>3, <1>4, <1>5

LEMMA SurroundingsOn ==
    ASSUME CaTyped, [CaNext]_caVars
    PROVE  SurroundingsTyped'
<1>1. /\ CommandFits /\ AccountsFit /\ endpoint \in Deployments
      /\ loaded \subseteq Deployments /\ gone \subseteq Deployments \X {1}
      /\ refreshes \in 0 .. MaxRefreshes /\ reads \subseteq ReadCalls
  BY DEF CaTyped, SurroundingsTyped, ReadsTyped
<1>2. CASE UNCHANGED caVars
  BY <1>1, <1>2 DEF caVars, accounts, tree, SurroundingsTyped, CommandFits, AccountsFit,
     EveryCommandIsAnswered
<1>3. CASE TreeSteps
  <2>1. UNCHANGED <<signedIn, sessionOf, gone, cmd>>
    BY <1>3 DEF TreeSteps, Refreshes, ListsTable, ExpandsTable, Redraws, Reads, LoadsIntoMemory,
       ReadsColumns, FailsRead, accounts
  <2>2. CommandFits' /\ AccountsFit'
    BY <1>1, <2>1 DEF CommandFits, AccountsFit, EveryCommandIsAnswered
  <2>3. endpoint' \in Deployments /\ refreshes' \in 0 .. MaxRefreshes
    <3>1. ASSUME NEW d \in Deployments, Refreshes(d)
          PROVE  endpoint' \in Deployments /\ refreshes' \in 0 .. MaxRefreshes
      <4>1. refreshes < MaxRefreshes /\ refreshes' = refreshes + 1 /\ endpoint' = d
        BY <3>1 DEF Refreshes
      <4>2. MaxRefreshes \in Nat
        BY CaAssumption
      <4>3. QED
        BY <1>1, <4>1, <4>2
    <3>2. CASE ~\E d \in Deployments : Refreshes(d)
      <4>1. UNCHANGED <<endpoint, refreshes>>
        BY <1>3, <3>2 DEF TreeSteps, ListsTable, ExpandsTable, Redraws, Reads, LoadsIntoMemory,
           ReadsColumns, FailsRead
      <4>2. QED
        BY <1>1, <4>1
    <3>3. QED
      BY <3>1, <3>2
  <2>4. loaded' \subseteq Deployments
    <3>1. UNCHANGED loaded \/ \E r \in reads : loaded' = loaded \cup {r.of}
      BY <1>3 DEF TreeSteps, Refreshes, ListsTable, ExpandsTable, Redraws, Reads, LoadsIntoMemory,
         ReadsColumns, FailsRead
    <3>2. \A r \in reads : r.of \in Deployments
      BY <1>1 DEF ReadCalls
    <3>3. QED
      BY <1>1, <3>1, <3>2
  <2>5. QED
    BY <1>1, <2>1, <2>2, <2>3, <2>4 DEF SurroundingsTyped
<1>4. CASE WorldSteps
  <2>1. UNCHANGED <<endpoint, refreshes, cmd>>
    BY <1>4 DEF WorldSteps, SessionDies, Connects, DropsTable, SignsInOrOut, tree
  <2>2. loaded' \subseteq Deployments /\ gone' \subseteq Deployments \X {1}
    <3>1. UNCHANGED loaded \/ \E d \in Deployments : loaded' = loaded \ {d}
      BY <1>4 DEF WorldSteps, SessionDies, Connects, DropsTable, SignsInOrOut
    <3>2. UNCHANGED gone \/ \E d \in Deployments : gone' = gone \cup {<<d, 1>>}
      BY <1>4 DEF WorldSteps, SessionDies, Connects, DropsTable, SignsInOrOut, accounts
    <3>3. gone' \subseteq Deployments \X {1}
      BY <1>1, <3>2
    <3>4. QED
      BY <1>1, <3>1, <3>3
  <2>3. AccountsFit'
    <3>1. ASSUME NEW a \in Accounts, SignsInOrOut(a) PROVE AccountsFit'
      BY <1>1, <3>1 DEF SignsInOrOut, AccountsFit
    <3>2. ASSUME NEW d \in Deployments, SessionDies(d) \/ DropsTable(d) PROVE AccountsFit'
      BY <1>1, <3>2 DEF SessionDies, DropsTable, AccountsFit, accounts
    <3>3. ASSUME NEW d \in Deployments, Connects(d) PROVE AccountsFit'
      BY <1>1, <3>3 DEF Connects, AccountsFit
    <3>4. QED
      BY <1>4, <3>1, <3>2, <3>3 DEF WorldSteps
  <2>4. CommandFits'
    BY <1>1, <2>1 DEF CommandFits, EveryCommandIsAnswered
  <2>5. QED
    BY <1>1, <2>1, <2>2, <2>3, <2>4 DEF SurroundingsTyped
<1>5. CASE CommandSteps
  <2>1. /\ UNCHANGED <<endpoint, refreshes, signedIn, gone, loaded>>
        /\ UNCHANGED sessionOf \/ sessionOf' = [sessionOf EXCEPT ![cmd.dep] = 0]
    BY <1>5 DEF CommandSteps, BeginsInsert, BeginsRefresh, BeginsAt, GetsServers, PicksServer,
       GetsConnection, ListsAccounts, GetsSession, WritesToken, CancelsCommand, accounts, tree
  <2>2. AccountsFit'
    BY <1>1, <2>1 DEF AccountsFit
  <2>3. CommandFits'
    BY <1>1, <1>5, CommandOn DEF CommandKnown
  <2>4. QED
    BY <1>1, <2>1, <2>2, <2>3 DEF SurroundingsTyped
<1>6. QED
  BY <1>2, <1>3, <1>4, <1>5 DEF CaNext, TreeSteps, WorldSteps, CommandSteps

LEMMA CasTyped ==
    /\ CaInit => CaTyped
    /\ CaTyped /\ [CaNext]_caVars => CaTyped'
    /\ CaTyped => CaTypeOK
<1>1. ASSUME CaInit PROVE CaTyped
  <2>1. NoCommand \in Commands /\ NoCommand.step = "idle" /\ NoCommand.answer = "none"
    BY DEF NoCommand, Commands, NoAccount
  <2>2. CommandFits /\ AccountsFit
    BY <1>1, <2>1 DEF CaInit, CommandFits, EveryCommandIsAnswered, AccountsFit
  <2>3. MaxRefreshes \in Nat /\ MaxReads \in Nat
    BY CaAssumption
  <2>4. IsFiniteSet({}) /\ Cardinality({}) = 0
    BY FS_EmptySet
  <2>5. ReadsTyped
    <3>1. reads = {}
      BY <1>1 DEF CaInit
    <3>2. QED
      BY <2>3, <2>4, <3>1 DEF ReadsTyped
  <2>6. DrawnTyped
    BY <1>1 DEF CaInit, DrawnTyped, ColumnsOf
  <2>7. SurroundingsTyped
    BY <1>1, <2>2, <2>3 DEF CaInit, SurroundingsTyped
  <2>8. QED
    BY <2>5, <2>6, <2>7 DEF CaTyped
<1>2. ASSUME CaTyped, [CaNext]_caVars PROVE CaTyped'
  <2>1. CASE UNCHANGED <<node, shown, justLoaded, loadedTables, redraw, reads>>
    <3>1. ReadsTyped' /\ DrawnTyped'
      BY <1>2, <2>1 DEF CaTyped, ReadsTyped, DrawnTyped
    <3>2. QED
      BY <1>2, <3>1, SurroundingsOn DEF CaTyped
  <2>2. CASE TreeSteps
    <3>1. ReadsTyped' /\ DrawnTyped'
      BY <1>2, <2>2, ExpandsTyped, CallTyped, DrawTyped DEF TreeSteps
    <3>2. QED
      BY <1>2, <3>1, SurroundingsOn DEF CaTyped
  <2>3. CASE WorldSteps \/ CommandSteps \/ UNCHANGED caVars
    <3>1. UNCHANGED tree
      BY <2>3 DEF WorldSteps, CommandSteps, caVars, SessionDies, Connects, DropsTable, SignsInOrOut,
         BeginsInsert, BeginsRefresh, BeginsAt, GetsServers, PicksServer, GetsConnection,
         ListsAccounts, GetsSession, WritesToken, CancelsCommand
    <3>2. QED
      BY <2>1, <3>1 DEF tree
  <2>4. QED
    BY <1>2, <2>2, <2>3 DEF CaNext, TreeSteps, WorldSteps, CommandSteps
<1>3. ASSUME CaTyped PROVE CaTypeOK
  <2>1. cmd.answer \in {"none", "silent", "reported", "done"}
    BY <1>3 DEF CaTyped, SurroundingsTyped, CommandFits, Commands
  <2>2. QED
    BY <1>3, <2>1 DEF CaTyped, SurroundingsTyped, ReadsTyped, DrawnTyped, AccountsFit, CaTypeOK,
       ColumnsOf
<1>4. QED
  BY <1>1, <1>2, <1>3

-----------------------------------------------------------------------------
(* Rich output, for any number of windows at a session: a run past its     *)
(* start has a job.                                                        *)
TypedFile == [size : Sizes \cup {0, EmptySize}, by : 0 .. MaxJobs, shows : BOOLEAN]
RunsTyped ==
    /\ phase \in [Backends -> RunPhases] /\ job \in [Backends -> 0 .. MaxJobs]
    /\ jobs \in 0 .. MaxJobs /\ live \subseteq Jobs
    /\ \A b \in Backends : phase[b] \notin {"idle", "starting"} => job[b] \in Jobs
CapturesTyped ==
    /\ directory \in [RichFiles -> TypedFile] /\ after = [x \in Backends |-> after[x]]
    /\ candidates \in [Backends -> SUBSET RichFiles]
    /\ fetched \in [Backends -> RichFiles \cup {"none"}] /\ noted \subseteq Jobs \X RichFiles
RcTyped == RunsTyped /\ CapturesTyped

LEMMA RunsOn ==
    ASSUME RunsTyped, NEW b \in Backends,
           \/ ListsBefore(b) \/ CreatesJob(b) \/ WritesFile(b) \/ EndsJob(b) \/ CancelsRun(b)
           \/ ListsAfter(b) \/ SkipsFile(b) \/ FetchesFile(b) \/ DeletesFile(b) \/ IsDone(b)
    PROVE  RunsTyped'
<1>1. /\ phase \in [Backends -> RunPhases] /\ job \in [Backends -> 0 .. MaxJobs]
      /\ jobs \in 0 .. MaxJobs /\ live \subseteq Jobs /\ MaxJobs \in Nat
      /\ \A x \in Backends : phase[x] \notin {"idle", "starting"} => job[x] \in Jobs
  BY RcAssumption DEF RunsTyped
<1>2. CASE CreatesJob(b)
  <2>1. /\ phase[b] = "starting" /\ jobs < MaxJobs /\ jobs' = jobs + 1
        /\ job' = [job EXCEPT ![b] = jobs + 1] /\ live' = live \cup {jobs + 1}
        /\ phase' = [phase EXCEPT ![b] = "running"]
    BY <1>2 DEF CreatesJob, BackendGoes
  <2>2. jobs + 1 \in Jobs /\ jobs + 1 \in 0 .. MaxJobs
    BY <1>1, <2>1 DEF Jobs
  <2>3. phase' \in [Backends -> RunPhases] /\ job' \in [Backends -> 0 .. MaxJobs]
    BY <1>1, <2>1, <2>2 DEF RunPhases
  <2>4. ASSUME NEW x \in Backends, phase'[x] \notin {"idle", "starting"} PROVE job'[x] \in Jobs
    BY <1>1, <2>1, <2>2, <2>4
  <2>5. QED
    BY <1>1, <2>1, <2>2, <2>3, <2>4 DEF RunsTyped
<1>3. CASE ~CreatesJob(b)
  <2>1. /\ UNCHANGED <<job, jobs>> /\ live' \subseteq live
    BY <1>3 DEF ListsBefore, WritesFile, EndsJob, CancelsRun, ListsAfter, SkipsFile, FetchesFile,
       DeletesFile, IsDone
  <2>2. \E p \in RunPhases : /\ phase' = phase \/ phase' = [phase EXCEPT ![b] = p]
                             /\ p \notin {"idle", "starting"} => phase[b] \notin {"idle", "starting"}
    <3>1. CASE ListsBefore(b)
      BY <3>1 DEF ListsBefore, BackendGoes, RunPhases
    <3>2. CASE WritesFile(b)
      BY <3>2 DEF WritesFile, RunPhases
    <3>3. CASE EndsJob(b)
      BY <3>3 DEF EndsJob, BackendGoes, RunPhases
    <3>4. CASE CancelsRun(b)
      BY <3>4 DEF CancelsRun, BackendGoes, RunPhases
    <3>5. CASE ListsAfter(b)
      BY <3>5 DEF ListsAfter, BackendGoes, RunPhases
    <3>6. CASE SkipsFile(b)
      BY <3>6 DEF SkipsFile, Spares, RunPhases
    <3>7. CASE FetchesFile(b)
      BY <3>7 DEF FetchesFile, BackendGoes, RunPhases
    <3>8. CASE DeletesFile(b)
      BY <3>8 DEF DeletesFile, BackendGoes, RunPhases
    <3>9. CASE IsDone(b)
      BY <3>9 DEF IsDone, BackendGoes, RunPhases
    <3>10. QED
      BY <1>3, <3>1, <3>2, <3>3, <3>4, <3>5, <3>6, <3>7, <3>8, <3>9
  <2>3. phase' \in [Backends -> RunPhases]
    BY <1>1, <2>2
  <2>4. ASSUME NEW x \in Backends, phase'[x] \notin {"idle", "starting"} PROVE job'[x] \in Jobs
    BY <1>1, <2>1, <2>2, <2>4
  <2>5. QED
    BY <1>1, <2>1, <2>3, <2>4 DEF RunsTyped
<1>4. QED
  BY <1>2, <1>3

LEMMA DirectoryOn ==
    ASSUME RcTyped, NEW b \in Backends,
           WritesFile(b) \/ EndsJob(b) \/ CancelsRun(b) \/ DeletesFile(b)
    PROVE  directory' \in [RichFiles -> TypedFile]
<1>1. /\ directory \in [RichFiles -> TypedFile] /\ job[b] \in 0 .. MaxJobs /\ MaxJobs \in Nat
      /\ Ods \in RichFiles /\ Figures \subseteq RichFiles
  BY RcAssumption DEF RcTyped, RunsTyped, CapturesTyped, RichFiles
<1>2. \A s \in Sizes \cup {0, EmptySize}, j \in 0 .. MaxJobs, w \in BOOLEAN :
        [size |-> s, by |-> j, shows |-> w] \in TypedFile
  BY DEF TypedFile
<1>3. NoSessionFile \in TypedFile
  <2>1. 0 \in 0 .. MaxJobs
    BY <1>1
  <2>2. [size |-> 0, by |-> 0, shows |-> FALSE] \in TypedFile
    BY <2>1 DEF TypedFile
  <2>3. QED
    BY <2>2 DEF NoSessionFile
<1>4. \A body \in OdsBodies(b) : body \in TypedFile
  <2>1. OdsBodies(b) = {[size |-> EmptySize, by |-> job[b], shows |-> FALSE]}
          \cup {[size |-> s, by |-> job[b], shows |-> TRUE] : s \in Sizes \ {EmptySize}}
    BY DEF OdsBodies
  <2>2. QED
    BY <1>1, <1>2, <2>1
<1>5. directory' = directory
      \/ \E file \in TypedFile : \E n : directory' = [directory EXCEPT ![n] = file]
  <2>1. CASE WritesFile(b)
    <3>1. PICK n \in Figures, s \in Sizes :
            directory' = [directory EXCEPT ![n] = [size |-> s, by |-> job[b], shows |-> TRUE]]
      BY <2>1 DEF WritesFile
    <3>2. QED
      BY <1>1, <1>2, <3>1
  <2>2. CASE EndsJob(b)
    BY <1>4, <2>2 DEF EndsJob
  <2>3. CASE CancelsRun(b)
    <3>1. directory[Ods] \in TypedFile
      BY <1>1
    <3>2. QED
      BY <1>4, <2>3, <3>1 DEF CancelsRun
  <2>4. CASE DeletesFile(b)
    BY <1>3, <2>4 DEF DeletesFile
  <2>5. QED
    BY <2>1, <2>2, <2>3, <2>4
<1>6. QED
  BY <1>1, <1>5

LEMMA CapturesOn ==
    ASSUME RcTyped, NEW b \in Backends,
           \/ ListsBefore(b) \/ CreatesJob(b) \/ WritesFile(b) \/ EndsJob(b) \/ CancelsRun(b)
           \/ ListsAfter(b) \/ SkipsFile(b) \/ FetchesFile(b) \/ DeletesFile(b) \/ IsDone(b)
    PROVE  CapturesTyped'
<1>1. /\ directory \in [RichFiles -> TypedFile] /\ after = [x \in Backends |-> after[x]]
      /\ candidates \in [Backends -> SUBSET RichFiles]
      /\ fetched \in [Backends -> RichFiles \cup {"none"}] /\ noted \subseteq Jobs \X RichFiles
      /\ phase[b] \notin {"idle", "starting"} => job[b] \in Jobs
  BY DEF RcTyped, RunsTyped, CapturesTyped
<1>2. CASE ListsBefore(b) \/ CreatesJob(b) \/ IsDone(b)
  <2>1. UNCHANGED <<directory, after, candidates, fetched, noted>>
    BY <1>2 DEF ListsBefore, CreatesJob, IsDone, rcListings, results
  <2>2. QED
    BY <1>1, <2>1 DEF CapturesTyped
<1>3. CASE WritesFile(b) \/ EndsJob(b) \/ CancelsRun(b) \/ DeletesFile(b)
  <2>1. UNCHANGED <<after, candidates, fetched, noted>>
    BY <1>3 DEF WritesFile, EndsJob, CancelsRun, DeletesFile, rcListings, results
  <2>2. directory' \in [RichFiles -> TypedFile]
    BY <1>3, DirectoryOn
  <2>3. QED
    BY <1>1, <2>1, <2>2 DEF CapturesTyped
<1>4. CASE ListsAfter(b)
  <2>1. PICK l \in {Listing, NoListing} : after' = [after EXCEPT ![b] = l]
    BY <1>4 DEF ListsAfter
  <2>2. after' = [x \in Backends |-> after'[x]] /\ after'[b] = l
    <3>1. DOMAIN after = Backends
      BY <1>1
    <3>2. QED
      BY <1>1, <2>1, <3>1
  <2>3. phase[b] = "listing" /\ UNCHANGED <<directory, fetched>>
    BY <1>4 DEF ListsAfter
  <2>4. UNCHANGED noted \/ noted' = noted \cup {<<job[b], n>> : n \in RichFiles}
    BY <1>4 DEF ListsAfter
  <2>5. noted' \subseteq Jobs \X RichFiles
    BY <1>1, <2>3, <2>4
  <2>6. candidates' \in [Backends -> SUBSET RichFiles]
    <3>1. CASE UNCHANGED candidates
      BY <1>1, <3>1
    <3>2. CASE ~UNCHANGED candidates
      <4>1. /\ l # NoListing
            /\ \E more \in {{Ods}, {}} :
                 candidates' = [candidates EXCEPT ![b] = Candidates(b) \cup more]
        BY <1>4, <2>2, <3>2 DEF ListsAfter
      <4>2. DOMAIN after'[b] \subseteq RichFiles
        BY <2>1, <2>2, <4>1 DEF Listing
      <4>3. Candidates(b) \subseteq RichFiles
        BY <4>2 DEF Candidates
      <4>4. \A more \in {{Ods}, {}} : (Candidates(b) \cup more) \in SUBSET RichFiles
        BY <4>3 DEF RichFiles
      <4>5. QED
        BY <1>1, <4>1, <4>4
    <3>3. QED
      BY <3>1, <3>2
  <2>7. QED
    BY <1>1, <2>2, <2>3, <2>5, <2>6 DEF CapturesTyped
<1>5. CASE SkipsFile(b) \/ FetchesFile(b)
  <2>1. PICK n \in candidates[b] : candidates' = [candidates EXCEPT ![b] = @ \ {n}]
                                   /\ (UNCHANGED noted \/ noted' = noted \cup {<<job[b], n>>})
                                   /\ (UNCHANGED fetched \/ fetched' = [fetched EXCEPT ![b] = n])
    BY <1>5 DEF SkipsFile, FetchesFile, Spares
  <2>2. phase[b] = "capturing" /\ UNCHANGED <<directory, after>>
    BY <1>5 DEF SkipsFile, FetchesFile, rcListings
  <2>3. n \in RichFiles /\ job[b] \in Jobs /\ (candidates[b] \ {n}) \in SUBSET RichFiles
    BY <1>1, <2>1, <2>2
  <2>4. candidates' \in [Backends -> SUBSET RichFiles]
    BY <1>1, <2>1, <2>3
  <2>5. fetched' \in [Backends -> RichFiles \cup {"none"}]
    BY <1>1, <2>1, <2>3
  <2>6. noted' \subseteq Jobs \X RichFiles
    BY <1>1, <2>1, <2>3
  <2>7. QED
    BY <1>1, <2>2, <2>4, <2>5, <2>6 DEF CapturesTyped
<1>6. QED
  BY <1>2, <1>3, <1>4, <1>5

LEMMA RichTyped ==
    /\ RcInit => RcTyped
    /\ RcTyped /\ [RcNext]_rcVars => RcTyped'
    /\ RcTyped => RcTypeOK
<1>1. ASSUME RcInit PROVE RcTyped
  <2>1. MaxJobs \in Nat
    BY RcAssumption
  <2>2. NoSessionFile \in TypedFile
    BY <2>1 DEF NoSessionFile, TypedFile
  <2>3. RunsTyped
    BY <1>1, <2>1 DEF RcInit, RunsTyped, RunPhases
  <2>4. CapturesTyped
    BY <1>1, <2>2 DEF RcInit, CapturesTyped
  <2>5. QED
    BY <2>3, <2>4 DEF RcTyped
<1>2. ASSUME RcTyped, [RcNext]_rcVars PROVE RcTyped'
  <2>1. CASE UNCHANGED rcVars
    BY <1>2, <2>1 DEF rcVars, RcTyped, RunsTyped, CapturesTyped
  <2>2. CASE RcNext
    BY <1>2, <2>2, RunsOn, CapturesOn DEF RcNext, RcTyped
  <2>3. QED
    BY <1>2, <2>1, <2>2
<1>3. ASSUME RcTyped PROVE RcTypeOK
  BY <1>3 DEF RcTyped, RunsTyped, CapturesTyped, RcTypeOK, RunPhases, TypedFile
<1>4. QED
  BY <1>1, <1>2, <1>3

-----------------------------------------------------------------------------
(* The export, and all of them.                                            *)
LEMMA ExportTyped ==
    /\ CxInit => kept \subseteq Exports
    /\ kept \subseteq Exports /\ [CxNext]_cxVars => (kept \subseteq Exports)'
    /\ CsvInv /\ kept \subseteq Exports => CxTypeOK
<1>1. CxInit => kept \subseteq Exports
  BY DEF CxInit
<1>2. ASSUME kept \subseteq Exports, [CxNext]_cxVars PROVE kept' \subseteq Exports
  <2>1. kept' = kept \/ \E e \in Exports : kept' = kept \cup {e}
    BY <1>2 DEF CxNext, Changes, Export, Starts, Cancels, IsRefused, IsOpened, IsSampled,
       IsConfirmed, ReadsPage, StreamFails, Writes, EndsFile, Renames, Cleans, cxVars
  <2>2. QED
    BY <1>2, <2>1
<1>3. ASSUME CsvInv, kept \subseteq Exports PROVE CxTypeOK
  <2>1. CsvTypes
    BY <1>3 DEF CsvInv
  <2>2. \A e \in Exports : opened[e] <= Len(tables)
    BY <1>3 DEF CsvInv, ExportFits
  <2>3. Len(tables) \in Nat /\ opened \in [Exports -> Nat]
    BY <2>1 DEF CsvTypes
  <2>4. opened \in [Exports -> 0 .. Len(tables)]
    <3>1. \A e \in Exports : opened[e] \in 0 .. Len(tables)
      BY <2>2, <2>3
    <3>2. QED
      BY <2>3, <3>1
  <2>5. QED
    BY <1>3, <2>1, <2>4 DEF CsvTypes, CxTypeOK, CsvFile
<1>4. QED
  BY <1>1, <1>2, <1>3

(* Every variable of the five parts has its type, whatever meets what and   *)
(* for any number of windows, deployments, requests, exports and names: a   *)
(* run tries no more names than it may (MAX_FILEREF_ASSIGN_ATTEMPTS), what  *)
(* is lost or unheard of is a view there was, a table that is redrawn is    *)
(* one the tree has, and what is noted of a file is of a job there was.     *)
THEOREM SessionDataTyped == SessionDataSpec => []SessionDataTypeOK
<1> DEFINE Typed == /\ FrTyped /\ ViewerInv /\ ViewerShapes /\ CaTyped /\ RcTyped
                    /\ CsvInv /\ kept \subseteq Exports
<1>1. SessionDataInit => Typed
  BY FilerefsBeginTyped, TablesStep, ViewerTyped, CasTyped, RichTyped, ExportTyped
  DEF SessionDataInit
<1>2. Typed /\ [SessionDataNext]_sessionDataVars => Typed'
  <2> SUFFICES ASSUME Typed, [SessionDataNext]_sessionDataVars PROVE Typed'
    OBVIOUS
  <2>1. [FrNext]_frVars /\ [DvNext]_dvVars /\ [CaNext]_caVars /\ [RcNext]_rcVars /\ [CxNext]_cxVars
    BY PartsStep, ViewerPartsStep, CaPartsStep, RcPartsStep, CsvPartsStep
  <2>2. FrTyped'
    BY <2>1, FilerefsTyped
  <2>3. ViewerInv' /\ CsvInv'
    BY TablesStep
  <2>4. ViewerShapes'
    BY <2>1, ViewerTyped
  <2>5. CaTyped'
    BY <2>1, CasTyped
  <2>6. RcTyped'
    BY <2>1, RichTyped
  <2>7. (kept \subseteq Exports)'
    BY <2>1, ExportTyped
  <2>8. QED
    BY <2>2, <2>3, <2>4, <2>5, <2>6, <2>7
<1>3. Typed => SessionDataTypeOK
  BY FilerefsBeginTyped, ViewerTyped, CasTyped, RichTyped, ExportTyped DEF SessionDataTypeOK
<1> HIDE DEF Typed
<1>4. QED
  BY <1>1, <1>2, <1>3, PTL DEF SessionDataSpec
=============================================================================
