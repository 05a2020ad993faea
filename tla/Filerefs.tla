------------------------------ MODULE Filerefs ------------------------------
(***************************************************************************)
(* The filerefs of one compute session (src/compute/fileref.ts) and those  *)
(* that write them from the windows attached to it: a run puts its program *)
(* in a fresh PYnnnnnn and the profile's snippet in PYVSTART               *)
(* (src/backend/procPython.ts), Refresh CAS Token puts the token in one of *)
(* a fixed name (src/compute/casToken.ts, src/cas/casConnectCommand.ts),   *)
(* and the user's SAS code has filerefs too.  An action is one request;    *)
(* its answer may be lost, whether or not the session has done it.         *)
(***************************************************************************)
EXTENDS Naturals, FiniteSets, FiniteSetsExt

CONSTANTS
  Hosts,          \* the windows attached to the session
  Earlier,        \* the PYnnnnnn names it holds from before
  MaxPrograms, MaxTokens,     \* runs of a window, and token commands of all
  MaxReattach,    \* times a backend is made anew
  Attempts,       \* MAX_FILEREF_ASSIGN_ATTEMPTS
  FrMayMeet       \* "user": a program of the user's names a file;
                  \* "reassigned": it takes the name of a token being written;
                  \* "lost page": a page of the list after the first fails

ASSUME FrAssumption ==
  /\ IsFiniteSet(Hosts) /\ Attempts \in Nat \ {0}
  /\ {Earlier, MaxPrograms, MaxTokens, MaxReattach} \subseteq Nat
  /\ FrMayMeet \subseteq {"user", "lost page", "reassigned"}

VARIABLES
  filerefs,           \* name -> whose fileref it is, what is in it and its ETag
  filerefCounter, filerefCounterSeeded, startupUploaded,      \* of each backend
  at, target, tag,        \* writer -> its next request, its fileref, the ETag read
  attempts, blind,        \* names a run tried, and whether its listing failed
  seeding,                \* whether a run begins with the snippet
  listed,                 \* host -> the highest name when it last listed them
  programs, tokens, reattached,       \* counts
  ran,                    \* the jobs submitted, with what they read
  refused                 \* runs that found no name
frVars == <<filerefs, filerefCounter, filerefCounterSeeded, startupUploaded, at, target, tag,
            attempts, blind, seeding, listed, programs, tokens, reattached, ran, refused>>
frBackend == <<filerefCounter, filerefCounterSeeded, startupUploaded, listed>>
frCounts == <<programs, tokens, reattached>>
claim == <<attempts, blind, seeding>>

MaxNumber == Earlier + (MaxPrograms + 1) * Cardinality(Hosts) + Attempts
PY(n) == <<"PY", n>>
Startup == <<"PYVSTART", 0>>
Token == <<"CASTOKEN", 0>>
FilerefNames == {PY(n) : n \in 1 .. MaxNumber} \cup {Startup, Token}
Run(h) == <<h, "run">>
Deliver(h) == <<h, "token">>
Writers == {Run(h) : h \in Hosts} \cup {Deliver(h) : h \in Hosts}
Nothing == [owner |-> "none", content |-> <<"empty">>, etag |-> 0]
Assigned == [owner |-> "ext", content |-> <<"empty">>, etag |-> 1]
Users == [owner |-> "user", content |-> <<"theirs">>, etag |-> 1]
IsFree(n) == filerefs[n].owner = "none"

\* What a writer writes.
Bytes(a) == IF target[a] = Startup THEN <<"snippet">>
            ELSE IF target[a] = Token THEN <<"token", a[1], tokens[a[1]]>>
            ELSE <<"program", a[1], programs[a[1]]>>

FrInit ==
  /\ filerefs = [n \in FilerefNames |->
                   IF n \in {PY(i) : i \in 1 .. Earlier} THEN Assigned ELSE Nothing]
  /\ filerefCounter = [h \in Hosts |-> 0] /\ filerefCounterSeeded = [h \in Hosts |-> FALSE]
  /\ startupUploaded = [h \in Hosts |-> FALSE]
  /\ at = [a \in Writers |-> "idle"] /\ target = [a \in Writers |-> Token]
  /\ tag = [a \in Writers |-> 0] /\ attempts = [h \in Hosts |-> 0]
  /\ blind = [h \in Hosts |-> FALSE] /\ seeding = [h \in Hosts |-> FALSE]
  /\ listed = [h \in Hosts |-> 0] /\ programs = [h \in Hosts |-> 0]
  /\ tokens = [h \in Hosts |-> 0] /\ reattached = 0
  /\ ran = {} /\ refused = {}

Goto(a, s) == at' = [at EXCEPT ![a] = s]
Counts(h) == IF filerefCounterSeeded[h] THEN "claiming" ELSE "listing"
\* What a writer knew of its fileref ends with it.
LetsGo(a) == target' = [target EXCEPT ![a] = Token] /\ tag' = [tag EXCEPT ![a] = 0]

-----------------------------------------------------------------------------
\* runProgram begins: the snippet first if it is wanted and has not been uploaded.
BeginsRun(h) ==
  /\ at[Run(h)] = "idle" /\ programs[h] < MaxPrograms
  /\ programs' = [programs EXCEPT ![h] = @ + 1]
  /\ \E s \in BOOLEAN :
       /\ seeding' = [seeding EXCEPT ![h] = s]
       /\ Goto(Run(h), IF s /\ ~startupUploaded[h] THEN "assigning" ELSE Counts(h))
  /\ target' = [target EXCEPT ![Run(h)] = Startup]
  /\ attempts' = [attempts EXCEPT ![h] = 0] /\ blind' = [blind EXCEPT ![h] = FALSE]
  /\ UNCHANGED <<filerefs, frBackend, tag, tokens, reattached, ran, refused>>

\* Refresh CAS Token, or the connection snippet, has its token.
BeginsToken(h) ==
  /\ at[Deliver(h)] = "idle" /\ MapThenSumSet(LAMBDA g : tokens[g], Hosts) < MaxTokens
  /\ tokens' = [tokens EXCEPT ![h] = @ + 1]
  /\ Goto(Deliver(h), "assigning")
  /\ UNCHANGED <<filerefs, frBackend, target, tag, claim, programs, reattached, ran, refused>>

\* A request fails, is cancelled or has no answer: nothing more is asked.
GivesUp(a) ==
  /\ at[a] \in {"assigning", "finding", "tagging", "putting", "submitting"}
  /\ Goto(a, "idle")
  /\ \/ UNCHANGED filerefs
     \/ /\ at[a] = "assigning" /\ IsFree(target[a])
        /\ filerefs' = [filerefs EXCEPT ![target[a]] = Assigned]
     \/ /\ at[a] = "putting" /\ filerefs[target[a]].etag = tag[a]
        /\ filerefs' = [filerefs EXCEPT ![target[a]].content = Bytes(a), ![target[a]].etag = @ + 1]
  /\ LetsGo(a)
  /\ UNCHANGED <<frBackend, claim, frCounts, ran, refused>>

\* createFileref of a name that does not change; one that is held is looked for.
AssignsFixed(a) ==
  /\ at[a] = "assigning"
  /\ IF IsFree(target[a])
     THEN filerefs' = [filerefs EXCEPT ![target[a]] = Assigned] /\ Goto(a, "tagging")
     ELSE Goto(a, "finding") /\ UNCHANGED filerefs
  /\ UNCHANGED <<frBackend, target, tag, claim, frCounts,
                 ran, refused>>

\* Fault: any fileref of the token's name is rewritten.
OwnByName(n) == TRUE
\* isOwnTokenFileref: a DISK file of that name in the session's own directory.
OwnTokenFileref(n) == filerefs[n].owner = "ext"

\* findFileref; what is not the extension's own is not written a token.
Finds(a) ==
  /\ at[a] = "finding"
  /\ Goto(a, IF target[a] = Token /\ ~OwnTokenFileref(Token) THEN "idle" ELSE "tagging")
  /\ UNCHANGED <<filerefs, frBackend, target, tag, claim, frCounts, ran, refused>>

NumbersHeld == {n \in 1 .. MaxNumber : ~IsFree(PY(n))}

\* What the first page alone has; a fault if it is all that is ever read.
FirstPage == {n \in NumbersHeld : n <= 2}
\* listFilerefNames follows every page.
EveryPage == NumbersHeld
HighestOf(S) == IF S = {} THEN 0 ELSE Max(S)

\* seedFilerefCounter: a list that fails leaves the counter to the retries.
Lists(h) ==
  /\ at[Run(h)] = "listing" /\ Goto(Run(h), "claiming")
  /\ \/ /\ blind' = [blind EXCEPT ![h] = TRUE]
        /\ UNCHANGED <<filerefCounter, filerefCounterSeeded, listed>>
     \/ \E S \in {EveryPage} \cup (IF "lost page" \in FrMayMeet THEN {FirstPage} ELSE {}) :
          /\ filerefCounter' = [filerefCounter EXCEPT ![h] = Max({@, HighestOf(S)})]
          /\ filerefCounterSeeded' = [filerefCounterSeeded EXCEPT ![h] = TRUE]
          /\ listed' = [listed EXCEPT ![h] = HighestOf(NumbersHeld)]
          /\ UNCHANGED blind
  /\ UNCHANGED <<filerefs, startupUploaded, target, tag, attempts, seeding, frCounts, ran, refused>>

\* Fault: a name that is taken is taken over.
ReusesName(n) == TRUE
\* nextFilerefName and createFileref: only a name that was free is the run's.
IsMine(n) == IsFree(n)

\* Fault: one name more.
TriesOneMore(n) == n <= Attempts
\* The names a run tries.
TriesMore(n) == n < Attempts

ClaimsName(h) ==
  /\ at[Run(h)] = "claiming" /\ filerefCounter[h] < MaxNumber
  /\ LET n == PY(filerefCounter[h] + 1) IN
     /\ filerefCounter' = [filerefCounter EXCEPT ![h] = @ + 1]
     /\ target' = [target EXCEPT ![Run(h)] = n]
     /\ filerefs' = IF IsFree(n) THEN [filerefs EXCEPT ![n] = Assigned] ELSE filerefs
     /\ IF IsMine(n)
        THEN /\ Goto(Run(h), "tagging") /\ UNCHANGED refused
             /\ attempts' = [attempts EXCEPT ![h] = 0] /\ blind' = [blind EXCEPT ![h] = FALSE]
        ELSE /\ attempts' = [attempts EXCEPT ![h] = @ + 1] /\ UNCHANGED blind
             /\ IF TriesMore(attempts'[h]) THEN UNCHANGED <<at, refused>>
                ELSE Goto(Run(h), "idle") /\ refused' = refused \cup {<<h, blind[h]>>}
  /\ UNCHANGED <<filerefCounterSeeded, startupUploaded, listed, tag, seeding, frCounts, ran>>

\* Its answer is lost, or the run is cancelled: the name is used up, held or not.
GivesUpClaim(h) ==
  /\ at[Run(h)] = "claiming" /\ filerefCounter[h] < MaxNumber
  /\ Goto(Run(h), "idle") /\ LetsGo(Run(h))
  /\ LET n == PY(filerefCounter[h] + 1) IN
       \/ UNCHANGED filerefs
       \/ IsFree(n) /\ filerefs' = [filerefs EXCEPT ![n] = Assigned]
  /\ filerefCounter' = [filerefCounter EXCEPT ![h] = @ + 1]
  /\ UNCHANGED <<filerefCounterSeeded, startupUploaded, listed, claim, frCounts, ran, refused>>

\* writeFilerefContent: the self GET, for its ETag ...
Tags(a) ==
  /\ at[a] = "tagging" /\ Goto(a, "putting")
  /\ tag' = [tag EXCEPT ![a] = filerefs[target[a]].etag]
  /\ UNCHANGED <<filerefs, frBackend, target, claim, frCounts, ran, refused>>

\* ... and the content PUT, refused if somebody has written since.
Puts(a) ==
  /\ at[a] = "putting" /\ filerefs[target[a]].etag = tag[a]
  /\ filerefs' = [filerefs EXCEPT ![target[a]].content = Bytes(a), ![target[a]].etag = @ + 1]
  /\ Goto(a, IF target[a] = Startup THEN Counts(a[1])
             ELSE IF target[a] = Token THEN "idle" ELSE "submitting")
  /\ startupUploaded' = [startupUploaded EXCEPT ![a[1]] = @ \/ target[a] = Startup]
  /\ tag' = [tag EXCEPT ![a] = 0]
  /\ UNCHANGED <<filerefCounter, filerefCounterSeeded, listed, target, claim, frCounts,
                 ran, refused>>

\* createJob: the job reads what its filerefs hold now.
Submits(h) ==
  /\ at[Run(h)] = "submitting" /\ Goto(Run(h), "idle")
  /\ ran' = ran \cup {[of |-> <<"program", h, programs[h]>>,
                       infile |-> filerefs[target[Run(h)]].content,
                       first |-> IF seeding[h] THEN filerefs[Startup].content ELSE <<"snippet">>]}
  /\ LetsGo(Run(h)) /\ seeding' = [seeding EXCEPT ![h] = FALSE]
  /\ UNCHANGED <<filerefs, frBackend, attempts, blind, frCounts, refused>>

\* The window is reloaded, or connects again, and finds the session there.
Reattaches(h) ==
  /\ at[Run(h)] = "idle" /\ at[Deliver(h)] = "idle" /\ reattached < MaxReattach
  /\ reattached' = reattached + 1
  /\ filerefCounter' = [filerefCounter EXCEPT ![h] = 0]
  /\ filerefCounterSeeded' = [filerefCounterSeeded EXCEPT ![h] = FALSE]
  /\ startupUploaded' = [startupUploaded EXCEPT ![h] = FALSE]
  /\ listed' = [listed EXCEPT ![h] = 0]
  /\ UNCHANGED <<filerefs, at, target, tag, claim, programs, tokens, ran, refused>>

\* A program of the user's says `filename` for a file of theirs.
UserAssigns(n) ==
  /\ "user" \in FrMayMeet /\ n # Startup
  /\ filerefs[n].owner # "user" /\ \A m \in FilerefNames : filerefs[m].owner # "user"
  /\ IsFree(n) \/ (n = Token /\ "reassigned" \in FrMayMeet)
  /\ filerefs' = [filerefs EXCEPT ![n] = Users]
  /\ UNCHANGED <<frBackend, at, target, tag, claim, frCounts, ran, refused>>

WriterSteps(a) == GivesUp(a) \/ AssignsFixed(a) \/ Finds(a) \/ Tags(a) \/ Puts(a)
FrNext ==
  \/ \E h \in Hosts : \/ BeginsRun(h) \/ BeginsToken(h) \/ Lists(h) \/ ClaimsName(h)
                      \/ GivesUpClaim(h) \/ Submits(h) \/ Reattaches(h)
  \/ \E a \in Writers : WriterSteps(a)
  \/ \E n \in {PY(Earlier + 1), Token} : UserAssigns(n)
frSpec == FrInit /\ [][FrNext]_frVars

-----------------------------------------------------------------------------
(* What is being checked. *)

\* Every variable has its type.
FrTypeOK ==
  /\ \A n \in FilerefNames : filerefs[n].owner \in {"none", "ext", "user"}
                            /\ filerefs[n].etag \in Nat
  /\ DOMAIN filerefs = FilerefNames
  /\ filerefCounter \in [Hosts -> 0 .. MaxNumber] /\ listed \in [Hosts -> 0 .. MaxNumber]
  /\ {filerefCounterSeeded, startupUploaded, blind, seeding} \subseteq [Hosts -> BOOLEAN]
  /\ at \in [Writers -> {"idle", "assigning", "finding", "listing", "claiming", "tagging",
                         "putting", "submitting"}]
  /\ target \in [Writers -> FilerefNames] /\ tag \in [Writers -> Nat]
  /\ attempts \in [Hosts -> 0 .. Attempts] /\ refused \subseteq Hosts \X BOOLEAN

\* Every job runs the very program it was submitted for, whatever other windows write, and
\* one that begins with the snippet finds it there in full.
RunsItsOwnProgram == \A j \in ran : j.infile = j.of /\ j.first = <<"snippet">>

\* A token is never in a file that a program of the user's has named.
TokenStaysHome ==
  \A n \in FilerefNames : filerefs[n].owner = "user" => filerefs[n].content = <<"theirs">>

\* "Sixteen is far more than that race can realistically need": no run is refused for want of
\* a name, unless its list could not be read.  (It is when the other window has run Attempts
\* programs since this one listed the names, which it does once.)
NoRunRefused == \A r \in refused : r[2]

\* Once seeded, the counter is past every name the session held when they were listed.
SeededIsPast == \A h \in Hosts : filerefCounterSeeded[h] => filerefCounter[h] >= listed[h]

\* Programs, tokens and names are the window's own.
FilerefsAreOwn == RunsItsOwnProgram /\ TokenStaysHome /\ SeededIsPast
=============================================================================
