----------------------------- MODULE RichCapture -----------------------------
(***************************************************************************)
(* The rich output of runs (captureRichOutput of src/backend/procPython.ts,*)
(* src/backend/richOutput.ts, src/compute/files.ts): the working directory *)
(* of the session is listed before a job and after it, what is new or has  *)
(* another size is fetched, shown and deleted, and so is the body of ODS,  *)
(* one file that every job writes again.  A cancelled run, a request that  *)
(* fails and a deletion that fails leave files to the next run; a second   *)
(* window attached to the session captures from the same directory.        *)
(***************************************************************************)
EXTENDS Naturals, FiniteSets

CONSTANTS
  Backends,       \* one to a window
  Figures,        \* the names a program may write: .png, .html, a grid
  Sizes,          \* sizes in a listing, Cap and below small enough to fetch
  Cap,            \* MAX_CAPTURE_BYTES
  MaxJobs

Ods == "ods"

ASSUME RcAssumption ==
  /\ Ods \notin Figures /\ Sizes \subseteq Nat \ {0} /\ Cap \in Nat /\ MaxJobs \in Nat

VARIABLES
  directory,      \* file -> its size, the job that wrote it, whether it shows anything
  phase, job,     \* of each backend: how far its run is, and the job
  before, after,  \* its listings, before the job and after it; NoListing if one failed
  candidates,          \* the candidates not yet seen to
  fetched,        \* the file it shows and is about to delete
  emptyOdsBodySize,
  jobs, live,     \* jobs created, and those that run
  wrote,          \* job -> what it wrote: <<file, size>>, left out what looks unchanged
  captured, noted,        \* what was shown, and what was said not to be
  unseen            \* contents deleted that were never shown
rcVars == <<directory, phase, job, before, after, candidates, fetched, emptyOdsBodySize, jobs,
            live, wrote, captured, noted, unseen>>

RichFiles == Figures \cup {Ods}
EmptySize == 1                  \* of an ODS body that holds styling alone
NoSessionFile == [size |-> 0, by |-> 0, shows |-> FALSE]
Listing == [n \in {n \in RichFiles : directory[n] # NoSessionFile} |-> directory[n].size]
NoListing == [n \in {"failed"} |-> 0]
Jobs == 1 .. MaxJobs
BackendGoes(b, p) == phase' = [phase EXCEPT ![b] = p]

RcInit ==
  /\ directory = [n \in RichFiles |-> NoSessionFile]
  /\ phase = [b \in Backends |-> "idle"] /\ job = [b \in Backends |-> 0]
  /\ before = [b \in Backends |-> NoListing] /\ after = [b \in Backends |-> NoListing]
  /\ candidates = [b \in Backends |-> {}] /\ fetched = [b \in Backends |-> "none"]
  /\ emptyOdsBodySize = [b \in Backends |-> 0]
  /\ jobs = 0 /\ live = {} /\ wrote = [j \in Jobs |-> {}]
  /\ captured = {} /\ noted = {} /\ unseen = {}
rcListings == <<before, after>>
results == <<captured, noted, unseen>>

-----------------------------------------------------------------------------
\* Before the job the directory is listed; that may fail, and the run goes on.
ListsBefore(b) ==
  /\ phase[b] = "idle" /\ jobs < MaxJobs /\ BackendGoes(b, "starting")
  /\ \E l \in {Listing, NoListing} : before' = [before EXCEPT ![b] = l]
  /\ UNCHANGED <<directory, job, after, candidates, fetched, emptyOdsBodySize, jobs,
                 live, wrote, results>>

\* createJob: the guard is the window's own, so another window's job may be running.
CreatesJob(b) ==
  /\ phase[b] = "starting" /\ jobs < MaxJobs
  /\ jobs' = jobs + 1 /\ job' = [job EXCEPT ![b] = jobs + 1] /\ live' = live \cup {jobs + 1}
  /\ BackendGoes(b, "running")
  /\ UNCHANGED <<directory, rcListings, candidates, fetched, emptyOdsBodySize, wrote, results>>

\* The program writes a file, anew or over one that is there.
WritesFile(b) ==
  /\ phase[b] = "running"
  /\ \E n \in Figures, s \in Sizes :
       /\ directory[n].by # job[b]
       /\ directory' = [directory EXCEPT ![n] = [size |-> s, by |-> job[b], shows |-> TRUE]]
       /\ wrote' = [wrote EXCEPT ![job[b]] = @ \cup {<<n, directory[n].size # s>>}]
  /\ UNCHANGED <<phase, job, rcListings, candidates, fetched, emptyOdsBodySize, jobs,
                 live, results>>

\* hasOdsOutput: a body with a figure in it, or with styling alone.
OdsBodies(b) ==
  {[size |-> EmptySize, by |-> job[b], shows |-> FALSE]}
    \cup {[size |-> s, by |-> job[b], shows |-> TRUE] : s \in Sizes \ {EmptySize}}

\* The job ends, and with it the body of ODS.
EndsJob(b) ==
  /\ phase[b] = "running" /\ live' = live \ {job[b]}
  /\ \E body \in OdsBodies(b) :
       /\ directory' = [directory EXCEPT ![Ods] = body]
       /\ wrote' = [wrote EXCEPT ![job[b]] = @ \cup (IF body.shows THEN {<<Ods, TRUE>>} ELSE {})]
  /\ BackendGoes(b, "listing")
  /\ UNCHANGED <<job, rcListings, candidates, fetched, emptyOdsBodySize, jobs, results>>

\* A run that is cancelled captures nothing; it may have begun the body of ODS.
CancelsRun(b) ==
  /\ phase[b] \in {"starting", "running"}
  /\ BackendGoes(b, "idle") /\ live' = live \ {job[b]}
  /\ IF phase[b] = "starting" THEN UNCHANGED <<wrote, directory>>
     ELSE /\ wrote' = [wrote EXCEPT ![job[b]] = {}]
          /\ \E body \in {directory[Ods]} \cup OdsBodies(b) :
               directory' = [directory EXCEPT ![Ods] = body]
  /\ UNCHANGED <<job, rcListings, candidates, fetched, emptyOdsBodySize, jobs, results>>

\* Fault: what is in the directory is shown, new or not.
NewOrNot(b, n) == TRUE
\* changedSince.
ChangedSince(b, n) == n \notin DOMAIN before[b] \/ before[b][n] # after'[b][n]

\* selectRichOutputCandidates: the names the extension knows, but not the body of ODS.
Candidates(b) == {n \in DOMAIN after'[b] \ {Ods} : ChangedSince(b, n)}

\* Fault: the body of ODS too is left if it looks as it did before.
OdsIfChanged(b) ==
  Ods \in DOMAIN after'[b] /\ (Ods \notin DOMAIN before[b] \/ before[b][Ods] # after'[b][Ods])
\* selectOdsBody: it is left if it is as large as the last one that was empty.
SelectOdsBody(b) == Ods \in DOMAIN after'[b] /\ after'[b][Ods] # emptyOdsBodySize[b]

\* The second listing; without both there is nothing to tell what is new by.
ListsAfter(b) ==
  /\ phase[b] = "listing"
  /\ \E l \in {Listing, NoListing} : after' = [after EXCEPT ![b] = l]
  /\ IF before[b] = NoListing \/ after'[b] = NoListing
     THEN /\ BackendGoes(b, "idle") /\ UNCHANGED candidates
          /\ noted' = noted \cup {<<job[b], n>> : n \in RichFiles}
     ELSE /\ BackendGoes(b, "capturing") /\ UNCHANGED noted
          /\ candidates' = [candidates EXCEPT ![b] = Candidates(b) \cup (IF SelectOdsBody(b) THEN {Ods} ELSE {})]
  /\ UNCHANGED <<directory, job, before, fetched, emptyOdsBodySize, jobs,
                 live, wrote, captured, unseen>>

\* Fault: a file that is not shown is deleted like the others.
Discards(b, n) == BackendGoes(b, "deleting") /\ fetched' = [fetched EXCEPT ![b] = n]
\* A file that is skipped stays where it is.
Spares(b, n) == UNCHANGED <<phase, fetched>>

\* exceedsCaptureCap, or the fetch fails: it is said, and the file stays.
SkipsFile(b) ==
  /\ phase[b] = "capturing"
  /\ \E n \in candidates[b] :
       /\ n = Ods => candidates[b] = {Ods}
       /\ candidates' = [candidates EXCEPT ![b] = @ \ {n}] /\ noted' = noted \cup {<<job[b], n>>}
       /\ Spares(b, n)
  /\ UNCHANGED <<directory, job, rcListings, emptyOdsBodySize, jobs, live, wrote,
                 captured, unseen>>

\* readFileContent: a file is shown, and deleted next; an ODS body that shows nothing is not.
FetchesFile(b) ==
  /\ phase[b] = "capturing"
  /\ \E n \in candidates[b] :
       /\ n = Ods => candidates[b] = {Ods}
       /\ after[b][n] <= Cap /\ directory[n] # NoSessionFile
       /\ candidates' = [candidates EXCEPT ![b] = @ \ {n}]
       /\ IF directory[n].shows
          THEN /\ captured' = captured \cup {[file |-> n, by |-> directory[n].by, in |-> job[b]]}
               /\ fetched' = [fetched EXCEPT ![b] = n] /\ BackendGoes(b, "deleting")
               /\ UNCHANGED emptyOdsBodySize
          ELSE /\ emptyOdsBodySize' = [emptyOdsBodySize EXCEPT ![b] = after[b][n]]
               /\ UNCHANGED <<captured, fetched, phase>>
  /\ UNCHANGED <<directory, job, rcListings, jobs, live, wrote, noted, unseen>>

\* deleteSessionFile, by the ETag of just now; that it failed is only logged.
DeletesFile(b) ==
  /\ phase[b] = "deleting" /\ BackendGoes(b, "capturing")
  /\ \/ UNCHANGED <<directory, unseen>>
     \/ LET n == fetched[b] IN
        /\ directory' = [directory EXCEPT ![n] = NoSessionFile]
        /\ unseen' = IF directory[n] = NoSessionFile
                      \/ \E c \in captured : c.file = n /\ c.by = directory[n].by
                   THEN unseen ELSE unseen \cup {<<n, directory[n].by>>}
  /\ UNCHANGED <<job, rcListings, candidates, fetched, emptyOdsBodySize, jobs,
                 live, wrote, captured, noted>>

IsDone(b) ==
  /\ phase[b] = "capturing" /\ candidates[b] = {} /\ BackendGoes(b, "idle")
  /\ UNCHANGED <<directory, job, rcListings, candidates, fetched, emptyOdsBodySize, jobs,
                 live, wrote, results>>

RcNext == \E b \in Backends :
  \/ ListsBefore(b) \/ CreatesJob(b) \/ WritesFile(b) \/ EndsJob(b) \/ CancelsRun(b)
  \/ ListsAfter(b) \/ SkipsFile(b) \/ FetchesFile(b) \/ DeletesFile(b) \/ IsDone(b)
rcSpec == RcInit /\ [][RcNext]_rcVars

-----------------------------------------------------------------------------
(* What is being checked. *)

\* Every variable has its type.
RcTypeOK ==
  /\ directory \in [RichFiles -> [size : Sizes \cup {0, EmptySize}, by : 0 .. MaxJobs, shows : BOOLEAN]]
  /\ phase \in [Backends -> {"idle", "starting", "running", "listing", "capturing", "deleting"}]
  /\ job \in [Backends -> 0 .. MaxJobs] /\ jobs \in 0 .. MaxJobs /\ live \subseteq Jobs
  /\ candidates \in [Backends -> SUBSET RichFiles] /\ fetched \in [Backends -> RichFiles \cup {"none"}]
  /\ noted \subseteq Jobs \X RichFiles

\* What a run shows, that run's program made: not what an earlier run was cancelled over, or
\* could not delete.
ShowsItsOwn == \A c \in captured : c.in = c.by

\* When a run is over, each file it wrote with another size than the file had, and the figure
\* in the body of ODS, has been shown or said to be left out.
EveryFigureIsShown ==
  \A b \in Backends : phase[b] = "idle" /\ job[b] # 0 /\ job[b] \notin live =>
    \A w \in wrote[job[b]] :
      w[2] => \/ <<job[b], w[1]>> \in noted
              \/ \E c \in captured : c.file = w[1] /\ c.in = job[b]

\* No file is deleted that was not shown.
OnlyShownIsDeleted == unseen = {}

\* No job is created in a session while another one runs there.
OneJobAtATime == Cardinality(live) <= 1

FiguresAreShown == ShowsItsOwn /\ EveryFigureIsShown /\ OnlyShownIsDeleted
=============================================================================
