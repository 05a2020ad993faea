----------------------------- MODULE LogStream -----------------------------
(***************************************************************************)
(* Reading a running job's log (streamJobLog, src/compute/logStream.ts,    *)
(* over the page reads of src/compute/job.ts): the pump that polls pages,  *)
(* decides from the job's state that the run is over and drains the rest;  *)
(* the bounded EventBuffer between it and a consumer that may never come   *)
(* back; and cancellation from either side.                                *)
(*                                                                         *)
(* The log is the lines 1..written; line n has Size[n] characters, and the *)
(* lines in Junk reach the reader as items it cannot parse.                *)
(***************************************************************************)
EXTENDS Naturals, Sequences, FiniteSets, SequencesExt

CONSTANTS
    MaxLog,          \* bound on the lines the job writes
    Size, Junk,      \* characters of each line; items that are not lines
    Limit,           \* lines per page
    MaxLines, MaxCharacters,  \* maxBufferedLines, maxBufferedCharacters
    MaxWindows,      \* MAX_WINDOWS_WITHOUT_STATE_READ
    MaxDrainPages,   \* MAX_DRAIN_PAGES
    None

ASSUME LogAssumption ==
    /\ MaxLog \in Nat /\ Size \in [1..MaxLog -> Nat] /\ Junk \subseteq 1..MaxLog
    /\ {Limit, MaxLines, MaxCharacters, MaxWindows, MaxDrainPages} \subseteq Nat \ {0}
    /\ None \notin Nat \cup {"terminal", "cancelled", "failed"}

VARIABLES
    written, job,    \* the deployment: lines written, and the job's state
    pc,              \* where the pump stands: the request it awaits
    start,           \* the cursor: items read so far
    next, pages,     \* the drain's next link, as a cursor, and its page count
    windows,         \* windowsSinceStateRead
    cancelled, finished,
    outcome,         \* how done settled
    told,            \* the request that stops the job: "no", "sent", "answered"
    queue, held, lost,  \* EventBuffer: queue; lines and characters; dropped
    seen             \* history: the events the consumer was given

buffer == <<queue, held, lost>>
vars == <<written, job, pc, start, next, pages, windows, cancelled, finished,
          outcome, told, buffer, seen>>

-----------------------------------------------------------------------------
(* EventBuffer                                                             *)

Line(n) == [kind |-> "line", lines |-> 1, characters |-> Size[n], at |-> n]
Dropped(tally) == [kind |-> "dropped", lines |-> tally.lines,
                   characters |-> tally.characters, at |-> 0]
IsLine(e) == e.kind = "line"

(* The lines and characters of the events at some places of a sequence.    *)
LinesIn(q) == {i \in DOMAIN q : IsLine(q[i])}
MarkersIn(q) == DOMAIN q \ LinesIn(q)
Tally(q, places) ==
    [lines |-> SumFunctionOnSet([i \in DOMAIN q |-> q[i].lines], places),
     characters |-> SumFunctionOnSet([i \in DOMAIN q |-> q[i].characters], places)]
NoTally == [lines |-> 0, characters |-> 0]

Plus(a, b) == [lines |-> a.lines + b.lines, characters |-> a.characters + b.characters]
Minus(a, b) == [lines |-> a.lines - b.lines, characters |-> a.characters - b.characters]

Fits(tally) == tally.lines <= MaxLines /\ tally.characters <= MaxCharacters

(* trim(): lines go from the front until both bounds hold; a marker found  *)
(* there is taken into the one left in their place.                        *)
First(q, k) == LinesIn(q) \cap 1..k
Excess(q, tally) ==
    CHOOSE k \in 0..Len(q) :
        /\ Fits(Minus(tally, Tally(q, First(q, k))))
        /\ \A j \in 0..(k - 1) : ~Fits(Minus(tally, Tally(q, First(q, j))))

(* Fault: a marker moved out of the way is counted again.                  *)
TrimTwice(q, tally) ==
    LET k == Excess(q, tally)
        rest == SubSeq(q, k + 1, Len(q))
    IN  [queue |-> IF k = 0 THEN q ELSE <<Dropped(Tally(q, 1..k))>> \o rest,
         held |-> Minus(tally, Tally(q, First(q, k))),
         gone |-> Tally(q, 1..k)]

(* Fault: the marker carries only what this call discarded.                *)
TrimForgets(q, tally) ==
    LET k == Excess(q, tally)
        gone == Tally(q, First(q, k))
        rest == SubSeq(q, k + 1, Len(q))
    IN  [queue |-> IF k = 0 THEN q ELSE <<Dropped(gone)>> \o rest,
         held |-> Minus(tally, gone), gone |-> gone]

(* Fault: the marker is put behind the lines that stay.                    *)
TrimMarksLate(q, tally) ==
    LET k == Excess(q, tally)
        gone == Tally(q, First(q, k))
        rest == SubSeq(q, k + 1, Len(q))
    IN  [queue |-> IF k = 0 THEN q ELSE Append(rest, Dropped(Tally(q, 1..k))),
         held |-> Minus(tally, gone), gone |-> gone]

Trim(q, tally) ==
    LET k == Excess(q, tally)
        gone == Tally(q, First(q, k))
        rest == SubSeq(q, k + 1, Len(q))
    IN  [queue |-> IF k = 0 THEN q ELSE <<Dropped(Tally(q, 1..k))>> \o rest,
         held |-> Minus(tally, gone), gone |-> gone]

(* push() of the lines of a page that starts after the cursor.             *)
Nth(numbers, i) == CHOOSE n \in numbers : Cardinality({m \in numbers : m <= n}) = i
Page(from, items) ==
    LET parsed == (from + 1 .. from + items) \ Junk
    IN  [i \in 1..Cardinality(parsed) |-> Line(Nth(parsed, i))]
Push(from, items) ==
    LET page == Page(from, items)
        after == Trim(queue \o page, Plus(held, Tally(page, DOMAIN page)))
    IN  /\ queue' = after.queue
        /\ held' = after.held
        /\ lost' = Plus(lost, after.gone)

(* Fault: a line taken is still counted as held.                           *)
TakeUncounted ==
    /\ queue # << >>
    /\ seen' = Append(seen, Head(queue))
    /\ queue' = Tail(queue)
    /\ UNCHANGED <<written, job, pc, start, next, pages, windows, cancelled,
                   finished, outcome, told, held, lost>>

(* The consumer takes the next event, if it is still interested.           *)
Take ==
    /\ queue # << >>
    /\ seen' = Append(seen, Head(queue))
    /\ queue' = Tail(queue)
    /\ held' = IF IsLine(Head(queue)) THEN Minus(held, Tally(queue, {1})) ELSE held
    /\ UNCHANGED <<written, job, pc, start, next, pages, windows, cancelled,
                   finished, outcome, told, lost>>

-----------------------------------------------------------------------------
(* The deployment                                                          *)

JobWrites ==
    /\ job = "running" /\ written < MaxLog
    /\ written' = written + 1
    /\ UNCHANGED <<job, pc, start, next, pages, windows, cancelled, finished,
                   outcome, told, buffer, seen>>

JobEnds ==
    /\ job = "running"
    /\ job' = "terminal"
    /\ UNCHANGED <<written, pc, start, next, pages, windows, cancelled, finished,
                   outcome, told, buffer, seen>>

(* The items of the page at a cursor, and where its next link may lead: a  *)
(* last page carries none, or the deployment offers one more.              *)
Available(from) == IF written - from < Limit THEN written - from ELSE Limit
NextOf(from) ==
    {from + Available(from)}
        \cup (IF from + Available(from) < written THEN {} ELSE {None})

-----------------------------------------------------------------------------
Init ==
    /\ written = 0 /\ job = "running"
    /\ pc = "poll" /\ start = 0 /\ next = None /\ pages = 0 /\ windows = 0
    /\ cancelled \in BOOLEAN      \* the caller's signal may already be aborted
    /\ finished = FALSE /\ outcome = None /\ told = "no"
    /\ queue = << >> /\ held = NoTally /\ lost = NoTally
    /\ seen = << >>

(* done settles; the consumer's iterator ends once the queue is empty.     *)
End(how) == pc' = "ended" /\ outcome' = how

(* Fault: silent windows are counted, but only a fast one makes it ask.    *)
PollFastOnly ==
    LET items == Available(start) IN
    /\ pc = "poll" /\ ~cancelled
    /\ Push(start, items)
    /\ start' = start + items
    /\ \E fast \in BOOLEAN : pc' = IF items = 0 /\ fast THEN "state" ELSE pc
    /\ windows' = IF items = 0 THEN (windows + 1) % MaxWindows ELSE 0
    /\ UNCHANGED <<written, job, next, pages, cancelled, finished,
                   outcome, told, seen>>

(* Fault: the count of silent windows is not reset by asking.              *)
PollKeepsCount ==
    LET items == Available(start) IN
    /\ pc = "poll" /\ ~cancelled
    /\ Push(start, items)
    /\ start' = start + items
    /\ windows' = IF items = 0 THEN windows + 1 ELSE 0
    /\ pc' = IF windows' < MaxWindows THEN pc ELSE "state"
    /\ UNCHANGED <<written, job, next, pages, cancelled, finished,
                   outcome, told, seen>>

(* A page of the running log.  Items are evidence the job is alive; an     *)
(* empty page is a reason to ask, if it came back fast or if as many have  *)
(* gone by unasked as may.                                                 *)
PollPage ==
    LET items == Available(start) IN
    /\ pc = "poll" /\ ~cancelled
    /\ Push(start, items)
    /\ start' = start + items
    /\ IF items > 0
       THEN windows' = 0 /\ UNCHANGED pc
       ELSE \E fast \in BOOLEAN :
              IF ~fast /\ windows + 1 < MaxWindows
              THEN windows' = windows + 1 /\ UNCHANGED pc
              ELSE windows' = 0 /\ pc' = "state"
    /\ UNCHANGED <<written, job, next, pages, cancelled, finished, outcome, told, seen>>

(* Fault: a terminal state ends the stream without a last read.            *)
StateEnds ==
    /\ pc = "state" /\ ~cancelled
    /\ IF job = "terminal" THEN finished' = TRUE /\ End("terminal")
                           ELSE pc' = "poll" /\ UNCHANGED <<finished, outcome>>
    /\ UNCHANGED <<written, job, start, next, pages, windows, cancelled, told,
                   buffer, seen>>

StateRead ==
    /\ pc = "state" /\ ~cancelled
    /\ IF job = "terminal" THEN finished' = TRUE /\ pc' = "first"
                           ELSE pc' = "poll" /\ UNCHANGED finished
    /\ UNCHANGED <<written, job, start, next, pages, windows, cancelled, outcome,
                   told, buffer, seen>>

(* Where the drain goes after a page whose next link is given.             *)
Drain(link) ==
    /\ next' = link
    /\ IF link = None THEN End("terminal") ELSE pc' = "follow" /\ UNCHANGED outcome

(* The drain begins at the cursor, not at the empty page's next link.      *)
DrainFirst ==
    /\ pc = "first" /\ ~cancelled
    /\ Push(start, Available(start))
    /\ start' = start + Available(start)
    /\ \E link \in NextOf(start) : Drain(link)
    /\ UNCHANGED <<written, job, pages, windows, cancelled, finished, told, seen>>

(* Then it follows next until there is none, up to a bound.                *)
DrainNext ==
    /\ pc = "follow" /\ ~cancelled /\ pages < MaxDrainPages
    /\ Push(next, Available(next))
    /\ start' = next + Available(next)
    /\ pages' = pages + 1
    /\ \E link \in NextOf(next) : Drain(link)
    /\ UNCHANGED <<written, job, windows, cancelled, finished, told, seen>>

PagingDidNotEnd ==
    /\ pc = "follow" /\ ~cancelled /\ pages = MaxDrainPages
    /\ End("failed")
    /\ UNCHANGED <<written, job, start, next, pages, windows, cancelled, finished,
                   told, buffer, seen>>

(* Fault: a request's failure is reported before cancellation is asked.    *)
FailsFirst ==
    /\ pc # "ended"
    /\ End("failed")
    /\ UNCHANGED <<written, job, start, next, pages, windows, cancelled, finished,
                   told, buffer, seen>>

(* Any request can fail: the deployment unreachable, the session reaped.   *)
RequestFails ==
    /\ pc # "ended" /\ ~cancelled
    /\ End("failed")
    /\ UNCHANGED <<written, job, start, next, pages, windows, cancelled, finished,
                   told, buffer, seen>>

(* After each await cancellation is asked about first, whatever came back. *)
NoticesCancel ==
    /\ pc # "ended" /\ cancelled
    /\ End("cancelled")
    /\ UNCHANGED <<written, job, start, next, pages, windows, cancelled, finished,
                   told, buffer, seen>>

Pump ==
    \/ RequestFails \/ NoticesCancel
    \/ PollPage \/ StateRead \/ DrainFirst \/ DrainNext \/ PagingDidNotEnd

-----------------------------------------------------------------------------
(* Cancellation                                                            *)

(* Fault: only a settled stream sends nothing.                             *)
CancelUntilSettled ==
    /\ pc # "ended" /\ told = "no"
    /\ cancelled' = TRUE
    /\ told' = "sent"
    /\ UNCHANGED <<written, job, pc, start, next, pages, windows, finished,
                   outcome, buffer, seen>>

(* cancel(): nothing once the job is known to be over, one request else.   *)
Cancel ==
    /\ pc # "ended" /\ ~finished /\ told = "no"
    /\ cancelled' = TRUE
    /\ told' = "sent"
    /\ UNCHANGED <<written, job, pc, start, next, pages, windows, finished,
                   outcome, buffer, seen>>

(* The job is told to stop, or the request fails; it ends when it ends.    *)
CancelAnswered ==
    /\ told = "sent"
    /\ told' = "answered"
    /\ UNCHANGED <<written, job, pc, start, next, pages, windows, cancelled,
                   finished, outcome, buffer, seen>>

(* The caller's own signal: nothing is sent.                               *)
CallerAborts ==
    /\ pc # "ended" /\ ~cancelled
    /\ cancelled' = TRUE
    /\ UNCHANGED <<written, job, pc, start, next, pages, windows, finished,
                   outcome, told, buffer, seen>>

-----------------------------------------------------------------------------
Next ==
    \/ Pump \/ Take \/ JobWrites \/ JobEnds
    \/ Cancel \/ CancelAnswered \/ CallerAborts

Spec == Init /\ [][Next]_vars

(* Every request is answered or times out; nothing is asked of the         *)
(* consumer, and a program need not end.                                   *)
FairSpec == Spec /\ WF_vars(Pump)

-----------------------------------------------------------------------------
(* Properties                                                              *)

Event == [kind : {"line", "dropped"}, lines : Nat, characters : Nat, at : Nat]

(* Every variable keeps to its range.                                      *)
TypeOK ==
    /\ written \in 0..MaxLog /\ job \in {"running", "terminal"}
    /\ pc \in {"poll", "state", "first", "follow", "ended"}
    /\ start \in 0..MaxLog /\ next \in 0..MaxLog \cup {None}
    /\ pages \in 0..MaxDrainPages /\ windows \in 0..(MaxWindows - 1)
    /\ cancelled \in BOOLEAN /\ finished \in BOOLEAN
    /\ outcome \in {None, "terminal", "cancelled", "failed"}
    /\ told \in {"no", "sent", "answered"}
    /\ queue \in Seq(Event) /\ seen \in Seq(Event)
    /\ held \in [lines : Nat, characters : Nat]
    /\ lost \in [lines : Nat, characters : Nat]

Parsed(n) == (1..n) \ Junk
Story == seen \o queue

(* Read in order, the events account for every line: before a line stand   *)
(* exactly the lines and the losses that come before it in the log, so a   *)
(* hole is marked where it is and with its size.                           *)
HolesAreMarked ==
    \A i \in LinesIn(Story) :
        Tally(Story, 1..i).lines = Cardinality(Parsed(Story[i].at))

(* The totals done reports are the sum of the markers in the stream: each  *)
(* lost line is counted once, in both units.                               *)
TotalsMatchMarkers == lost = Tally(Story, MarkersIn(Story))

(* The buffer's counters are what the queue holds, and within the bounds.  *)
BufferIsBounded ==
    /\ held = Tally(queue, LinesIn(queue))
    /\ Fits(held)

(* Every line of the log is shown, waiting, or counted as lost where it     *)
(* was, and no more wait than the bounds say.                              *)
LogIsAccounted == HolesAreMarked /\ TotalsMatchMarkers /\ BufferIsBounded

(* A stream that ended because the job did has read the whole log.         *)
TerminalIsComplete == outcome = "terminal" => start = written

(* A run somebody asked to stop ends as cancelled: never as finished, and  *)
(* never as a failure to reach the deployment.                             *)
CancelIsCancelled == told # "no" => outcome \in {None, "cancelled"}

(* What the stream says of its end is so.                                  *)
EndIsTold == TerminalIsComplete /\ CancelIsCancelled

(* done settles once the job is over or has been cancelled, whatever the   *)
(* consumer does and however the deployment times and links its pages.     *)
DoneSettles == (job = "terminal" \/ cancelled) ~> pc = "ended"

-----------------------------------------------------------------------------
(* What a consumer sees of it is LogWindow, with lines numbered as parsed. *)
Shown == Cardinality(LinesIn(seen))
Told == Tally(seen, MarkersIn(seen)).lines
Gap == Tally(queue, MarkersIn(queue)).lines

Window == INSTANCE LogWindow WITH
    read <- Cardinality(Parsed(start)),
    low <- Cardinality(Parsed(start)) - held.lines,
    shown <- Shown, told <- Told, gap <- Gap

(* Pages, bounds, drain and cancellation never lose, repeat or reorder a   *)
(* line without saying so.                                                 *)
ImplementsWindow == Window!Init /\ [][Window!Next]_(Window!vars)
=============================================================================
