------------------------ MODULE AutopilotLogIngestor ------------------------
(***************************************************************************)
(* src/main/autopilotLogIngestor.ts: the pass that tails the daily         *)
(* autopilot-scheduled-YYYYMMDD.log files into autopilot_activity.         *)
(*                                                                         *)
(* A log file is a sequence of lines, an offset the number of lines before *)
(* it (the code's byte offsets only ever stop just past a '\n').  A line   *)
(* is a number, given in the order the lines are begun.  The writer of the *)
(* files is a scheduled task, outside the application.                     *)
(***************************************************************************)
EXTENDS Integers, Sequences, FiniteSets

CONSTANTS
    MaxDay,     \* the clock stops on this day
    MaxLines,   \* lines the writer may begin
    Passes,     \* concurrent callers of ingestOnce
    NoPass,
    Faults,     \* which faults may happen
    MaxFaults   \* and how many in a behaviour

FaultKinds == {"insert", "read", "checkpointRead", "save", "crash", "truncate", "partial"}

ASSUME BoundAssumption ==
    /\ MaxDay \in Nat \ {0}
    /\ MaxLines \in Nat
    /\ MaxFaults \in Nat
ASSUME PassAssumption == NoPass \notin Passes
ASSUME FaultAssumption == Faults \subseteq FaultKinds

Days == 1..MaxDay
Lines == 1..MaxLines

VARIABLES
    \* the outside world
    today,      \* dayStamp()
    log,        \* the complete lines of each day's file
    written,    \* lines begun so far
    malformed,  \* lines parseAutopilotLogLine refuses (blank lines too)
    partial,    \* the line whose '\n' is not written yet: [day, line], line 0 for none
    \* what survives a restart
    checkpoint, \* autopilot-scheduled-ingest.json: [date, offset], date 0 for no file
    rows,       \* autopilot_activity: the rows inserted for each line
    \* the application
    up,
    inFlight,   \* _inFlight: the pass whose promise is pending
    pass,       \* the local state of each call of ingestOnce
    \* auxiliary: the actions never read these, except the bound on faults
    faults,     \* faults so far
    lostPlaces, \* passes that inserted without leaving a checkpoint, or could not read one
    unread,     \* days before today that an unreadable checkpoint named
    visited,    \* days that the checkpoint file has named
    truncated,  \* days whose file was emptied
    history     \* what happened to each line: "failed", "cut", "down"

worldVars == <<today, log, written, malformed, partial>>
auxVars == <<faults, lostPlaces, unread, visited, truncated, history>>
vars == <<today, log, written, malformed, partial, checkpoint, rows, up,
          inFlight, pass, faults, lostPlaces, unread, visited, truncated, history>>

NoPartial == [day |-> 0, line |-> 0]
NoCheckpoint == [date |-> 0, offset |-> 0]
Idle == [pc |-> "idle", cp |-> NoCheckpoint, day |-> 0, date |-> 0, offset |-> 0]

Init ==
    /\ today = 1
    /\ log = [d \in Days |-> <<>>]
    /\ written = 0
    /\ malformed = {}
    /\ partial = NoPartial
    /\ checkpoint = NoCheckpoint
    /\ rows = [l \in Lines |-> 0]
    /\ up = TRUE
    /\ inFlight = NoPass
    /\ pass = [p \in Passes |-> Idle]
    /\ faults = 0
    /\ lostPlaces = 0
    /\ unread = {}
    /\ visited = {}
    /\ truncated = {}
    /\ history = [l \in Lines |-> {}]

-----------------------------------------------------------------------------
(* Faults are budgeted; every fault of the code's error paths is one kind. *)

Fault(kind) ==
    /\ kind \in Faults
    /\ faults < MaxFaults
    /\ faults' = faults + 1

NoFault == UNCHANGED faults

-----------------------------------------------------------------------------
(* The world: the clock, and the scheduled task that appends to the file   *)
(* of the day it runs on.                                                  *)

Midnight ==
    /\ today < MaxDay
    /\ today' = today + 1
    /\ UNCHANGED <<log, written, malformed, partial, checkpoint, rows, up, inFlight, pass, auxVars>>

\* A line that begins while the application is down is marked so.
Begun(l) == history' = [history EXCEPT ![l] = IF up THEN {} ELSE {"down"}]

AppendLine ==
    /\ partial = NoPartial
    /\ written < MaxLines
    /\ written' = written + 1
    /\ log' = [log EXCEPT ![today] = Append(@, written + 1)]
    /\ \/ UNCHANGED malformed
       \/ malformed' = malformed \cup {written + 1}
    /\ Begun(written + 1)
    /\ UNCHANGED <<today, partial, checkpoint, rows, up, inFlight, pass,
                   faults, lostPlaces, unread, visited, truncated>>

\* The writer is seen in the middle of an append.
AppendPart ==
    /\ Fault("partial")
    /\ partial = NoPartial
    /\ written < MaxLines
    /\ written' = written + 1
    /\ partial' = [day |-> today, line |-> written + 1]
    /\ Begun(written + 1)
    /\ UNCHANGED <<today, log, malformed, checkpoint, rows, up, inFlight, pass,
                   lostPlaces, unread, visited, truncated>>

AppendRest ==
    /\ partial # NoPartial
    /\ log' = [log EXCEPT ![partial.day] = Append(@, partial.line)]
    /\ partial' = NoPartial
    /\ UNCHANGED <<today, written, malformed, checkpoint, rows, up, inFlight, pass, auxVars>>

\* A cleaner empties a file.
Truncate(d) ==
    /\ Fault("truncate")
    /\ log[d] # <<>>
    /\ partial.day # d
    /\ log' = [log EXCEPT ![d] = <<>>]
    /\ truncated' = truncated \cup {d}
    /\ UNCHANGED <<today, written, malformed, partial, checkpoint, rows, up, inFlight, pass,
                   lostPlaces, unread, visited, history>>

-----------------------------------------------------------------------------
(* ingestFileFromOffset                                                    *)

\* A file shorter than the offset was rotated: start again at 0.
StartOffset(d, offset) == IF offset > Len(log[d]) THEN 0 ELSE offset

\* The well-formed lines of file d after `from' and up to `to': the rows a
\* drain that stops at `to' has inserted.
Inserted(d, from, to) == {log[d][i] : i \in (from + 1)..to} \ malformed

Insert(lines) == rows' = [l \in Lines |-> IF l \in lines THEN rows[l] + 1 ELSE rows[l]]

\* The drain may break only at a line it tried to insert.
MayBreakAt(d, from) ==
    {k \in from..(Len(log[d]) - 1) : log[d][k + 1] \notin malformed}

\* The drain ends at the last '\n', seeing the half-written line if there is one.
MarkCut(d) ==
    history' = IF partial.day = d THEN [history EXCEPT ![partial.line] = @ \cup {"cut"}]
                                  ELSE history

\* The code's words for a failed insert: "this line and every subsequent line".
MarkFailed(d, from) ==
    LET rest == ({log[d][i] : i \in (from + 1)..Len(log[d])} \ malformed)
                  \cup {l \in Lines : partial = [day |-> d, line |-> l]}
    IN  history' = [l \in Lines |-> IF l \in rest THEN history[l] \cup {"failed"} ELSE history[l]]

\* Mutant of OffsetAfterHalt: the cursor passes the failed line (as before v2.4.51).
CursorPassesFailure(stop) == stop + 1

\* The offset a halted drain returns: just past the last inserted line.
OffsetAfterHalt(stop) == stop

\* The offset the drain of file d from `offset' may return, with what it inserted.
Drain(d, offset, newOffset) ==
    LET from == StartOffset(d, offset)
    IN  \/ /\ newOffset = Len(log[d])
           /\ Insert(Inserted(d, from, Len(log[d])))
           /\ MarkCut(d)
           /\ NoFault
        \/ \E stop \in MayBreakAt(d, from) :
              /\ Fault("insert")
              /\ newOffset = OffsetAfterHalt(stop)
              /\ Insert(Inserted(d, from, stop))
              /\ MarkFailed(d, stop)

\* open or read throws before any line is inserted.
DrainThrows(d, offset) ==
    /\ Fault("read")
    /\ Len(log[d]) # StartOffset(d, offset)
    /\ MarkFailed(d, StartOffset(d, offset))
    /\ UNCHANGED rows

-----------------------------------------------------------------------------
(* ingestOnce: one action between two awaits that others can tell apart.   *)

\* Mutant of MayBegin: every timer starts a pass of its own.
BeginsAnyway == TRUE

\* A second caller awaits the pass in flight instead of starting one.
MayBegin == inFlight = NoPass

StartOfToday == [date |-> today, offset |-> 0]

\* readCheckpoint: without a file, the start of today.
ReadCheckpoint == IF checkpoint = NoCheckpoint THEN StartOfToday ELSE checkpoint

\* Mutant of FirstStep: the day rolls over without draining the file before.
SkipsPriorDay(cp) == "current"

FirstStep(cp) == IF cp.date # today THEN "prior" ELSE "current"

StartsFrom(p, cp) ==
    pass' = [pass EXCEPT ![p] =
                [pc |-> FirstStep(cp), cp |-> cp, day |-> today, date |-> today,
                 offset |-> IF cp.date = today THEN cp.offset ELSE 0]]

\* The checkpoint is read and the day taken.  (dayStamp runs after the read's
\* await; the file does not change meanwhile, so the two are one step.)  One
\* that cannot be read or parsed stands for the start of today as well.
BeginPass(p) ==
    /\ up
    /\ pass[p].pc = "idle"
    /\ MayBegin
    /\ inFlight' = p
    /\ \/ StartsFrom(p, ReadCheckpoint) /\ UNCHANGED <<faults, lostPlaces, unread>>
       \/ /\ checkpoint # NoCheckpoint
          /\ Fault("checkpointRead")
          /\ StartsFrom(p, StartOfToday)
          /\ lostPlaces' = lostPlaces + 1
          /\ unread' = unread \cup ({checkpoint.date} \ {today})
    /\ UNCHANGED <<worldVars, checkpoint, rows, up, visited, truncated, history>>

\* The file of the checkpoint's day, when the day has changed.  The offset it
\* returns is only written to the checkpoint; the pass goes on at today's 0.
DrainPrior(p) ==
    /\ pass[p].pc = "prior"
    /\ \/ \E newOffset \in 0..MaxLines :
             /\ Drain(pass[p].cp.date, pass[p].cp.offset, newOffset)
             /\ pass' = [pass EXCEPT ![p] =
                   [@ EXCEPT !.pc = "savePrior",
                             !.cp = [date |-> pass[p].cp.date, offset |-> newOffset]]]
       \/ /\ DrainThrows(pass[p].cp.date, pass[p].cp.offset)
          /\ pass' = [pass EXCEPT ![p].pc = "current"]
    /\ UNCHANGED <<worldVars, checkpoint, up, inFlight, lostPlaces, unread, visited, truncated>>

\* The write is atomic (a .tmp and a rename); a failed one is swallowed.
WriteCheckpoint(cp) ==
    /\ checkpoint' = cp
    /\ visited' = visited \cup {cp.date}
    /\ NoFault
    /\ UNCHANGED lostPlaces

WriteFails ==
    /\ Fault("save")
    /\ lostPlaces' = lostPlaces + 1
    /\ UNCHANGED <<checkpoint, visited>>

PriorCheckpoint(p) == pass[p].cp

SavePrior(p) ==
    /\ pass[p].pc = "savePrior"
    /\ WriteCheckpoint(PriorCheckpoint(p)) \/ WriteFails
    /\ pass' = [pass EXCEPT ![p].pc = "current"]
    /\ UNCHANGED <<worldVars, rows, up, inFlight, unread, truncated, history>>

DrainCurrent(p) ==
    /\ pass[p].pc = "current"
    /\ \/ \E newOffset \in 0..MaxLines :
             /\ Drain(pass[p].day, pass[p].offset, newOffset)
             /\ pass' = [pass EXCEPT ![p] = [@ EXCEPT !.pc = "save", !.offset = newOffset]]
       \/ /\ DrainThrows(pass[p].day, pass[p].offset)
          /\ pass' = [pass EXCEPT ![p].pc = "save"]
    /\ UNCHANGED <<worldVars, checkpoint, up, inFlight, lostPlaces, unread, visited, truncated>>

\* Mutant of PassOver: without the finally, a pass that fails stays in flight.
FailureStaysInFlight(p, ok) == IF ok THEN NoPass ELSE p

\* _inFlight after the pass: the finally clears it on both ways out.
PassOver(p, ok) == NoPass

\* The last step: an unchanged position is not written; a failed write rejects
\* the promise, and the timers ignore that.
Save(p) ==
    LET next == [date |-> pass[p].date, offset |-> pass[p].offset]
    IN  /\ pass[p].pc = "save"
        /\ \/ /\ next = pass[p].cp
              /\ NoFault
              /\ inFlight' = PassOver(p, TRUE)
              /\ UNCHANGED <<checkpoint, visited, lostPlaces>>
           \/ /\ next # pass[p].cp
              /\ WriteCheckpoint(next)
              /\ inFlight' = PassOver(p, TRUE)
           \/ /\ next # pass[p].cp
              /\ WriteFails
              /\ inFlight' = PassOver(p, FALSE)
        /\ pass' = [pass EXCEPT ![p] = Idle]
        /\ UNCHANGED <<worldVars, rows, up, unread, truncated, history>>

-----------------------------------------------------------------------------
(* The application goes down and comes back.                               *)

Down ==
    /\ up' = FALSE
    /\ inFlight' = NoPass
    /\ pass' = [p \in Passes |-> Idle]

\* The tray's Quit awaits the pass in flight (stopAutopilotLogIngestor).
Quit ==
    /\ up
    /\ inFlight = NoPass
    /\ Down
    /\ UNCHANGED <<worldVars, checkpoint, rows, auxVars>>

\* The process dies during a pass, possibly part of the way through the
\* insert loop: every insert commits on its own.
Crash ==
    /\ up
    /\ inFlight # NoPass
    /\ Fault("crash")
    /\ Down
    /\ LET me == pass[inFlight]
           file == IF me.pc = "prior" THEN me.cp ELSE [date |-> me.day, offset |-> me.offset]
           from == StartOffset(file.date, file.offset)
       IN  \/ /\ me.pc \in {"prior", "current"}
              /\ \E stop \in from..Len(log[file.date]) :
                    /\ Insert(Inserted(file.date, from, stop))
                    /\ lostPlaces' = lostPlaces + (IF Inserted(file.date, from, stop) = {} THEN 0 ELSE 1)
           \/ /\ me.pc \in {"savePrior", "save"}
              /\ lostPlaces' = lostPlaces + 1
              /\ UNCHANGED rows
    /\ UNCHANGED <<worldVars, checkpoint, unread, visited, truncated, history>>

\* startAutopilotLogIngestor: the timers run again.
StartApp ==
    /\ ~up
    /\ up' = TRUE
    /\ UNCHANGED <<worldVars, checkpoint, rows, inFlight, pass, auxVars>>

-----------------------------------------------------------------------------
World == Midnight \/ AppendLine \/ AppendPart \/ AppendRest \/ \E d \in Days : Truncate(d)

PassStep(p) == DrainPrior(p) \/ SavePrior(p) \/ DrainCurrent(p) \/ Save(p)

Next ==
    \/ World
    \/ \E p \in Passes : BeginPass(p) \/ PassStep(p)
    \/ Quit \/ Crash \/ StartApp

Spec == Init /\ [][Next]_vars

\* The five-minute interval fires again and again while the application is up,
\* and the awaits of a pass complete.  Nobody promises that the user starts the
\* application, that the writer finishes its line, or that the day passes.
FairSpec ==
    /\ Spec
    /\ WF_vars(\E p \in Passes : BeginPass(p))
    /\ WF_vars(\E p \in Passes : PassStep(p))

-----------------------------------------------------------------------------
(* Properties                                                              *)

LogLines(d) == {log[d][i] : i \in 1..Len(log[d])}

Positions == [date : 0..MaxDay, offset : 0..MaxLines]
PassType == [pc : {"idle", "prior", "savePrior", "current", "save"}, cp : Positions,
             day : 0..MaxDay, date : 0..MaxDay, offset : 0..MaxLines]

\* Every variable has its type; a cursor is on a line boundary of some day, and
\* _inFlight holds a pass that is running.
TypeOK ==
    /\ today \in Days
    /\ log \in [Days -> Seq(Lines)]
    /\ written \in 0..MaxLines
    /\ malformed \subseteq 1..written
    /\ partial = NoPartial \/ partial \in [day : Days, line : 1..written]
    /\ checkpoint \in Positions
    /\ rows \in [Lines -> Nat]
    /\ up \in BOOLEAN
    /\ inFlight \in {p \in Passes : pass[p].pc # "idle"} \cup {NoPass}
    /\ pass \in [Passes -> PassType]
    /\ faults \in 0..MaxFaults
    /\ lostPlaces \in 0..faults
    /\ visited \subseteq Days /\ truncated \subseteq Days /\ unread \subseteq Days
    /\ history \in [Lines -> SUBSET {"failed", "cut", "down"}]

\* Plain INSERTs and an asynchronous checkpoint: a line is inserted once, and
\* once more at most for every pass whose work the checkpoint missed (a crash
\* between an insert and the write, or a failed write) and every one that could
\* not read the checkpoint.  Overlapping timers, failed inserts, day changes and
\* truncated files never duplicate a row.
DuplicatesNeedALostPlace == \A l \in Lines : rows[l] <= 1 + lostPlaces

\* What the checkpoint says is done is done: every well-formed line before the
\* offset, in the file of the checkpoint's own day, has its row.  (Unless
\* that file was truncated.)
CheckpointIsHonest ==
    (checkpoint # NoCheckpoint /\ checkpoint.date \notin truncated) =>
        /\ checkpoint.offset <= Len(log[checkpoint.date])
        /\ \A i \in 1..checkpoint.offset :
              log[checkpoint.date][i] \in malformed \/ rows[log[checkpoint.date][i]] > 0

\* The next pass still reaches line l: it is at or past the checkpoint on disk.
Reachable(l) ==
    \E d \in Days : \E i \in 1..Len(log[d]) :
        /\ log[d][i] = l
        /\ IF checkpoint = NoCheckpoint THEN d >= today
           ELSE \/ d > checkpoint.date
                \/ d = checkpoint.date /\ i > checkpoint.offset

\* Between passes, a complete well-formed line has its row or is still ahead.
Kept(l) == inFlight = NoPass => (rows[l] > 0 \/ l \in malformed \/ Reachable(l))

\* "drain prior day's file to EOF before advancing lastDate": once a
\* checkpoint has named a day, no line of that day is left behind, whenever
\* the application goes down and however many days later it comes back, unless
\* an insert or a read failed on it, a pass met it half-written, or the first
\* pass of a later day could not read the checkpoint that named it.
RolloverDrainsTheDay ==
    \A d \in visited \ (truncated \cup unread) : \A l \in LogLines(d) :
        history[l] \cap {"failed", "cut"} = {} => Kept(l)

\* While the application stays up on a day, every well-formed line of that
\* day's file gets its row, whatever failed before.
LinesGetIn ==
    \A d \in Days : \A l \in Lines :
        <>[](up /\ today = d /\ d \notin truncated /\ l \in LogLines(d)) => <>(rows[l] > 0 \/ l \in malformed)

(* What a comment of the file promises, on the days after one that the    *)
(* checkpoint file has named (the first day is no special case).          *)

\* autopilotLogIngestor.ts:30: the drain after startup is there to "pick up anything while app
\* was shut down".
DowntimeIsCaughtUp ==
    \A d \in Days : (\E v \in visited : v < d) =>
        \A l \in LogLines(d) : history[l] = {"down"} => Kept(l)

-----------------------------------------------------------------------------
(* The inductive invariant behind the safety properties.                   *)

\* Every file has its lines in the order they were begun.
InOrder(last) ==
    \A d \in Days : \A i \in 1..Len(log[d]) : i <= log[d][i] /\ log[d][i] <= last

\* A line is complete in one place at most.
OnePlace ==
    \A d, e \in Days : \A i \in 1..Len(log[d]) : \A j \in 1..Len(log[e]) :
        log[d][i] = log[e][j] => d = e /\ i = j

LinesInv ==
    /\ InOrder(IF partial = NoPartial THEN written ELSE written - 1)
    /\ OnePlace
    /\ partial # NoPartial => partial.line = written /\ partial.day <= today

\* A pass that could not read the checkpoint, before its drain: whatever it inserts again,
\* its lost place makes up for.
Misread(me) ==
    /\ me.cp = [date |-> me.day, offset |-> 0] /\ me.offset = 0
    /\ \A l \in Lines : rows[l] <= lostPlaces

\* What a pass knows of the checkpoint on disk at each of its awaits.
PassInv(p) ==
    LET me == pass[p]
    IN  /\ inFlight = p
        /\ me.day \in 1..today /\ me.date = me.day /\ checkpoint.date <= me.day
        /\ me.pc = "prior" => me.cp = checkpoint
        /\ me.pc \in {"prior", "savePrior"} =>
              me.cp.date = checkpoint.date /\ me.cp.date \in 1..(me.day - 1) /\ me.offset = 0
        /\ me.pc = "current" =>
              \/ me.offset = IF checkpoint.date = me.day THEN checkpoint.offset ELSE 0
              \/ Misread(me)
        /\ me.pc \in {"current", "save"} /\ me.cp.date = me.day =>
              \/ me.cp = checkpoint
              \/ checkpoint = NoCheckpoint /\ me.cp.offset = 0
              \/ me.pc = "current" /\ Misread(me)
              \/ me.pc = "save" /\ me.cp.offset = 0

CursorInv ==
    /\ checkpoint.date <= today
    /\ checkpoint # NoCheckpoint => checkpoint.date \in visited
    /\ visited \subseteq 1..checkpoint.date
    /\ \A p \in Passes : pass[p].pc # "idle" => PassInv(p)

\* A pass from position cp reaches the i-th line of day d.
AheadOf(cp, d, i) == d > cp.date \/ (d = cp.date /\ i > StartOffset(d, cp.offset))

\* What is ahead of position cp was inserted once for each lost save at most.
Covers(cp) ==
    \A d \in Days : \A i \in 1..Len(log[d]) : rows[log[d][i]] <= lostPlaces \/ ~AheadOf(cp, d, i)

NextCheckpoint(p) == [date |-> pass[p].date, offset |-> pass[p].offset]

\* Pass p has a checkpoint to write.
Saving(p) ==
    \/ pass[p].pc = "savePrior"
    \/ pass[p].pc = "save" /\ NextCheckpoint(p) # pass[p].cp

ToSave(p) == IF pass[p].pc = "savePrior" THEN pass[p].cp ELSE NextCheckpoint(p)

RowsInv ==
    /\ \A l \in Lines : rows[l] <= 1 + lostPlaces
    /\ \A l \in Lines : (l > written \/ l = partial.line) => rows[l] = 0
    /\ (\A p \in Passes : ~Saving(p)) => Covers(checkpoint)
    /\ \A p \in Passes : Saving(p) => Covers(ToSave(p))

\* The lines before offset k of day d have their rows.
Honest(d, k) ==
    d \in Days \ truncated =>
        /\ k <= Len(log[d])
        /\ \A i \in 1..k : log[d][i] \in malformed \/ rows[log[d][i]] > 0

HonestInv ==
    /\ Honest(checkpoint.date, checkpoint.offset)
    /\ \A p \in Passes :
          /\ Honest(pass[p].cp.date, pass[p].cp.offset)
          /\ Honest(pass[p].day, pass[p].offset)

\* Nothing is left to do for line l.
Settled(l) == l \in malformed \/ rows[l] > 0 \/ history[l] \cap {"failed", "cut"} # {}

SettledDay(d) ==
    d \notin truncated \cup unread =>
        /\ \A i \in 1..Len(log[d]) : Settled(log[d][i])
        /\ partial.day = d => Settled(partial.line)

\* The checkpoint leaves no day behind before its file is settled.
RolloverInv ==
    /\ \A d \in visited : d < checkpoint.date => SettledDay(d)
    /\ \A p \in Passes :
          pass[p].pc \in {"savePrior", "current", "save"}
            /\ checkpoint.date \in visited /\ checkpoint.date < pass[p].day =>
              SettledDay(checkpoint.date)

IngestInv == TypeOK /\ LinesInv /\ CursorInv /\ RowsInv /\ HonestInv /\ RolloverInv
=============================================================================
