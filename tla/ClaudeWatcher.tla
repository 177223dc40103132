--------------------------- MODULE ClaudeWatcher ---------------------------
(***************************************************************************)
(* Actions that Claude asks for (claudeBridgeWatcher.ts).  A command is a    *)
(* line appended to commands.jsonl; a callback of the directory watcher      *)
(* takes the lines it has not seen, asks the user for each in a window that  *)
(* shows one request at a time (ClaudeApprovalListener.tsx), runs what was   *)
(* approved and appends a line to responses.jsonl.                           *)
(***************************************************************************)
EXTENDS Integers, Sequences, FiniteSets, SequencesExt

CONSTANTS
  Commands,
  Unknown,     \* commands whose action does not exist, or whose parameters are too large
  Nameless,    \* commands without an id or an action, or with an id of another shape
  IdOf,        \* the id that a command carries; the channel of its approval
  Callbacks,   \* slots for watcher callbacks: bounds how many overlap
  MaxCwFaults  \* bound on half-written lines, missing windows and restarts

None == "none"
Half == "half"

ASSUME CommandAssumption ==
  None \notin Commands /\ Half \notin Commands /\ Unknown \subseteq Commands
  /\ Nameless \subseteq Commands \ Unknown
  /\ DOMAIN IdOf = Commands /\ MaxCwFaults \in Nat

VARIABLES
  lines,         \* commands.jsonl: its lines, the last one possibly half-written
  lastProcessed, \* lastProcessedLine
  callback,      \* per slot: lines still to handle, the command it waits for
  listening,     \* commands whose approval is awaited
  modal,         \* the request that the window shows
  running,       \* commands whose action runs
  approved,      \* history: ids the user approved
  runs,          \* history: actions started per command
  answers,       \* responses.jsonl: the set of answers per command
  cwFaults

cwVars == <<lines, lastProcessed, callback, listening, modal, running, approved, runs,
            answers, cwFaults>>

Line == Commands \cup {Half}
NoWork == [left |-> <<>>, at |-> None]

WorkType == [left : Seq(Line), at : Commands \cup {None}]

CwTypeOK ==
  /\ lines \in Seq(Line)
  /\ lastProcessed \in 0..Len(lines)
  /\ callback \in [Callbacks -> WorkType]
  /\ listening \subseteq Commands /\ running \subseteq Commands
  /\ modal \in Commands \cup {None}
  /\ approved \subseteq {IdOf[c] : c \in Commands}
  /\ runs \in [Commands -> Nat]
  /\ answers \in [Commands -> SUBSET {"rejected", "declined", "ran"}]
  /\ cwFaults \in 0..MaxCwFaults

CwInit ==
  /\ lines = <<>> /\ lastProcessed = 0
  /\ callback = [w \in Callbacks |-> NoWork]
  /\ listening = {} /\ modal = None /\ running = {}
  /\ approved = {}
  /\ runs = [c \in Commands |-> 0]
  /\ answers = [c \in Commands |-> {}]
  /\ cwFaults = 0

CwFault == cwFaults < MaxCwFaults /\ cwFaults' = cwFaults + 1

HalfWritten == lines # <<>> /\ Last(lines) = Half
Written == Range(lines)

\* Claude appends a command, at once or in two writes with a callback in between.
WriteCommand(c) ==
  /\ c \notin Written /\ ~HalfWritten
  /\ \/ lines' = Append(lines, c) /\ UNCHANGED cwFaults
     \/ lines' = Append(lines, Half) /\ CwFault
  /\ UNCHANGED <<lastProcessed, callback, listening, modal, running, approved, runs, answers>>

WriteRest(c) ==
  /\ HalfWritten /\ c \notin Written
  /\ lines' = Append(Front(lines), c)
  /\ UNCHANGED <<lastProcessed, callback, listening, modal, running, approved, runs, answers, cwFaults>>

\* lastProcessedLine after a callback has read the file.
Counted == Len(lines)

\* A callback of the watcher, of which one write may cause several, up to its first await.
Notice(w) ==
  /\ callback[w] = NoWork
  /\ lastProcessed < Len(lines)
  /\ callback' = [callback EXCEPT ![w].left = SubSeq(lines, lastProcessed + 1, Len(lines))]
  /\ lastProcessed' = Counted
  /\ UNCHANGED <<lines, listening, modal, running, approved, runs, answers, cwFaults>>

Answered(c, answer) == [answers EXCEPT ![c] = @ \cup {answer}]

\* The next line: what cannot be parsed, or has no name to answer to, is dropped without an
\* answer, an unknown action or a command that finds no window is rejected, and anything else
\* is shown to the user in place of what was shown before.
Shown == Commands \ (Unknown \cup Nameless)

HandleLine(w) ==
  /\ callback[w].at = None /\ callback[w].left # <<>>
  /\ LET line == Head(callback[w].left)  rest == Tail(callback[w].left) IN
     \/ /\ line \in Nameless \cup {Half}
        /\ callback' = [callback EXCEPT ![w].left = rest]
        /\ UNCHANGED <<listening, modal, answers, cwFaults>>
     \/ /\ \/ line \in Unknown /\ UNCHANGED cwFaults
           \/ line \in Shown /\ CwFault
        /\ callback' = [callback EXCEPT ![w].left = rest]
        /\ answers' = Answered(line, "rejected")
        /\ UNCHANGED <<listening, modal>>
     \/ /\ line \in Shown
        /\ callback' = [callback EXCEPT ![w] = [left |-> rest, at |-> line]]
        /\ listening' = listening \cup {line}
        /\ modal' = line
        /\ UNCHANGED <<answers, cwFaults>>
  /\ UNCHANGED <<lines, lastProcessed, running, approved, runs>>

\* The user decides on what is shown, which may have timed out: the decision goes to
\* whoever listens on the channel of that id.
Decide ==
  /\ modal # None
  /\ modal' = None
  /\ LET heard == {c \in listening : IdOf[c] = IdOf[modal]} IN
     /\ listening' = listening \ heard
     /\ \/ /\ approved' = approved \cup {IdOf[modal]}
           /\ running' = running \cup heard
           /\ runs' = [c \in Commands |-> runs[c] + (IF c \in heard THEN 1 ELSE 0)]
           /\ UNCHANGED <<callback, answers>>
        \/ /\ answers' = [c \in Commands |-> answers[c] \cup (IF c \in heard THEN {"declined"} ELSE {})]
           /\ callback' = [w \in Callbacks |->
                IF callback[w].at \in heard THEN [callback[w] EXCEPT !.at = None] ELSE callback[w]]
           /\ UNCHANGED <<approved, running, runs>>
  /\ UNCHANGED <<lines, lastProcessed, cwFaults>>

\* Mutant: the listener outlives the timer.
StillListening(c) == listening

\* cleanup() of the approval: the listener is removed with the timer.
StopListening(c) == listening \ {c}

\* After 90 s the request counts as declined; the window goes on showing it.
TimesOut(w) ==
  /\ callback[w].at \in listening
  /\ LET c == callback[w].at IN
     /\ listening' = StopListening(c)
     /\ answers' = Answered(c, "declined")
     /\ callback' = [callback EXCEPT ![w].at = None]
  /\ UNCHANGED <<lines, lastProcessed, modal, running, approved, runs, cwFaults>>

\* The action has ended, well or not.
ActionEnds(w) ==
  /\ callback[w].at \in running
  /\ LET c == callback[w].at IN
     /\ running' = running \ {c}
     /\ answers' = Answered(c, "ran")
     /\ callback' = [callback EXCEPT ![w].at = None]
  /\ UNCHANGED <<lines, lastProcessed, listening, modal, approved, runs, cwFaults>>

\* The application stops and is started again: the lines that are there are skipped.
CwRestart ==
  /\ CwFault
  /\ lastProcessed' = Len(lines)
  /\ callback' = [w \in Callbacks |-> NoWork]
  /\ listening' = {} /\ modal' = None /\ running' = {}
  /\ UNCHANGED <<lines, approved, runs, answers>>

CwNext ==
  \/ \E c \in Commands : WriteCommand(c) \/ WriteRest(c)
  \/ \E w \in Callbacks : Notice(w) \/ HandleLine(w) \/ TimesOut(w) \/ ActionEnds(w)
  \/ Decide \/ CwRestart

\* The watcher reports, the timers fire and actions end; the user need not decide.
CwFairness ==
  /\ WF_cwVars(\E w \in Callbacks : Notice(w))
  /\ \A w \in Callbacks : WF_cwVars(HandleLine(w) \/ TimesOut(w) \/ ActionEnds(w))

\* A command runs at most once and only after the user approved its id, however the
\* callbacks overlap; what was answered with "declined" never runs, and nothing gets two
\* answers.
AnswersAreTrue ==
  \A c \in Commands :
    /\ runs[c] <= 1
    /\ runs[c] = 1 => IdOf[c] \in approved
    /\ answers[c] # {} => (answers[c] = {"ran"} <=> runs[c] = 1)
    /\ Cardinality(answers[c]) <= 1

\* A command with an id that was written at once is answered, although the window forgets a request
\* when the next one comes - unless the application stops.
CommandsAreAnswered ==
  \A c \in Commands \ Nameless : c \in Written /\ cwFaults = 0 ~> answers[c] # {} \/ cwFaults > 0

(***************************************************************************)
(* Inductive invariant.                                                    *)
(***************************************************************************)
\* Only the last line may be half-written, and no command is written twice.
LinesAreDistinct ==
  /\ \A i \in 1..Len(lines) - 1 : lines[i] # Half
  /\ \A i, j \in 1..Len(lines) : lines[i] = lines[j] => i = j

TakenUp(c) == \E i \in 1..lastProcessed : lines[i] = c
InQueue(w, c) == \E i \in 1..Len(callback[w].left) : callback[w].left[i] = c

Untouched(c) ==
  /\ runs[c] = 0 /\ answers[c] = {}
  /\ c \notin listening \cup running
  /\ \A w \in Callbacks : callback[w].at # c

\* A line that no callback has counted is in no queue; one that is in a queue is so once, and
\* nothing has been done about it.
QueuedOnce(c) ==
  /\ ~TakenUp(c) => Untouched(c) /\ \A w \in Callbacks : ~InQueue(w, c)
  /\ \A w \in Callbacks : InQueue(w, c) =>
       /\ Untouched(c)
       /\ \A v \in Callbacks : InQueue(v, c) => v = w
       /\ \A i, j \in 1..Len(callback[w].left) :
            callback[w].left[i] = c /\ callback[w].left[j] = c => i = j

\* One callback waits for a command at a time: for the decision, or for the action that was
\* approved; so the answer is still open.
AwaitedOnce(c) ==
  /\ \A w \in Callbacks : callback[w].at = c =>
       /\ answers[c] = {}
       /\ c \in listening <=> c \notin running
       /\ \A v \in Callbacks : callback[v].at = c => v = w
  /\ c \in listening \cup running => \E w \in Callbacks : callback[w].at = c
  /\ c \in listening => runs[c] = 0
  /\ c \in running => runs[c] = 1

AnswerIsTrue(c) ==
  /\ runs[c] \in {0, 1}
  /\ runs[c] = 1 => IdOf[c] \in approved
  /\ answers[c] \in {{}, {"rejected"}, {"declined"}, {"ran"}}
  /\ answers[c] # {} => (answers[c] = {"ran"} <=> runs[c] = 1)

CwInv ==
  /\ CwTypeOK /\ LinesAreDistinct
  /\ \A c \in Commands : QueuedOnce(c) /\ AwaitedOnce(c) /\ AnswerIsTrue(c)
=============================================================================
